------------------------ MODULE MCCloudSynchService -------------------------
(***************************************************************************)
(* Transports for the runs of CloudSynchService.  Speeds are the code's    *)
(* response times in milliseconds (ConfigUtils lines 96-98); one tick is a *)
(* minute, and "120m" is shortened to 5 ticks: any number above            *)
(* MAX_PING_INTERVAL, 3 minutes, behaves the same.                         *)
(***************************************************************************)
EXTENDS CloudSynchService, TLC

Wifi(frequency) == [speed |-> 150, frequency |-> frequency]
Mifi(frequency) == [speed |-> 200, frequency |-> frequency]
Satellite(frequency) == [speed |-> 10000, frequency |-> frequency]

\* Priorities without a gap, ending with the slowest transport.
DenseTransports == <<Wifi(1), Mifi(2), Satellite(5)>>

\* conf/cloudsynch-conf.json: scp, sftp, ftp, smtp, directdb, mqtt; no priority 3.
ShippedTransports ==
    1 :> Mifi(2) @@ 2 :> Wifi(2) @@ 4 :> Mifi(2) @@ 5 :> Satellite(5)
      @@ 6 :> Wifi(1) @@ 7 :> Wifi(1)

\* Nothing suits a ping slower than 150 ms.
WifiOnly == <<Wifi(1)>>

\* A transport whose frequency is no number.
Misconfigured == <<Wifi(1), Mifi(Unparsable), Satellite(5)>>

Sound == {DenseTransports, WifiOnly}
Shipped == {ShippedTransports}
AllKinds == {DenseTransports, ShippedTransports, Misconfigured, WifiOnly}

\* One ping result per transport of DenseTransports, and a failed ping.
AllPings == {PING_ERROR, 100, 180, 9000}
==============================================================================
