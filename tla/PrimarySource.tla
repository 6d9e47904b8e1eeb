---------------------------- MODULE PrimarySource ----------------------------
(***************************************************************************)
(* Which source of a path is the primary one, as InfluxDbService decides   *)
(* it.  Every point saved for a vessel, an AIS target or a resource is     *)
(* tagged primary or not: isPrimary looks the path up in primaryMap, and   *)
(* the first source to ask about a path without an entry becomes its       *)
(* primary source (get, then put, without a lock).  Messages are saved by  *)
(* the broker's session threads, several at a time (Savers).               *)
(*                                                                         *)
(* loadPrimary fills the map from the points stored as primary.  It runs   *)
(* when a service object is set up and the map is empty: at the start, and *)
(* again with every new Subscription, since TDBServiceFactory looks a      *)
(* service up under another key than it stores it under and so makes a     *)
(* new one each time (Loaders).                                            *)
(*                                                                         *)
(* A path is the map's key, that is the part of a key before ".values.".   *)
(* loadPrimary queries vessels only; Reloaded are the paths whose entry it *)
(* finds again.  Of the store only the points that query selects are kept, *)
(* primary ones of Reloaded paths: nothing modelled reads the others.      *)
(***************************************************************************)
EXTENDS Naturals, FiniteSets

CONSTANTS Paths,          \* keys of primaryMap
          Reloaded,       \* those whose entry loadPrimary finds in the store
          DatetimePaths,  \* the vessel's own navigation.datetime
          Sources,        \* values of the tag sourceRef
          NoSource,       \* what get returns for a key that is not there
          Savers,         \* threads that save a message
          Loaders,        \* threads that set up a service object
          Fields,         \* points of one entry: the fields of its value object
          SystemClock     \* CLOCK_SOURCE is "system"

ASSUME PrimaryAssumption ==
    /\ Reloaded \subseteq Paths
    /\ DatetimePaths \subseteq Paths
    /\ NoSource \notin Sources
    /\ Fields \in Nat \ {0}
    /\ SystemClock \in BOOLEAN

VARIABLES primaryMap,  \* primaryMap: path -> source
          allowWrite,  \* allowWrite: the clock is known
          saver,       \* per thread: the entry being saved and how far it is
          loader,      \* per thread: the statement of loadPrimary, the rows left
          up,          \* a first set-up has succeeded, the interceptors have a service
          buffered,    \* points in the batch of a client of the store
          stored,      \* points in the store
          granted,     \* history: sources told primary since the program started
          overlapped,  \* history: two get-then-put sections have overlapped
          missed       \* history: a load was not answered and points were stored

store == <<buffered, stored>>
ghosts == <<granted, overlapped, missed>>
vars == <<primaryMap, allowWrite, saver, loader, up, store, ghosts>>

Points == Reloaded \X Sources

\* told is what isPrimary returned for this field; tags what it returned for the
\* fields of this entry up to now.
Entries ==
    [pc : {"field", "grant", "write", "flush"}, path : Paths, source : Sources,
     left : 0 .. Fields, told : BOOLEAN, tags : SUBSET BOOLEAN]

Entry(path, source) ==
    [pc |-> "field", path |-> path, source |-> source, left |-> Fields,
     told |-> FALSE, tags |-> {}]

NoEntry == [pc |-> "idle"]
Idle == [pc |-> "idle", rows |-> {}]
EmptyMap == [p \in Paths |-> NoSource]

TypeOK ==
    /\ primaryMap \in [Paths -> Sources \cup {NoSource}]
    /\ allowWrite \in BOOLEAN
    /\ saver \in [Savers -> Entries \cup {NoEntry}]
    /\ loader \in [Loaders -> [pc : {"idle", "clear", "query", "fill"}, rows : SUBSET Points]]
    /\ up \in BOOLEAN
    /\ buffered \in SUBSET Points
    /\ stored \in SUBSET Points
    /\ granted \in [Paths -> SUBSET Sources]
    /\ overlapped \in BOOLEAN
    /\ missed \in BOOLEAN

\* A freshly started program.
Init ==
    /\ primaryMap = EmptyMap
    /\ allowWrite = FALSE
    /\ saver = [t \in Savers |-> NoEntry]
    /\ loader = [l \in Loaders |-> Idle]
    /\ up = FALSE
    /\ buffered = {}
    /\ stored = {}
    /\ granted = [p \in Paths |-> {}]
    /\ overlapped = FALSE
    /\ missed = FALSE

\* Somebody has seen no entry, or an empty map, and is about to act on that.
Deciding(t) == saver[t].pc = "grant"
Loading(l) == loader[l].pc # "idle"
SomebodyDecides == (\E t \in Savers : Deciding(t)) \/ (\E l \in Loaders : Loading(l))

------------------------------------------------------------------------------
(* Saving a message *)

\* An interceptor hands the parsed message to save.  A delta with the vessel's
\* time sets the clock first, which allows writing; a full message does not.
MessageArrives(t) ==
    /\ up
    /\ saver[t].pc = "idle"
    /\ \E path \in Paths, source \in Sources :
        /\ saver' = [saver EXCEPT ![t] = Entry(path, source)]
        /\ \/ UNCHANGED allowWrite
           \/ path \in DatetimePaths /\ allowWrite' = TRUE
    /\ UNCHANGED <<primaryMap, loader, up, store, ghosts>>

\* Mutation: Off by one in the loop over the fields.
PointDoneLate(e) ==
    [e EXCEPT !.left = @ - 1, !.told = FALSE, !.pc = IF e.left = 0 THEN "flush" ELSE "field"]

\* The entry e after one of its points.
PointDone(e) ==
    [e EXCEPT !.left = @ - 1, !.told = FALSE, !.pc = IF e.left = 1 THEN "flush" ELSE "field"]

Answered(e, primary) ==
    [e EXCEPT !.pc = "write", !.told = primary, !.tags = @ \cup {primary}]

\* saveData before the clock is known.
FieldDropped(t) ==
    /\ saver[t].pc = "field"
    /\ ~allowWrite /\ ~SystemClock
    /\ saver' = [saver EXCEPT ![t] = PointDone(@)]
    /\ UNCHANGED <<primaryMap, allowWrite, loader, up, store, ghosts>>

\* saveData tests allowWrite, then isPrimary reads the map.  One step: allowWrite
\* does not become false again while the program runs.
Looks(t) ==
    /\ saver[t].pc = "field"
    /\ allowWrite \/ SystemClock
    /\ allowWrite' = TRUE
    /\ UNCHANGED <<primaryMap, loader, up, store>>

LookupNone(t) ==
    /\ Looks(t)
    /\ primaryMap[saver[t].path] = NoSource
    /\ saver' = [saver EXCEPT ![t].pc = "grant"]
    /\ overlapped' = (overlapped \/ SomebodyDecides)
    /\ UNCHANGED <<granted, missed>>

\* Mutation: The source references are compared with ==.
LookupSameObject(t) ==
    /\ Looks(t)
    /\ primaryMap[saver[t].path] = saver[t].source
    /\ \E same \in BOOLEAN :
        /\ saver' = [saver EXCEPT ![t] = Answered(@, same)]
        /\ granted' = IF same THEN [granted EXCEPT ![saver[t].path] = @ \cup {saver[t].source}]
                              ELSE granted
    /\ UNCHANGED <<overlapped, missed>>

LookupSame(t) ==
    /\ Looks(t)
    /\ primaryMap[saver[t].path] = saver[t].source
    /\ saver' = [saver EXCEPT ![t] = Answered(@, TRUE)]
    /\ granted' = [granted EXCEPT ![saver[t].path] = @ \cup {saver[t].source}]
    /\ UNCHANGED <<overlapped, missed>>

LookupOther(t) ==
    /\ Looks(t)
    /\ primaryMap[saver[t].path] \notin {NoSource, saver[t].source}
    /\ saver' = [saver EXCEPT ![t] = Answered(@, FALSE)]
    /\ UNCHANGED ghosts

\* Mutation: isPrimary answers true without setPrimary.
GrantForgotten(t) ==
    /\ Deciding(t)
    /\ granted' = [granted EXCEPT ![saver[t].path] = @ \cup {saver[t].source}]
    /\ saver' = [saver EXCEPT ![t] = Answered(@, TRUE)]
    /\ UNCHANGED <<primaryMap, allowWrite, loader, up, store, overlapped, missed>>

\* Mutation: isPrimary returns whether the source was the primary one before setPrimary.
GrantAnswersBefore(t) ==
    /\ Deciding(t)
    /\ primaryMap' = [primaryMap EXCEPT ![saver[t].path] = saver[t].source]
    /\ saver' = [saver EXCEPT ![t] = Answered(@, FALSE)]
    /\ UNCHANGED <<allowWrite, loader, up, store, ghosts>>

\* setPrimary, and isPrimary returns true.
Grant(t) ==
    /\ Deciding(t)
    /\ primaryMap' = [primaryMap EXCEPT ![saver[t].path] = saver[t].source]
    /\ granted' = [granted EXCEPT ![saver[t].path] = @ \cup {saver[t].source}]
    /\ saver' = [saver EXCEPT ![t] = Answered(@, TRUE)]
    /\ UNCHANGED <<allowWrite, loader, up, store, overlapped, missed>>

\* What loadPrimary would select of the point now being written.
Selected(e) == {point \in Points : e.told /\ point = <<e.path, e.source>>}

\* The tagged point goes into the client's batch.
Write(t) ==
    /\ saver[t].pc = "write"
    /\ buffered' = buffered \cup Selected(saver[t])
    /\ saver' = [saver EXCEPT ![t] = PointDone(@)]
    /\ UNCHANGED <<primaryMap, allowWrite, loader, up, stored, ghosts>>

\* The map of the message has another entry.
NextEntry(t) ==
    /\ saver[t].pc = "flush"
    /\ \E path \in Paths, source \in Sources :
        saver' = [saver EXCEPT ![t] = Entry(path, source)]
    /\ UNCHANGED <<primaryMap, allowWrite, loader, up, store, ghosts>>

\* Some batch is sent: its points are stored, or the exception handler logs them.
BatchSent ==
    \E batch \in SUBSET buffered :
        /\ buffered' = buffered \ batch
        /\ stored' \in {stored, stored \cup batch}

\* save ends with a flush of the client the field influxDB now refers to; points
\* given to the client before a set-up are still in that client's batch.
Flush(t) ==
    /\ saver[t].pc = "flush"
    /\ saver' = [saver EXCEPT ![t] = NoEntry]
    /\ BatchSent
    /\ UNCHANGED <<primaryMap, allowWrite, loader, up, ghosts>>

\* The message is given up half way: a null value is logged before the clock is
\* known, or addPoint casts a Float.
Abandons(t) ==
    /\ \/ saver[t].pc = "field" /\ ~allowWrite /\ ~SystemClock
       \/ saver[t].pc = "write"
    /\ saver' = [saver EXCEPT ![t] = NoEntry]
    /\ UNCHANGED <<primaryMap, allowWrite, loader, up, store, ghosts>>

\* A batch is also sent by its timer or when it is full.
TimerFlushes ==
    /\ buffered # {}
    /\ BatchSent
    /\ UNCHANGED <<primaryMap, allowWrite, saver, loader, up, ghosts>>

------------------------------------------------------------------------------
(* Setting up a service object *)

\* setUpTDb finds the map empty (when it does not, it changes nothing).  The
\* interceptors are made one after the other before any message is taken.
SetUpFindsNothing(l) ==
    /\ loader[l].pc = "idle"
    /\ up \/ (\A m \in Loaders : ~Loading(m))
    /\ primaryMap = EmptyMap
    /\ loader' = [loader EXCEPT ![l].pc = "clear"]
    /\ overlapped' = (overlapped \/ SomebodyDecides)
    /\ UNCHANGED <<primaryMap, allowWrite, saver, up, store, granted, missed>>

Clear(l) ==
    /\ loader[l].pc = "clear"
    /\ primaryMap' = EmptyMap
    /\ loader' = [loader EXCEPT ![l].pc = "query"]
    /\ UNCHANGED <<allowWrite, saver, up, store, ghosts>>

\* One row for each path and source that has a point stored as primary.
Query(l) ==
    /\ loader[l].pc = "query"
    /\ loader' = [loader EXCEPT ![l] = [pc |-> "fill", rows |-> stored]]
    /\ UNCHANGED <<primaryMap, allowWrite, saver, up, store, ghosts>>

\* The exception leaves the constructor; the map stays empty.
QueryFails(l) ==
    /\ loader[l].pc = "query"
    /\ loader' = [loader EXCEPT ![l] = Idle]
    /\ UNCHANGED <<primaryMap, allowWrite, saver, up, store, ghosts>>

\* An answer without results, or a result without series although points are
\* stored (an error of the store): loadPrimary returns and the service is up.
QueryAnswersNothing(l) ==
    /\ loader[l].pc = "query"
    /\ loader' = [loader EXCEPT ![l] = Idle]
    /\ up' = TRUE
    /\ missed' = (missed \/ stored # {})
    /\ UNCHANGED <<primaryMap, allowWrite, saver, store, granted, overlapped>>

\* The rows come in the order of the store, which the program does not ask for.
Fill(l) ==
    /\ loader[l].pc = "fill"
    /\ \E row \in loader[l].rows :
        /\ primaryMap' = [primaryMap EXCEPT ![row[1]] = row[2]]
        /\ loader' = [loader EXCEPT ![l].rows = @ \ {row}]
    /\ UNCHANGED <<allowWrite, saver, up, store, ghosts>>

LoadDone(l) ==
    /\ loader[l].pc = "fill"
    /\ loader[l].rows = {}
    /\ loader' = [loader EXCEPT ![l] = Idle]
    /\ up' = TRUE
    /\ UNCHANGED <<primaryMap, allowWrite, saver, store, ghosts>>

\* The program ends, by stop or by a crash, and starts again: the store is all
\* that remains.
Restart ==
    /\ up
    /\ primaryMap' = EmptyMap
    /\ allowWrite' = FALSE
    /\ saver' = [t \in Savers |-> NoEntry]
    /\ loader' = [l \in Loaders |-> Idle]
    /\ up' = FALSE
    /\ buffered' = {}
    /\ granted' = [p \in Paths |-> {}]
    /\ UNCHANGED <<stored, overlapped, missed>>

------------------------------------------------------------------------------

Saving(t) ==
    \/ MessageArrives(t) \/ FieldDropped(t)
    \/ LookupNone(t) \/ LookupSame(t) \/ LookupOther(t) \/ Grant(t)
    \/ Write(t) \/ NextEntry(t) \/ Flush(t) \/ Abandons(t)

LoadPrimary(l) ==
    \/ SetUpFindsNothing(l) \/ Clear(l)
    \/ Query(l) \/ QueryFails(l) \/ QueryAnswersNothing(l) \/ Fill(l) \/ LoadDone(l)

Next ==
    \/ \E t \in Savers : Saving(t)
    \/ \E l \in Loaders : LoadPrimary(l)
    \/ TimerFlushes
    \/ Restart

Spec == Init /\ [][Next]_vars

------------------------------------------------------------------------------
(* What saving promises *)

\* While no two threads are inside isPrimary's get-then-put or loadPrimary at the
\* same time, and the store has answered every load, a path has one primary source
\* while the program runs, and for the paths that are reloaded also over restarts and
\* lost batches: at most one source has points tagged primary.
SolePrimary ==
    ~overlapped /\ ~missed =>
        /\ \A p \in Paths : \A s, u \in granted[p] : s = u
        /\ \A p \in Reloaded, s, u \in Sources :
            {<<p, s>>, <<p, u>>} \subseteq buffered \cup stored => s = u

\* Under the same conditions the fields of one value (a latitude and a longitude)
\* are all primary or all secondary, although isPrimary decides field by field.
ValueOfOneKind ==
    ~overlapped /\ ~missed =>
        \A t \in Savers : saver[t].pc # "idle" => saver[t].tags # BOOLEAN

\* Whatever overlaps or fails, a source is called secondary only because another
\* one is the primary: told so since the start, or stored so before.  Two sources
\* that come first together are never both put off.
SecondaryHasPrimary ==
    \A t \in Savers :
        saver[t].pc = "write" /\ ~saver[t].told =>
            \E u \in Sources \ {saver[t].source} :
                u \in granted[saver[t].path] \/ <<saver[t].path, u>> \in stored
==============================================================================
