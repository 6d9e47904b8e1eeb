------------------------ MODULE PrimarySourceProofs -------------------------
(***************************************************************************)
(* Proofs about PrimarySource, for all paths, sources, threads and numbers *)
(* of fields.  Apart from TypeOK the invariant has two halves.  The first  *)
(* holds whatever overlaps; it says where an entry of the map, a row being *)
(* loaded and an answer come from.  The second holds while no two sections *)
(* have overlapped and no load has missed what is stored.                  *)
(***************************************************************************)
EXTENDS PrimarySource, TLAPS

Active(t) == saver[t].pc # "idle"

\* A thread that still has a point to write has not counted it.
PointLeft == \A t \in Savers : saver[t].pc \in {"field", "grant", "write"} => saver[t].left >= 1

\* Before the first set-up has succeeded nobody saves.
NothingBeforeSetUp ==
    ~up => /\ \A t \in Savers : ~Active(t)
           /\ \A p \in Paths : granted[p] = {}
           /\ buffered = {}

RowsAreStored == \A l \in Loaders : loader[l].rows \subseteq stored

\* Who was answered true has been granted the path; who is now answered false is so
\* because of another source.
AnswersFounded(t) ==
    Active(t) =>
        /\ saver[t].told \/ TRUE \in saver[t].tags =>
                saver[t].source \in granted[saver[t].path]
        /\ saver[t].pc = "write" /\ ~saver[t].told =>
                \E u \in Sources \ {saver[t].source} :
                    u \in granted[saver[t].path] \/ <<saver[t].path, u>> \in stored
AllAnswersFounded == \A t \in Savers : AnswersFounded(t)

MapIsFounded ==
    \A p \in Paths :
        primaryMap[p] # NoSource =>
            primaryMap[p] \in granted[p] \/ <<p, primaryMap[p]>> \in stored

Always ==
    /\ TypeOK /\ PointLeft
    /\ NothingBeforeSetUp /\ RowsAreStored
    /\ AllAnswersFounded /\ MapIsFounded

\* At most one thread is in a section.
OneInSection ==
    /\ \A t, u \in Savers : Deciding(t) /\ Deciding(u) => t = u
    /\ \A t \in Savers, l \in Loaders : ~(Deciding(t) /\ Loading(l))
    /\ \A l, m \in Loaders : Loading(l) /\ Loading(m) => l = m

\* A load that found the map empty still finds it so.
StillEmpty ==
    \A l \in Loaders : loader[l].pc \in {"clear", "query"} => primaryMap = EmptyMap

\* A thread about to put its source still finds no entry; one that was answered
\* false for its value still has another source before it.
Standing(t) ==
    /\ Deciding(t) => primaryMap[saver[t].path] = NoSource
    /\ Active(t) /\ FALSE \in saver[t].tags =>
            primaryMap[saver[t].path] \notin {NoSource, saver[t].source}
AllStanding == \A t \in Savers : Standing(t)

GrantedIsMapped == \A p \in Paths : \A s \in granted[p] : primaryMap[p] = s

\* While the program runs, the map agrees with the points; while it starts, the
\* rows not yet put make up for the difference.
PointsAreMapped ==
    up => \A point \in buffered \cup stored : primaryMap[point[1]] = point[2]
LoadIsComplete ==
    \A l \in Loaders : loader[l].pc = "fill" =>
        IF up THEN loader[l].rows = {}
              ELSE \A point \in stored :
                      primaryMap[point[1]] = point[2] \/ point \in loader[l].rows
OneSourceStored ==
    \A a, b \in buffered \cup stored : a[1] = b[1] => a[2] = b[2]

WhileApart ==
    /\ OneInSection /\ AllStanding /\ StillEmpty /\ GrantedIsMapped
    /\ PointsAreMapped /\ LoadIsComplete /\ OneSourceStored

PrimaryInv == Always /\ (~overlapped /\ ~missed => WhileApart)

------------------------------------------------------------------------------
(* Entries *)

\* A thread that is not idle has an entry, and a point left when it is inside one.
LEMMA ActiveEntry ==
    ASSUME TypeOK, NEW t \in Savers, Active(t)
    PROVE  saver[t] \in Entries
BY DEF TypeOK, Active, NoEntry

\* Arriving and next entries start without an answer.
LEMMA NewEntry ==
    ASSUME PrimaryAssumption, NEW p \in Paths, NEW s \in Sources
    PROVE  Entry(p, s) \in Entries /\ Entry(p, s).left >= 1
BY DEF Entry, Entries, PrimaryAssumption

\* Counting a point keeps the entry and its answers.
LEMMA CountedEntry ==
    ASSUME PrimaryAssumption, NEW e \in Entries, e.left >= 1
    PROVE  /\ PointDone(e) \in Entries
           /\ PointDone(e).pc \in {"field", "flush"}
           /\ PointDone(e).pc = "field" => PointDone(e).left >= 1
           /\ PointDone(e).path = e.path /\ PointDone(e).source = e.source
           /\ PointDone(e).told = FALSE /\ PointDone(e).tags = e.tags
<1> DEFINE next == IF e.left = 1 THEN "flush" ELSE "field"
           less == e.left - 1
<1>1. PointDone(e) = [[[e EXCEPT !.left = less] EXCEPT !.told = FALSE] EXCEPT !.pc = next]
  BY DEF PointDone
<1>2. less \in 0 .. Fields
  BY DEF Entries, PrimaryAssumption
<1>3. next \in {"flush", "field"} /\ (next = "field" => less >= 1)
  BY DEF Entries
<1> HIDE DEF next, less
<1>4. QED
  BY <1>1, <1>2, <1>3 DEF Entries

\* An answer is added to those of the entry.
LEMMA AnsweredEntry ==
    ASSUME NEW e \in Entries, NEW primary \in BOOLEAN
    PROVE  /\ Answered(e, primary) \in Entries
           /\ Answered(e, primary).pc = "write" /\ Answered(e, primary).left = e.left
           /\ Answered(e, primary).path = e.path /\ Answered(e, primary).source = e.source
           /\ Answered(e, primary).told = primary
           /\ Answered(e, primary).tags = e.tags \cup {primary}
BY DEF Answered, Entries

\* Sending a batch loses points or stores them, and adds none.
LEMMA BatchAddsNothing ==
    ASSUME BatchSent
    PROVE  /\ stored \subseteq stored' /\ buffered' \subseteq buffered
           /\ buffered' \cup stored' \subseteq buffered \cup stored
BY DEF BatchSent

------------------------------------------------------------------------------
(* Types *)

\* Every step keeps the types and does not count a point too many.
LEMMA TypesKept ==
    ASSUME PrimaryAssumption, TypeOK, PointLeft, [Next]_vars
    PROVE  TypeOK' /\ PointLeft'
<1> USE DEF TypeOK, PointLeft
<1>1. ASSUME NEW t \in Savers, Saving(t)
      PROVE  TypeOK' /\ PointLeft'
  <2>1. CASE MessageArrives(t)
    <3>1. PICK path \in Paths, source \in Sources :
            saver' = [saver EXCEPT ![t] = Entry(path, source)]
      BY <2>1 DEF MessageArrives
    <3>2. Entry(path, source) \in Entries /\ Entry(path, source).left >= 1
      BY NewEntry
    <3>3. saver' \in [Savers -> Entries \cup {NoEntry}] /\ PointLeft'
      BY <3>1, <3>2
    <3>4. QED
      BY <2>1, <3>3 DEF MessageArrives, store, ghosts
  <2>2. CASE FieldDropped(t)
    <3>1. saver[t] \in Entries /\ saver[t].left >= 1
      BY <2>2, ActiveEntry DEF FieldDropped, Active
    <3>2. QED
      BY <2>2, <3>1, CountedEntry DEF FieldDropped, store, ghosts
  <2>3. CASE LookupNone(t)
    <3>1. saver[t] \in Entries /\ saver[t].left >= 1
      BY <2>3, ActiveEntry DEF LookupNone, Looks, Active
    <3>2. /\ [saver[t] EXCEPT !.pc = "grant"] \in Entries
          /\ [saver[t] EXCEPT !.pc = "grant"].left >= 1
      BY <3>1 DEF Entries
    <3>3. QED
      BY <2>3, <3>2 DEF LookupNone, Looks, store, ghosts, SomebodyDecides
  <2>4. CASE LookupSame(t)
    <3>1. saver[t] \in Entries /\ saver[t].left >= 1
      BY <2>4, ActiveEntry DEF LookupSame, Looks, Active
    <3>2. saver[t].path \in Paths /\ saver[t].source \in Sources
      BY <3>1 DEF Entries
    <3>3. QED
      BY <2>4, <3>1, <3>2, AnsweredEntry DEF LookupSame, Looks, store, ghosts
  <2>5. CASE LookupOther(t)
    <3>1. saver[t] \in Entries /\ saver[t].left >= 1
      BY <2>5, ActiveEntry DEF LookupOther, Looks, Active
    <3>2. QED
      BY <2>5, <3>1, AnsweredEntry DEF LookupOther, Looks, store, ghosts
  <2>6. CASE Grant(t)
    <3>1. saver[t] \in Entries /\ saver[t].left >= 1
      BY <2>6, ActiveEntry DEF Grant, Deciding, Active
    <3>2. saver[t].path \in Paths /\ saver[t].source \in Sources
      BY <3>1 DEF Entries
    <3>3. QED
      BY <2>6, <3>1, <3>2, AnsweredEntry DEF Grant, store, ghosts
  <2>7. CASE Write(t)
    <3>1. saver[t] \in Entries /\ saver[t].left >= 1
      BY <2>7, ActiveEntry DEF Write, Active
    <3>2. QED
      BY <2>7, <3>1, CountedEntry DEF Write, Selected, store, ghosts
  <2>8. CASE NextEntry(t)
    <3>1. PICK path \in Paths, source \in Sources :
            saver' = [saver EXCEPT ![t] = Entry(path, source)]
      BY <2>8 DEF NextEntry
    <3>2. Entry(path, source) \in Entries /\ Entry(path, source).left >= 1
      BY NewEntry
    <3>3. saver' \in [Savers -> Entries \cup {NoEntry}] /\ PointLeft'
      BY <3>1, <3>2
    <3>4. QED
      BY <2>8, <3>3 DEF NextEntry, store, ghosts
  <2>9. CASE Flush(t) \/ Abandons(t)
    BY <2>9 DEF Flush, Abandons, BatchSent, NoEntry, store, ghosts
  <2>10. QED
    BY <1>1, <2>1, <2>2, <2>3, <2>4, <2>5, <2>6, <2>7, <2>8, <2>9 DEF Saving
<1>2. ASSUME NEW l \in Loaders, LoadPrimary(l)
      PROVE  TypeOK' /\ PointLeft'
  <2>1. CASE SetUpFindsNothing(l)
    BY <2>1 DEF SetUpFindsNothing, SomebodyDecides, store, ghosts
  <2>2. CASE Clear(l)
    BY <2>2 DEF Clear, EmptyMap, store, ghosts
  <2>3. CASE Query(l)
    BY <2>3 DEF Query, store, ghosts
  <2>4. CASE QueryFails(l)
    BY <2>4 DEF QueryFails, Idle, store, ghosts
  <2>5. CASE Fill(l)
    BY <2>5 DEF Fill, Points, PrimaryAssumption, store, ghosts
  <2>6. CASE LoadDone(l)
    BY <2>6 DEF LoadDone, Idle, store, ghosts
  <2>7. CASE QueryAnswersNothing(l)
    <3>1. missed' \in BOOLEAN
      BY <2>7, Zenon DEF QueryAnswersNothing
    <3>2. QED
      BY <2>7, <3>1 DEF QueryAnswersNothing, Idle, store
  <2>8. QED
    BY <1>2, <2>1, <2>2, <2>3, <2>4, <2>5, <2>6, <2>7 DEF LoadPrimary
<1>3. CASE TimerFlushes
  BY <1>3 DEF TimerFlushes, BatchSent, ghosts
<1>4. CASE Restart
  BY <1>4 DEF Restart, EmptyMap, Idle, NoEntry
<1>5. CASE UNCHANGED vars
  BY <1>5 DEF vars, store, ghosts
<1>6. QED
  BY <1>1, <1>2, <1>3, <1>4, <1>5 DEF Next

------------------------------------------------------------------------------
(* What a step of a saving thread leaves alone *)

\* Only threads of a program that is up save, and saving does not end it.
LEMMA SavingIsUp ==
    ASSUME NothingBeforeSetUp, NEW t \in Savers, Saving(t)
    PROVE  up /\ up' = up /\ loader' = loader
BY DEF NothingBeforeSetUp, Active, Deciding, Saving, MessageArrives, FieldDropped, Looks,
       LookupNone, LookupSame, LookupOther, Grant, Write, NextEntry, Flush, Abandons

\* The other threads keep their entries, no answer is taken back, nothing stored is
\* lost.
LEMMA SavingFrame ==
    ASSUME TypeOK, NEW t \in Savers, Saving(t)
    PROVE  /\ \A u \in Savers \ {t} : saver'[u] = saver[u]
           /\ \A p \in Paths : granted[p] \subseteq granted'[p]
           /\ stored \subseteq stored'
<1>1. \A u \in Savers \ {t} : saver'[u] = saver[u]
  BY DEF TypeOK, Saving, MessageArrives, FieldDropped, Looks, LookupNone, LookupSame,
         LookupOther, Grant, Write, NextEntry, Flush, Abandons
<1>2. granted' = granted
      \/ granted' = [granted EXCEPT ![saver[t].path] = @ \cup {saver[t].source}]
  BY DEF Saving, MessageArrives, FieldDropped, Looks, LookupNone, LookupSame,
         LookupOther, Grant, Write, NextEntry, Flush, Abandons, ghosts
<1>3. stored \subseteq stored'
  BY BatchAddsNothing
     DEF Saving, MessageArrives, FieldDropped, Looks, LookupNone, LookupSame,
         LookupOther, Grant, Write, NextEntry, Flush, Abandons, store
<1>4. QED
  BY <1>1, <1>2, <1>3 DEF TypeOK

------------------------------------------------------------------------------
(* What holds whatever overlaps *)

\* Answers stay founded for a thread that makes no step.
LEMMA AnswersStayFounded ==
    ASSUME TypeOK, NEW t \in Savers, AnswersFounded(t), saver'[t] = saver[t],
           \A p \in Paths : granted[p] \subseteq granted'[p], stored \subseteq stored'
    PROVE  AnswersFounded(t)'
<1>1. SUFFICES ASSUME Active(t) PROVE AnswersFounded(t)'
  BY DEF AnswersFounded, Active
<1>2. saver[t].path \in Paths
  BY <1>1, ActiveEntry DEF Entries
<1>3. QED
  BY <1>1, <1>2 DEF AnswersFounded, Active

\* The answer of each step of saving is founded.
LEMMA OwnAnswersFounded ==
    ASSUME PrimaryAssumption, TypeOK, PointLeft, MapIsFounded,
           NEW t \in Savers, AnswersFounded(t), Saving(t)
    PROVE  AnswersFounded(t)'
<1> DEFINE e == saver[t]
<1>1. Active(t) => e \in Entries /\ e.path \in Paths /\ e.source \in Sources
  BY ActiveEntry DEF Entries
<1>2. CASE MessageArrives(t) \/ NextEntry(t)
  <2>1. PICK path \in Paths, source \in Sources : saver'[t] = Entry(path, source)
    BY <1>2 DEF MessageArrives, NextEntry, TypeOK
  <2>2. /\ Entry(path, source).pc = "field" /\ Entry(path, source).told = FALSE
        /\ Entry(path, source).tags = {}
    BY DEF Entry
  <2>3. QED
    BY <2>1, <2>2 DEF AnswersFounded, Active
<1>3. CASE FieldDropped(t) \/ Write(t)
  <2>1. /\ saver'[t] = PointDone(e) /\ e.left >= 1 /\ Active(t)
        /\ granted' = granted /\ stored' = stored
    BY <1>3 DEF FieldDropped, Write, Active, PointLeft, TypeOK, store, ghosts
  <2>2. /\ saver'[t].pc # "write" /\ saver'[t].told = FALSE
        /\ saver'[t].path = e.path /\ saver'[t].source = e.source /\ saver'[t].tags = e.tags
    BY <1>1, <2>1, CountedEntry
  <2>3. QED
    BY <2>1, <2>2 DEF AnswersFounded, Active
<1>4. CASE LookupNone(t)
  <2>1. /\ saver'[t] = [e EXCEPT !.pc = "grant"] /\ Active(t)
        /\ granted' = granted /\ stored' = stored
    BY <1>4 DEF LookupNone, Looks, Active, TypeOK, store
  <2>2. /\ saver'[t].pc = "grant" /\ saver'[t].told = e.told
        /\ saver'[t].path = e.path /\ saver'[t].source = e.source /\ saver'[t].tags = e.tags
    BY <1>1, <2>1 DEF Entries
  <2>3. QED
    BY <2>1, <2>2 DEF AnswersFounded, Active
<1>5. CASE LookupSame(t) \/ Grant(t)
  <2>1. /\ saver'[t] = Answered(e, TRUE) /\ Active(t)
        /\ granted' = [granted EXCEPT ![e.path] = @ \cup {e.source}]
    BY <1>5 DEF LookupSame, Looks, Grant, Deciding, Active, TypeOK
  <2>2. /\ saver'[t].told = TRUE /\ saver'[t].path = e.path /\ saver'[t].source = e.source
    BY <1>1, <2>1, AnsweredEntry
  <2>3. e.source \in granted'[e.path]
    BY <1>1, <2>1 DEF TypeOK
  <2>4. QED
    BY <2>1, <2>2, <2>3 DEF AnswersFounded, Active
<1>6. CASE LookupOther(t)
  <2>1. /\ saver'[t] = Answered(e, FALSE) /\ Active(t)
        /\ granted' = granted /\ stored' = stored
        /\ primaryMap[e.path] \notin {NoSource, e.source}
    BY <1>6 DEF LookupOther, Looks, Active, TypeOK, store, ghosts
  <2>2. /\ saver'[t].told = FALSE /\ saver'[t].tags = e.tags \cup {FALSE}
        /\ saver'[t].path = e.path /\ saver'[t].source = e.source
    BY <1>1, <2>1, AnsweredEntry
  <2>3. primaryMap[e.path] \in Sources \ {e.source}
    BY <1>1, <2>1 DEF TypeOK
  <2>4. primaryMap[e.path] \in granted[e.path] \/ <<e.path, primaryMap[e.path]>> \in stored
    BY <1>1, <2>1 DEF MapIsFounded
  <2>5. TRUE \in saver'[t].tags => e.source \in granted[e.path]
    BY <2>1, <2>2 DEF AnswersFounded
  <2>6. QED
    BY <2>1, <2>2, <2>3, <2>4, <2>5 DEF AnswersFounded
<1>7. CASE Flush(t) \/ Abandons(t)
  BY <1>7 DEF Flush, Abandons, NoEntry, TypeOK, AnswersFounded, Active
<1>8. QED
  BY <1>2, <1>3, <1>4, <1>5, <1>6, <1>7 DEF Saving

\* Every step keeps the first half of the invariant.
LEMMA AlwaysKept ==
    ASSUME PrimaryAssumption, Always, [Next]_vars
    PROVE  Always'
<1> USE DEF Always
<1>1. TypeOK' /\ PointLeft'
  BY TypesKept
<1>2. ASSUME NEW t \in Savers, Saving(t)
      PROVE  Always'
  <2>1. NothingBeforeSetUp'
    BY <1>2, SavingIsUp DEF NothingBeforeSetUp
  <2>2. RowsAreStored'
    BY <1>2, SavingIsUp, SavingFrame DEF RowsAreStored
  <2>3. AllAnswersFounded'
    <3>1. ASSUME NEW u \in Savers \ {t} PROVE AnswersFounded(u)'
      BY <1>2, SavingFrame, AnswersStayFounded DEF AllAnswersFounded
    <3>2. QED
      BY <1>2, <3>1, OwnAnswersFounded DEF AllAnswersFounded
  <2>4. MapIsFounded'
    <3>1. CASE Grant(t)
      <4>1. /\ primaryMap' = [primaryMap EXCEPT ![saver[t].path] = saver[t].source]
            /\ granted' = [granted EXCEPT ![saver[t].path] = @ \cup {saver[t].source}]
            /\ stored' = stored /\ Active(t)
        BY <3>1 DEF Grant, Deciding, Active, store
      <4>2. saver[t].path \in Paths /\ saver[t].source \in Sources
        BY <4>1, ActiveEntry DEF Entries
      <4>3. QED
        BY <4>1, <4>2 DEF MapIsFounded, TypeOK
    <3>2. CASE ~Grant(t)
      <4>1. primaryMap' = primaryMap
        BY <1>2, <3>2 DEF Saving, MessageArrives, FieldDropped, Looks, LookupNone,
              LookupSame, LookupOther, Write, NextEntry, Flush, Abandons
      <4>2. QED
        BY <1>2, <4>1, SavingFrame DEF MapIsFounded
    <3>3. QED
      BY <3>1, <3>2
  <2>5. QED
    BY <1>1, <2>1, <2>2, <2>3, <2>4
<1>3. ASSUME NEW l \in Loaders, LoadPrimary(l)
      PROVE  Always'
  <2>1. /\ saver' = saver /\ granted' = granted /\ stored' = stored /\ buffered' = buffered
        /\ up' \in {up, TRUE}
    BY <1>3 DEF LoadPrimary, SetUpFindsNothing, Clear, Query, QueryFails,
                QueryAnswersNothing, Fill, LoadDone, store, ghosts
  <2>2. NothingBeforeSetUp'
    BY <2>1 DEF NothingBeforeSetUp, Active, TypeOK
  <2>3. RowsAreStored'
    BY <1>3, <2>1 DEF LoadPrimary, SetUpFindsNothing, Clear, Query, QueryFails,
                      QueryAnswersNothing, Fill, LoadDone, RowsAreStored, TypeOK, Idle
  <2>4. AllAnswersFounded'
    BY <2>1, AnswersStayFounded DEF AllAnswersFounded
  <2>5. MapIsFounded'
    <3>1. CASE Fill(l)
      <4>1. PICK row \in loader[l].rows : primaryMap' = [primaryMap EXCEPT ![row[1]] = row[2]]
        BY <3>1 DEF Fill
      <4>2. row \in stored /\ row = <<row[1], row[2]>>
        BY <4>1 DEF RowsAreStored, TypeOK, Points
      <4>3. QED
        BY <2>1, <4>1, <4>2 DEF MapIsFounded, TypeOK
    <3>2. CASE Clear(l)
      BY <3>2 DEF Clear, MapIsFounded, EmptyMap
    <3>3. CASE ~Fill(l) /\ ~Clear(l)
      BY <1>3, <2>1, <3>3 DEF LoadPrimary, SetUpFindsNothing, Query, QueryFails,
                              QueryAnswersNothing, LoadDone, MapIsFounded
    <3>4. QED
      BY <3>1, <3>2, <3>3
  <2>6. QED
    BY <1>1, <2>2, <2>3, <2>4, <2>5
<1>4. CASE TimerFlushes
  <2>1. /\ saver' = saver /\ granted' = granted /\ stored \subseteq stored'
        /\ buffered' \subseteq buffered /\ up' = up /\ loader' = loader
        /\ primaryMap' = primaryMap
    BY <1>4, BatchAddsNothing DEF TimerFlushes, ghosts
  <2>2. AllAnswersFounded'
    BY <2>1, AnswersStayFounded DEF AllAnswersFounded
  <2>3. QED
    BY <1>1, <2>1, <2>2 DEF NothingBeforeSetUp, RowsAreStored, MapIsFounded, Active
<1>5. CASE Restart
  BY <1>1, <1>5 DEF Restart, EmptyMap, Idle, NoEntry, NothingBeforeSetUp, RowsAreStored,
                    AllAnswersFounded, AnswersFounded, MapIsFounded, Active
<1>6. CASE UNCHANGED vars
  BY <1>1, <1>6 DEF vars, store, ghosts, NothingBeforeSetUp, RowsAreStored,
                    AllAnswersFounded, AnswersFounded, MapIsFounded, Active
<1>7. QED
  BY <1>1, <1>2, <1>3, <1>4, <1>5, <1>6 DEF Next

------------------------------------------------------------------------------
(* What holds while no two sections have overlapped and no load has missed anything *)

\* A section that has overlapped another is never forgotten, nor is a load that got no
\* answer.
LEMMA MishapsRemembered ==
    ASSUME TypeOK, [Next]_vars, ~overlapped', ~missed'
    PROVE  ~overlapped /\ ~missed
BY DEF TypeOK, Next, Saving, LoadPrimary, MessageArrives, FieldDropped, Looks, LookupNone,
       LookupSame, LookupOther, Grant, Write, NextEntry, Flush, Abandons, TimerFlushes, Restart,
       SetUpFindsNothing, Clear, Query, QueryFails, QueryAnswersNothing, Fill, LoadDone,
       vars, ghosts

\* While the program is up, a map that agrees with the points makes them unique.
LEMMA MappedIsUnique ==
    ASSUME up, PointsAreMapped
    PROVE  OneSourceStored
BY DEF PointsAreMapped, OneSourceStored

\* A thread that saves and is not in a section after the step.
LEMMA AnsweringKeepsApart ==
    ASSUME PrimaryAssumption, Always, WhileApart,
           NEW t \in Savers, Saving(t), ~LookupNone(t), ~Grant(t)
    PROVE  WhileApart'
<1> DEFINE e == saver[t]
<1> USE DEF Always, WhileApart
<1>1. /\ up /\ up' = up /\ loader' = loader /\ primaryMap' = primaryMap
      /\ \A u \in Savers \ {t} : saver'[u] = saver[u]
  BY SavingIsUp, SavingFrame
     DEF Saving, MessageArrives, FieldDropped, Looks, LookupSame, LookupOther, Write,
         NextEntry, Flush, Abandons
<1>2. Active(t) => e \in Entries /\ e.path \in Paths /\ e.source \in Sources
  BY ActiveEntry DEF Entries
<1>3. ~Deciding(t)' /\ Standing(t)' /\ GrantedIsMapped'
  <2>1. CASE MessageArrives(t) \/ NextEntry(t)
    <3>1. PICK path \in Paths, source \in Sources : saver'[t] = Entry(path, source)
      BY <2>1 DEF MessageArrives, NextEntry, TypeOK
    <3>2. Entry(path, source).pc = "field" /\ Entry(path, source).tags = {}
      BY DEF Entry
    <3>3. QED
      BY <1>1, <2>1, <3>1, <3>2
         DEF MessageArrives, NextEntry, Standing, Deciding, Active, GrantedIsMapped, ghosts
  <2>2. CASE FieldDropped(t) \/ Write(t)
    <3>1. saver'[t] = PointDone(e) /\ e.left >= 1 /\ Active(t) /\ granted' = granted
      BY <2>2 DEF FieldDropped, Write, Active, PointLeft, TypeOK, ghosts
    <3>2. /\ saver'[t].pc # "grant" /\ saver'[t].path = e.path
          /\ saver'[t].source = e.source /\ saver'[t].tags = e.tags
      BY <1>2, <3>1, CountedEntry
    <3>3. QED
      BY <1>1, <3>1, <3>2 DEF AllStanding, Standing, Deciding, Active, GrantedIsMapped
  <2>3. CASE LookupSame(t)
    <3>1. /\ saver'[t] = Answered(e, TRUE) /\ Active(t) /\ primaryMap[e.path] = e.source
          /\ granted' = [granted EXCEPT ![e.path] = @ \cup {e.source}]
      BY <2>3 DEF LookupSame, Looks, Active, TypeOK
    <3>2. /\ saver'[t].pc = "write" /\ saver'[t].path = e.path
          /\ saver'[t].source = e.source /\ saver'[t].tags = e.tags \cup {TRUE}
      BY <1>2, <3>1 DEF Answered, Entries
    <3>3. Standing(t)' /\ ~Deciding(t)'
      BY <1>1, <3>1, <3>2 DEF AllStanding, Standing, Deciding, Active
    <3>4. GrantedIsMapped'
      BY <1>1, <1>2, <3>1 DEF GrantedIsMapped, TypeOK
    <3>5. QED
      BY <3>3, <3>4
  <2>4. CASE LookupOther(t)
    <3>1. /\ saver'[t] = Answered(e, FALSE) /\ Active(t)
          /\ primaryMap[e.path] \notin {NoSource, e.source} /\ granted' = granted
      BY <2>4 DEF LookupOther, Looks, Active, TypeOK, ghosts
    <3>2. /\ saver'[t].pc = "write" /\ saver'[t].path = e.path /\ saver'[t].source = e.source
      BY <1>2, <3>1, AnsweredEntry
    <3>3. QED
      BY <1>1, <3>1, <3>2 DEF Standing, Deciding, GrantedIsMapped
  <2>5. CASE Flush(t) \/ Abandons(t)
    <3>1. saver'[t].pc = "idle" /\ granted' = granted
      BY <2>5 DEF Flush, Abandons, NoEntry, TypeOK, ghosts
    <3>2. QED
      BY <1>1, <3>1 DEF Standing, Deciding, Active, GrantedIsMapped
  <2>6. QED
    BY <2>1, <2>2, <2>3, <2>4, <2>5 DEF Saving
<1>4. OneInSection'
  BY <1>1, <1>3 DEF OneInSection, Deciding, Loading
<1>5. AllStanding'
  BY <1>1, <1>3 DEF AllStanding, Standing, Deciding, Active
<1>6. StillEmpty'
  BY <1>1 DEF StillEmpty, EmptyMap
<1>7. PointsAreMapped'
  <2>1. CASE Write(t)
    <3>1. /\ buffered' = buffered \cup Selected(e) /\ stored' = stored /\ Active(t)
      BY <2>1 DEF Write, Active
    <3>2. ASSUME NEW point \in Selected(e)
          PROVE  primaryMap[point[1]] = point[2]
      <4>1. e.told /\ point = <<e.path, e.source>>
        BY DEF Selected
      <4>2. e.source \in granted[e.path]
        BY <3>1, <4>1 DEF AllAnswersFounded, AnswersFounded
      <4>3. QED
        BY <1>2, <3>1, <4>1, <4>2 DEF GrantedIsMapped
    <3>3. QED
      BY <1>1, <3>1, <3>2 DEF PointsAreMapped
  <2>2. CASE ~Write(t)
    <3>1. buffered' \cup stored' \subseteq buffered \cup stored
      BY <2>2, BatchAddsNothing
         DEF Saving, MessageArrives, FieldDropped, Looks, LookupSame, LookupOther,
             NextEntry, Flush, Abandons, store
    <3>2. QED
      BY <1>1, <3>1 DEF PointsAreMapped
  <2>3. QED
    BY <2>1, <2>2
<1>8. LoadIsComplete'
  BY <1>1 DEF LoadIsComplete
<1>9. OneSourceStored'
  BY <1>1, <1>7, MappedIsUnique DEF PointsAreMapped, OneSourceStored
<1>10. QED
  BY <1>3, <1>4, <1>5, <1>6, <1>7, <1>8, <1>9

\* A thread that enters isPrimary's section.
LEMMA EnteringKeepsApart ==
    ASSUME Always, WhileApart, NEW t \in Savers, LookupNone(t), ~overlapped'
    PROVE  WhileApart'
<1> DEFINE e == saver[t]
<1> USE DEF Always, WhileApart
<1>1. /\ primaryMap' = primaryMap /\ loader' = loader /\ up' = up /\ granted' = granted
      /\ buffered' = buffered /\ stored' = stored /\ ~SomebodyDecides
      /\ e.pc = "field" /\ saver' = [saver EXCEPT ![t] = [e EXCEPT !.pc = "grant"]]
      /\ primaryMap[e.path] = NoSource
  BY DEF LookupNone, Looks, store, TypeOK
<1>2. e \in Entries
  BY <1>1, ActiveEntry DEF Active
<1>3. /\ saver'[t].pc = "grant" /\ saver'[t].path = e.path
      /\ saver'[t].source = e.source /\ saver'[t].tags = e.tags
      /\ \A u \in Savers \ {t} : saver'[u] = saver[u]
  BY <1>1, <1>2 DEF Entries, TypeOK
<1>4. OneInSection'
  BY <1>1, <1>3 DEF OneInSection, SomebodyDecides, Deciding, Loading
<1>5. AllStanding'
  BY <1>1, <1>3 DEF AllStanding, Standing, Deciding, Active
<1>6. StillEmpty' /\ GrantedIsMapped'
  BY <1>1 DEF StillEmpty, EmptyMap, GrantedIsMapped
<1>7. PointsAreMapped' /\ LoadIsComplete' /\ OneSourceStored'
  BY <1>1 DEF PointsAreMapped, LoadIsComplete, OneSourceStored
<1>8. QED
  BY <1>4, <1>5, <1>6, <1>7

\* setPrimary puts a source where there still is none.
LEMMA GrantKeepsApart ==
    ASSUME PrimaryAssumption, Always, WhileApart, NEW t \in Savers, Grant(t)
    PROVE  WhileApart'
<1> DEFINE e == saver[t]
<1> USE DEF Always, WhileApart
<1>1. /\ e \in Entries /\ e.path \in Paths /\ e.source \in Sources
      /\ e.source # NoSource
  BY ActiveEntry DEF Grant, Deciding, Active, Entries, PrimaryAssumption
<1>2. /\ primaryMap' = [primaryMap EXCEPT ![e.path] = e.source]
      /\ granted' = [granted EXCEPT ![e.path] = @ \cup {e.source}]
      /\ saver' = [saver EXCEPT ![t] = Answered(e, TRUE)]
      /\ loader' = loader /\ up' = up /\ buffered' = buffered /\ stored' = stored
      /\ Deciding(t) /\ up
  BY SavingIsUp DEF Saving, Grant, store
<1>3. /\ saver'[t].pc = "write" /\ saver'[t].path = e.path
      /\ saver'[t].source = e.source /\ saver'[t].tags = e.tags \cup {TRUE}
      /\ \A u \in Savers \ {t} : saver'[u] = saver[u]
  BY <1>1, <1>2 DEF Answered, Entries, TypeOK
<1>4. primaryMap[e.path] = NoSource /\ granted[e.path] = {}
  <2>1. primaryMap[e.path] = NoSource
    BY <1>2 DEF AllStanding, Standing
  <2>2. granted[e.path] \subseteq Sources
    BY <1>1 DEF TypeOK
  <2>3. QED
    BY <1>1, <2>1, <2>2 DEF GrantedIsMapped, PrimaryAssumption
<1>5. \A p \in Paths : primaryMap[p] # NoSource => primaryMap'[p] = primaryMap[p]
  BY <1>1, <1>2, <1>4 DEF TypeOK
<1>6. OneInSection'
  BY <1>2, <1>3 DEF OneInSection, Deciding, Loading
<1>7. AllStanding'
  <2>1. ASSUME NEW u \in Savers \ {t} PROVE Standing(u)'
    <3>1. ~Deciding(u)
      BY <1>2 DEF OneInSection
    <3>2. Active(u) => saver[u].path \in Paths
      BY ActiveEntry DEF Entries
    <3>3. QED
      BY <1>3, <1>5, <3>1, <3>2 DEF AllStanding, Standing, Deciding, Active
  <2>2. FALSE \notin e.tags
    BY <1>2, <1>4 DEF AllStanding, Standing, Active, Deciding
  <2>3. Standing(t)'
    BY <1>3, <2>2 DEF Standing, Deciding
  <2>4. QED
    BY <2>1, <2>3 DEF AllStanding
<1>8. StillEmpty'
  BY <1>2 DEF StillEmpty, OneInSection, Loading
<1>9. GrantedIsMapped'
  BY <1>1, <1>2, <1>4 DEF GrantedIsMapped, TypeOK
<1>10. PointsAreMapped'
  <2>1. \A point \in buffered \cup stored : point[1] \in Paths /\ point[2] \in Sources
    BY DEF TypeOK, Points, PrimaryAssumption
  <2>2. QED
    BY <1>2, <1>5, <2>1 DEF PointsAreMapped, PrimaryAssumption
<1>11. LoadIsComplete' /\ OneSourceStored'
  BY <1>2 DEF LoadIsComplete, OneSourceStored
<1>12. QED
  BY <1>6, <1>7, <1>8, <1>9, <1>10, <1>11

\* A thread that loads.  While the program is up it finds no point to load.
LEMMA LoadingKeepsApart ==
    ASSUME PrimaryAssumption, Always, WhileApart, NEW l \in Loaders, LoadPrimary(l),
           ~overlapped', ~missed'
    PROVE  WhileApart'
<1> USE DEF Always, WhileApart
<1>1. /\ saver' = saver /\ granted' = granted /\ stored' = stored /\ buffered' = buffered
      /\ \A m \in Loaders \ {l} : loader'[m] = loader[m]
  BY DEF LoadPrimary, SetUpFindsNothing, Clear, Query, QueryFails, QueryAnswersNothing, Fill,
         LoadDone, store, ghosts, TypeOK
<1>2. OneInSection'
  <2>1. CASE SetUpFindsNothing(l)
    BY <1>1, <2>1 DEF SetUpFindsNothing, OneInSection, SomebodyDecides, Deciding, Loading
  <2>2. CASE ~SetUpFindsNothing(l)
    <3>1. Loading(l)
      BY <2>2 DEF LoadPrimary, Clear, Query, QueryFails, QueryAnswersNothing, Fill, LoadDone,
                   Loading
    <3>2. QED
      BY <1>1, <3>1 DEF OneInSection, Deciding, Loading
  <2>3. QED
    BY <2>1, <2>2
<1>3. OneSourceStored'
  BY <1>1 DEF OneSourceStored
<1>4. ASSUME up, EmptyMap = primaryMap
      PROVE  buffered = {} /\ stored = {}
  BY <1>4 DEF PointsAreMapped, TypeOK, Points, EmptyMap, PrimaryAssumption
<1>5. CASE SetUpFindsNothing(l) \/ Clear(l)
  <2>1. /\ primaryMap = EmptyMap /\ primaryMap' = EmptyMap /\ up' = up
        /\ loader'[l].pc \in {"clear", "query"}
    BY <1>5 DEF SetUpFindsNothing, Clear, StillEmpty, TypeOK
  <2>2. AllStanding' /\ GrantedIsMapped' /\ PointsAreMapped' /\ StillEmpty'
    BY <1>1, <2>1 DEF AllStanding, Standing, Deciding, Active, GrantedIsMapped,
                      PointsAreMapped, StillEmpty, EmptyMap
  <2>3. LoadIsComplete'
    BY <1>1, <2>1 DEF LoadIsComplete
  <2>4. QED
    BY <1>2, <1>3, <2>2, <2>3
<1>6. CASE Query(l) \/ QueryFails(l)
  <2>1. /\ primaryMap = EmptyMap /\ primaryMap' = primaryMap /\ up' = up
        /\ loader'[l].pc \in {"fill", "idle"}
        /\ loader'[l].pc = "fill" => loader'[l].rows = stored
    BY <1>6 DEF Query, QueryFails, QueryAnswersNothing, Idle, StillEmpty, TypeOK
  <2>2. AllStanding' /\ GrantedIsMapped' /\ PointsAreMapped' /\ StillEmpty'
    BY <1>1, <2>1 DEF AllStanding, Standing, Deciding, Active, GrantedIsMapped,
                      PointsAreMapped, StillEmpty, EmptyMap
  <2>3. LoadIsComplete'
    BY <1>1, <1>4, <2>1 DEF LoadIsComplete
  <2>4. QED
    BY <1>2, <1>3, <2>2, <2>3
<1>7. CASE Fill(l)
  <2>1. PICK row \in loader[l].rows :
          /\ primaryMap' = [primaryMap EXCEPT ![row[1]] = row[2]]
          /\ loader' = [loader EXCEPT ![l].rows = @ \ {row}]
    BY <1>7 DEF Fill
  <2>2. loader[l].pc = "fill" /\ up' = up
    BY <1>7 DEF Fill
  <2>3. ~up
    BY <2>1, <2>2 DEF LoadIsComplete
  <2>4. AllStanding' /\ GrantedIsMapped' /\ PointsAreMapped'
    BY <1>1, <2>2, <2>3 DEF AllStanding, Standing, Deciding, GrantedIsMapped, PointsAreMapped,
                            NothingBeforeSetUp, Active
  <2>5. StillEmpty'
    BY <1>1, <2>1, <2>2 DEF StillEmpty, OneInSection, Loading, TypeOK
  <2>6. LoadIsComplete'
    <3>1. row \in stored /\ row[1] \in Paths
      BY <2>1 DEF RowsAreStored, TypeOK, Points, PrimaryAssumption
    <3>2. ASSUME NEW point \in stored
          PROVE  primaryMap'[point[1]] = point[2] \/ point \in loader'[l].rows
      <4>1. primaryMap[point[1]] = point[2] \/ point \in loader[l].rows
        BY <2>2, <2>3 DEF LoadIsComplete
      <4>2. CASE point[1] = row[1]
        BY <2>1, <3>1, <4>2 DEF OneSourceStored, TypeOK
      <4>3. CASE point[1] # row[1]
        BY <2>1, <3>1, <4>1, <4>3 DEF TypeOK
      <4>4. QED
        BY <4>2, <4>3
    <3>3. \A m \in Loaders : loader'[m].pc = "fill" => m = l
      BY <1>1, <2>2 DEF OneInSection, Loading
    <3>4. QED
      BY <1>1, <2>2, <2>3, <3>2, <3>3 DEF LoadIsComplete
  <2>7. QED
    BY <1>2, <1>3, <2>4, <2>5, <2>6
<1>8. CASE LoadDone(l)
  <2>1. /\ primaryMap' = primaryMap /\ up' = TRUE /\ loader'[l].pc = "idle"
        /\ loader[l].pc = "fill" /\ loader[l].rows = {}
    BY <1>8 DEF LoadDone, Idle, TypeOK
  <2>2. AllStanding' /\ GrantedIsMapped' /\ StillEmpty'
    BY <1>1, <2>1 DEF AllStanding, Standing, Deciding, Active, GrantedIsMapped, StillEmpty,
                      EmptyMap
  <2>3. PointsAreMapped'
    BY <1>1, <2>1 DEF PointsAreMapped, LoadIsComplete, NothingBeforeSetUp
  <2>4. LoadIsComplete'
    BY <1>1, <2>1 DEF LoadIsComplete, OneInSection, Loading
  <2>5. QED
    BY <1>2, <1>3, <2>2, <2>3, <2>4
<1>9. CASE QueryAnswersNothing(l)
  <2>1. /\ primaryMap = EmptyMap /\ primaryMap' = primaryMap /\ up' = TRUE
        /\ loader[l].pc = "query" /\ loader'[l].pc = "idle" /\ stored = {}
    BY <1>9 DEF QueryAnswersNothing, Idle, StillEmpty, TypeOK
  <2>2. buffered = {}
    BY <1>4, <2>1 DEF NothingBeforeSetUp
  <2>3. AllStanding' /\ GrantedIsMapped' /\ StillEmpty'
    BY <1>1, <2>1 DEF AllStanding, Standing, Deciding, Active, GrantedIsMapped, StillEmpty,
                      EmptyMap
  <2>4. PointsAreMapped'
    BY <1>1, <2>1, <2>2 DEF PointsAreMapped
  <2>5. LoadIsComplete'
    BY <1>1, <2>1 DEF LoadIsComplete, OneInSection, Loading
  <2>6. QED
    BY <1>2, <1>3, <2>3, <2>4, <2>5
<1>10. QED
  BY <1>5, <1>6, <1>7, <1>8, <1>9 DEF LoadPrimary

\* Every step keeps the invariant.
LEMMA PrimaryInvKept ==
    ASSUME PrimaryAssumption, PrimaryInv, [Next]_vars
    PROVE  PrimaryInv'
<1>1. Always /\ Always'
  BY AlwaysKept DEF PrimaryInv
<1>2. SUFFICES ASSUME ~overlapped', ~missed' PROVE WhileApart'
  BY <1>1 DEF PrimaryInv
<1>3. WhileApart /\ ~overlapped /\ ~missed
  BY <1>1, <1>2, MishapsRemembered DEF PrimaryInv, Always
<1>4. ASSUME NEW t \in Savers, Saving(t) PROVE WhileApart'
  BY <1>1, <1>2, <1>3, <1>4, AnsweringKeepsApart, EnteringKeepsApart, GrantKeepsApart
<1>5. ASSUME NEW l \in Loaders, LoadPrimary(l) PROVE WhileApart'
  BY <1>1, <1>2, <1>3, <1>5, LoadingKeepsApart
<1> USE DEF WhileApart, OneInSection, AllStanding, Standing, StillEmpty, GrantedIsMapped,
            PointsAreMapped, LoadIsComplete, OneSourceStored, Deciding, Loading, Active
<1>6. CASE TimerFlushes
  <2>1. /\ saver' = saver /\ granted' = granted /\ up' = up /\ loader' = loader
        /\ primaryMap' = primaryMap
        /\ buffered' \cup stored' \subseteq buffered \cup stored
        /\ ~up => stored' = stored
    BY <1>1, <1>6, BatchAddsNothing DEF TimerFlushes, ghosts, Always, NothingBeforeSetUp
  <2>2. QED
    BY <1>3, <2>1 DEF EmptyMap
<1>7. CASE Restart
  <2>1. /\ \A t \in Savers : saver'[t] = NoEntry
        /\ \A l \in Loaders : loader'[l] = Idle
        /\ \A p \in Paths : granted'[p] = {}
        /\ up' = FALSE /\ buffered' = {} /\ stored' = stored
    BY <1>7 DEF Restart
  <2>2. NoEntry.pc = "idle" /\ Idle.pc = "idle"
    BY DEF NoEntry, Idle
  <2>3. OneSourceStored'
    BY <1>3, <2>1
  <2>4. QED
    BY <2>1, <2>2, <2>3
<1>8. CASE UNCHANGED vars
  BY <1>3, <1>8 DEF vars, store, ghosts, EmptyMap
<1>9. QED
  BY <1>4, <1>5, <1>6, <1>7, <1>8 DEF Next

\* A freshly started program satisfies it.
LEMMA PrimaryInvAtStart ==
    ASSUME PrimaryAssumption, Init
    PROVE  PrimaryInv
BY DEF Init, PrimaryInv, Always, WhileApart, TypeOK, PointLeft, NothingBeforeSetUp,
       RowsAreStored, AllAnswersFounded, AnswersFounded, MapIsFounded, OneInSection,
       AllStanding, Standing, StillEmpty, GrantedIsMapped, PointsAreMapped, LoadIsComplete,
       OneSourceStored, Deciding, Loading, Active, NoEntry, Idle, EmptyMap

------------------------------------------------------------------------------
(* The theorems *)

\* Everything below follows from the invariant of saveData, isPrimary and loadPrimary.
THEOREM PrimaryInvariance == Spec => []PrimaryInv
<1>1. Init => PrimaryInv
  BY PrimaryAssumption, PrimaryInvAtStart
<1>2. PrimaryInv /\ [Next]_vars => PrimaryInv'
  BY PrimaryAssumption, PrimaryInvKept
<1>3. QED
  BY <1>1, <1>2, PTL DEF Spec

\* Everything saving keeps in memory has its type, whatever the threads do.
THEOREM PrimaryTypes == Spec => []TypeOK
<1>1. PrimaryInv => TypeOK
  BY DEF PrimaryInv, Always
<1>2. QED
  BY <1>1, PrimaryInvariance, PTL

\* As long as no two sections overlap and every load is answered, a path has one primary
\* source; where the map is loaded again this survives restarts and lost batches.
THEOREM OnePrimarySource == Spec => []SolePrimary
<1>1. PrimaryInv => SolePrimary
  <2>1. SUFFICES ASSUME Always, WhileApart
                 PROVE  /\ \A p \in Paths : \A s, u \in granted[p] : s = u
                        /\ \A p \in Reloaded, s, u \in Sources :
                             {<<p, s>>, <<p, u>>} \subseteq buffered \cup stored => s = u
    BY DEF PrimaryInv, SolePrimary
  <2>2. \A p \in Paths : \A s, u \in granted[p] : s = u
    BY <2>1 DEF WhileApart, GrantedIsMapped
  <2>3. ASSUME NEW p \in Reloaded, NEW s \in Sources, NEW u \in Sources,
               {<<p, s>>, <<p, u>>} \subseteq buffered \cup stored
        PROVE  s = u
    BY <2>1, <2>3 DEF WhileApart, OneSourceStored
  <2>4. QED
    BY <2>2, <2>3
<1>2. QED
  BY <1>1, PrimaryInvariance, PTL

\* Under the same conditions the fields of a value are of one kind.
THEOREM ValuesOfOneKind == Spec => []ValueOfOneKind
<1>1. PrimaryInv => ValueOfOneKind
  <2>1. SUFFICES ASSUME Always, WhileApart, NEW t \in Savers, Active(t), saver[t].tags = BOOLEAN
                 PROVE  FALSE
    BY DEF PrimaryInv, ValueOfOneKind, Active
  <2>2. saver[t].source \in granted[saver[t].path] /\ saver[t].path \in Paths
    BY <2>1, ActiveEntry DEF Always, AllAnswersFounded, AnswersFounded, Entries
  <2>3. primaryMap[saver[t].path] # saver[t].source
    BY <2>1 DEF WhileApart, AllStanding, Standing
  <2>4. QED
    BY <2>1, <2>2, <2>3 DEF WhileApart, GrantedIsMapped
<1>2. QED
  BY <1>1, PrimaryInvariance, PTL

\* Whatever overlaps, no path is left with secondary sources only.
THEOREM NoPathWithoutPrimary == Spec => []SecondaryHasPrimary
<1>1. PrimaryInv => SecondaryHasPrimary
  BY DEF PrimaryInv, Always, AllAnswersFounded, AnswersFounded, SecondaryHasPrimary, Active
<1>2. QED
  BY <1>1, PrimaryInvariance, PTL
=============================================================================
