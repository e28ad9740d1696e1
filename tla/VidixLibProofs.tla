--------------------------- MODULE VidixLibProofs ---------------------------
(***************************************************************************)
(* Theorems about VidixLib for any number of streams, any drivers and any  *)
(* machines.  For most of them what a probe finds is left as it is, and    *)
(* matters only in whether a driver takes a card; which one it takes is    *)
(* the subject of the last part.                                           *)
(*                                                                         *)
(* One call runs at a time, so at most one stream is between "none" and    *)
(* "open"; what is true of the others is what a finished call left.        *)
(***************************************************************************)
EXTENDS VidixLib, WellFoundedInduction, TLAPS

Busy(s) == stream[s].at \notin {"none", "open"}

\* What the steps rely on of the type invariant.
Typed ==
  /\ stream \in [Streams -> StreamRecs]
  /\ todo \in [Streams -> SUBSET Drivers]
  /\ holders \in [Drivers -> SUBSET Streams]
  /\ driver \in [Drivers -> DriverStates]

\* How far a stream is says what it has.
PathInv ==
  \A s \in Streams :
    /\ stream[s].at \in {"none", "find"} => Handle(s) = NoDriver
    /\ stream[s].at \in {"probe", "caps", "fill", "init", "open"} => Handle(s) # NoDriver
    /\ stream[s].at \in {"find", "caps"} => ~stream[s].byName
    /\ stream[s].at \in {"init", "open"} => stream[s].filled
    /\ stream[s].filled => /\ stream[s].at \in {"init", "open", "destroy", "unload"}
                           /\ Handle(s) # NoDriver
    /\ stream[s].at \in {"fill", "init", "open"} /\ ~stream[s].byName
         => stream[s].cap \subseteq Types(Kind[Handle(s)])

BusyInv == \A s, t \in Streams : Busy(s) /\ Busy(t) => s = t

\* An initialised driver that can clean up has a stream that will ask it to.
ReadyInv ==
  \A d \in Drivers : driver[d] = "ready" /\ HasDestroy[d] =>
    \E s \in Streams :
      Handle(s) = d /\ stream[s].filled /\ stream[s].at \in {"open", "destroy"}

\* The files a search has behind it would not have done.
SearchInv ==
  \A s \in Streams : stream[s].at \in {"find", "probe", "caps"} /\ ~stream[s].byName =>
    \A d \in Drivers : d \notin todo[s] /\ d # Handle(s) => ~Suits(d, stream[s].cap)

\* Streams that do not share have a driver each, and a search has the drivers to itself.
AloneInv ==
  ~Sharing =>
    /\ \A s, t \in Streams : Handle(s) = Handle(t) /\ Handle(s) # NoDriver => s = t
    /\ \A s, t \in Streams :
         stream[s].at \in {"find", "probe", "caps"} /\ ~stream[s].byName /\ s # t
           => Handle(t) = NoDriver

\* Without sharing, the drivers of open streams are ready.
OpenInv == ~Sharing => \A s \in Streams : stream[s].at = "open" => driver[Handle(s)] = "ready"

IInv == /\ Typed /\ PathInv /\ HandlesCounted /\ BusyInv /\ ReadyInv /\ SearchInv
        /\ AloneInv /\ OpenInv

USE NoDriverAssumption, DriverAssumption, SharingAssumption

----------------------------------------------------------------------------
LEMMA InitHolds == Init => IInv
  <1> SUFFICES ASSUME Init PROVE IInv
    OBVIOUS
  <1>1. NoStream \in StreamRecs
    BY DEF NoStream, StreamRecs
  <1>2. Typed
    BY <1>1 DEF Init, Typed, DriverStates
  <1>3. QED
    BY <1>2 DEF Init, IInv, PathInv, HandlesCounted, BusyInv, ReadyInv, SearchInv, AloneInv,
                OpenInv, Busy, Handle, NoStream

----------------------------------------------------------------------------
LEMMA SetType ==
  ASSUME stream \in [Streams -> StreamRecs], NEW s \in Streams, NEW r \in StreamRecs, Set(s, r)
  PROVE  stream' \in [Streams -> StreamRecs]
  BY DEF Set

LEMMA GoToType ==
  ASSUME stream \in [Streams -> StreamRecs], NEW s \in Streams,
         NEW at \in {"none", "load", "find", "probe", "caps", "fill", "init", "open",
                    "destroy", "unload"}
  PROVE  /\ stream[s] \in StreamRecs
         /\ [stream[s] EXCEPT !.at = at] \in StreamRecs
         /\ [stream[s] EXCEPT !.filled = TRUE, !.at = at] \in StreamRecs
  <1>1. stream[s] \in StreamRecs
    OBVIOUS
  <1> DEFINE t == stream[s]
  <1> HIDE DEF t
  <1>2. t \in StreamRecs => [t EXCEPT !.at = at] \in StreamRecs
    BY DEF StreamRecs
  <1>3. t \in StreamRecs => [t EXCEPT !.filled = TRUE, !.at = at] \in StreamRecs
    BY DEF StreamRecs
  <1>4. QED
    BY <1>1, <1>2, <1>3 DEF t

LEMMA HandleType ==
  ASSUME stream \in [Streams -> StreamRecs], NEW s \in Streams, NEW at \in {"find", "probe"},
         NEW h \in Drivers \cup {NoDriver}
  PROVE  [stream[s] EXCEPT !.at = at, !.handle = h] \in StreamRecs
  <1>1. stream[s] \in StreamRecs
    OBVIOUS
  <1> DEFINE t == stream[s]
  <1> HIDE DEF t
  <1>2. t \in StreamRecs => [t EXCEPT !.at = at, !.handle = h] \in StreamRecs
    BY DEF StreamRecs
  <1>3. QED
    BY <1>1, <1>2 DEF t

\* A driver is turned down; in a search, one that would not have done.
LEMMA RejectHolds ==
  ASSUME IInv, UNCHANGED <<machine, todo>>, NEW s \in Streams, Reject(s),
         stream[s].at \in {"probe", "caps"},
         ~stream[s].byName => ~Suits(Handle(s), stream[s].cap)
  PROVE  IInv'
  <1> USE DEF IInv, Handle
  <1>1. CASE stream[s].byName
    <2> DEFINE r == [stream[s] EXCEPT !.at = "destroy"]
    <2>1. r \in StreamRecs
      BY GoToType DEF Typed
    <2>2. Set(s, r) /\ UNCHANGED <<holders, driver>>
      BY <1>1 DEF Reject, GoTo
    <2> HIDE DEF r
    <2>3. Typed'
      BY <2>1, <2>2, SetType DEF Typed
    <2> USE DEF r
    <2> USE <1>1, <2>2 DEF Set
    <2>4. PathInv'
      BY DEF PathInv, Typed, StreamRecs
    <2>5. HandlesCounted'
      BY DEF HandlesCounted, Typed, StreamRecs, PathInv
    <2>6. BusyInv'
      BY DEF BusyInv, Typed, StreamRecs, Busy
    <2>7. ReadyInv'
      BY DEF ReadyInv, Typed, StreamRecs, HandlesCounted, PathInv
    <2>8. SearchInv'
      <3> SUFFICES ASSUME NEW t \in Streams, NEW e \in Drivers,
                          stream'[t].at \in {"find", "probe", "caps"}, ~stream'[t].byName,
                          e \notin todo'[t], e # stream'[t].handle
                   PROVE  ~Suits(e, stream[t].cap)'
        BY DEF SearchInv
      <3>1. CASE t = s
        <4>1. ~Suits(e, stream[s].cap)
          BY <3>1 DEF SearchInv, PathInv, Typed, StreamRecs
        <4>2. stream'[s].cap = stream[s].cap
          BY <3>1 DEF Typed, StreamRecs
        <4>3. QED
          BY <3>1, <4>1, <4>2 DEF Suits
      <3>2. CASE t # s
        BY <3>2 DEF SearchInv, BusyInv, Busy, Typed, StreamRecs, Suits
      <3>3. QED
        BY <3>1, <3>2
    <2>9. AloneInv'
      BY DEF AloneInv, Typed, StreamRecs, PathInv, HandlesCounted, Busy, BusyInv
    <2>10. OpenInv'
      BY DEF OpenInv, Typed, StreamRecs, PathInv, HandlesCounted, AloneInv
    <2>11. QED
      BY <2>3, <2>4, <2>5, <2>6, <2>7, <2>8, <2>9, <2>10
  <1>2. CASE ~stream[s].byName
    <2> DEFINE r == [stream[s] EXCEPT !.at = "find", !.handle = NoDriver]
    <2>1. r \in StreamRecs
      BY HandleType DEF Typed
    <2>2. Set(s, r) /\ DlClose(s, stream[s].handle)
      BY <1>2 DEF Reject
    <2> HIDE DEF r
    <2>3. Typed'
      <3>1. stream' \in [Streams -> StreamRecs]
        BY <2>1, <2>2, SetType DEF Typed
      <3>2. QED
        BY <2>2, <3>1 DEF Typed, DlClose, DriverStates
    <2> USE DEF r
    <2> USE <1>2, <2>2 DEF Set, DlClose
    <2>4. PathInv'
      BY DEF PathInv, Typed, StreamRecs
    <2>5. HandlesCounted'
      BY DEF HandlesCounted, Typed, StreamRecs, PathInv
    <2>6. BusyInv'
      BY DEF BusyInv, Typed, StreamRecs, Busy
    <2>7. ReadyInv'
      BY DEF ReadyInv, Typed, StreamRecs, HandlesCounted, PathInv
    <2>8. SearchInv'
      <3> SUFFICES ASSUME NEW t \in Streams, NEW e \in Drivers,
                          stream'[t].at \in {"find", "probe", "caps"}, ~stream'[t].byName,
                          e \notin todo'[t], e # stream'[t].handle
                   PROVE  ~Suits(e, stream[t].cap)'
        BY DEF SearchInv
      <3>1. CASE t = s
        <4>1. ~Suits(e, stream[s].cap)
          BY <3>1 DEF SearchInv, PathInv, Typed, StreamRecs
        <4>2. stream'[s].cap = stream[s].cap
          BY <3>1 DEF Typed, StreamRecs
        <4>3. QED
          BY <3>1, <4>1, <4>2 DEF Suits
      <3>2. CASE t # s
        BY <3>2 DEF SearchInv, BusyInv, Busy, Typed, StreamRecs, Suits
      <3>3. QED
        BY <3>1, <3>2
    <2>9. AloneInv'
      BY DEF AloneInv, Typed, StreamRecs, PathInv, HandlesCounted, Busy, BusyInv
    <2>10. OpenInv'
      BY DEF OpenInv, Typed, StreamRecs, PathInv, HandlesCounted, AloneInv
    <2>11. QED
      BY <2>3, <2>4, <2>5, <2>6, <2>7, <2>8, <2>9, <2>10
  <1>3. QED
    BY <1>1, <1>2

LEMMA FindNextHolds ==
  ASSUME IInv, UNCHANGED machine, NEW s \in Streams, NEW d \in Drivers, FindNext(s, d)
  PROVE  IInv'
  <1> USE DEF IInv, Handle
  <1>1. CASE Loads[d]
    <2> DEFINE r == [stream[s] EXCEPT !.at = "probe", !.handle = d]
    <2>1. r \in StreamRecs
      BY HandleType DEF Typed
    <2>2. /\ Set(s, r) /\ DlOpen(s, d)
          /\ stream[s].at = "find" /\ d \in todo[s]
          /\ todo' = [todo EXCEPT ![s] = @ \ {d}]
      BY <1>1 DEF FindNext
    <2> HIDE DEF r
    <2>3. Typed'
      <3>1. stream' \in [Streams -> StreamRecs]
        BY <2>1, <2>2, SetType DEF Typed
      <3>2. QED
        BY <2>2, <3>1 DEF Typed, DlOpen, DriverStates
    <2> USE DEF r
    <2> USE <1>1, <2>2 DEF Set, DlOpen
    <2>4. PathInv'
      BY DEF PathInv, Typed, StreamRecs
    <2>5. HandlesCounted'
      BY DEF HandlesCounted, Typed, StreamRecs, PathInv
    <2>6. BusyInv'
      BY DEF BusyInv, Typed, StreamRecs, Busy
    <2>7. ReadyInv'
      BY DEF ReadyInv, Typed, StreamRecs, HandlesCounted, PathInv
    <2>8. SearchInv'
      <3> SUFFICES ASSUME NEW t \in Streams, NEW e \in Drivers,
                          stream'[t].at \in {"find", "probe", "caps"}, ~stream'[t].byName,
                          e \notin todo'[t], e # stream'[t].handle
                   PROVE  ~Suits(e, stream[t].cap)'
        BY DEF SearchInv
      <3>1. CASE t = s
        <4>1. ~Suits(e, stream[s].cap)
          BY <3>1 DEF SearchInv, PathInv, Typed, StreamRecs
        <4>2. stream'[s].cap = stream[s].cap
          BY <3>1 DEF Typed, StreamRecs
        <4>3. QED
          BY <3>1, <4>1, <4>2 DEF Suits
      <3>2. CASE t # s
        BY <3>2 DEF SearchInv, BusyInv, Busy, Typed, StreamRecs, Suits
      <3>3. QED
        BY <3>1, <3>2
    <2>9. AloneInv'
      BY DEF AloneInv, Typed, StreamRecs, PathInv, HandlesCounted, Busy, BusyInv
    <2>10. OpenInv'
      BY DEF OpenInv, Typed, StreamRecs, PathInv, HandlesCounted, AloneInv
    <2>11. QED
      BY <2>3, <2>4, <2>5, <2>6, <2>7, <2>8, <2>9, <2>10
  <1>2. CASE ~Loads[d]
    <2>1. /\ UNCHANGED <<stream, holders, driver>>
          /\ stream[s].at = "find" /\ d \in todo[s]
          /\ todo' = [todo EXCEPT ![s] = @ \ {d}]
      BY <1>2 DEF FindNext
    <2>2. Typed'
      BY <2>1 DEF Typed
    <2>3. SearchInv'
      BY <1>2, <2>1 DEF SearchInv, Suits, Typed
    <2>4. QED
      BY <2>1, <2>2, <2>3 DEF PathInv, HandlesCounted, BusyInv, Busy, ReadyInv, AloneInv, OpenInv
  <1>3. QED
    BY <1>1, <1>2

LEMMA ProbeFailsHolds ==
  ASSUME IInv, UNCHANGED machine, NEW s \in Streams, ProbeFails(s)
  PROVE  IInv'
  <1>1. ~stream[s].byName => ~Suits(Handle(s), stream[s].cap)
    BY DEF IInv, Typed, StreamRecs, ProbeFails, Suits, Found, Handle
  <1>2. QED
    BY <1>1, RejectHolds DEF ProbeFails

LEMMA CapsFailHolds ==
  ASSUME IInv, UNCHANGED machine, NEW s \in Streams, CapsFail(s)
  PROVE  IInv'
  <1>1. ~stream[s].byName => ~Suits(Handle(s), stream[s].cap)
    BY DEF CapsFail, Suits
  <1>2. QED
    BY <1>1, RejectHolds DEF CapsFail

LEMMA OpenByNameHolds ==
  ASSUME IInv, UNCHANGED machine, NEW s \in Streams, NEW d \in Drivers, NEW cap \in SUBSET Caps,
         OpenByName(s, d, cap)
  PROVE  IInv'
  <1> USE DEF IInv, OpenByName, Idle, Set, DlOpen, NoStream, Handle
  <1> DEFINE r == [NoStream EXCEPT !.at = "probe", !.handle = d, !.cap = cap,
                                  !.byName = TRUE]
  <1>1. r \in StreamRecs
    BY DEF StreamRecs, NoStream
  <1>2. Typed'
    <2>1. stream' \in [Streams -> StreamRecs]
      BY <1>1, SetType DEF Typed
    <2>2. QED
      BY <2>1 DEF Typed, StreamRecs, DriverStates
  <1>3. PathInv'
    BY DEF PathInv, Typed, StreamRecs
  <1>4. HandlesCounted'
    BY DEF HandlesCounted, Typed, StreamRecs, PathInv
  <1>5. BusyInv'
    BY DEF BusyInv, Typed, StreamRecs, Busy
  <1>6. ReadyInv'
    BY DEF ReadyInv, Typed, StreamRecs, HandlesCounted, PathInv
  <1>7. SearchInv'
    <2> SUFFICES ASSUME NEW t \in Streams, NEW e \in Drivers,
                        stream'[t].at \in {"find", "probe", "caps"}, ~stream'[t].byName,
                        e \notin todo'[t], e # stream'[t].handle
                 PROVE  ~Suits(e, stream[t].cap)'
      BY DEF SearchInv
    <2>1. CASE t = s
      <3>1. ~Suits(e, stream[s].cap)
        BY <2>1 DEF SearchInv, PathInv, Typed, StreamRecs
      <3>2. stream'[s].cap = stream[s].cap
        BY <2>1 DEF Typed, StreamRecs
      <3>3. QED
        BY <2>1, <3>1, <3>2 DEF Suits
    <2>2. CASE t # s
      BY <2>2 DEF SearchInv, BusyInv, Busy, Typed, StreamRecs, Suits
    <2>3. QED
      BY <2>1, <2>2
  <1>8. AloneInv'
    BY DEF AloneInv, Typed, StreamRecs, PathInv, HandlesCounted, Busy, BusyInv
  <1>9. OpenInv'
    BY DEF OpenInv, Typed, StreamRecs, PathInv, HandlesCounted, AloneInv
  <1>10. QED
    BY <1>2, <1>3, <1>4, <1>5, <1>6, <1>7, <1>8, <1>9

LEMMA OpenBySearchHolds ==
  ASSUME IInv, UNCHANGED machine, NEW s \in Streams, NEW cap \in SUBSET Caps,
         OpenBySearch(s, cap)
  PROVE  IInv'
  <1> USE DEF IInv, OpenBySearch, Idle, Set, NoStream, Handle
  <1> DEFINE r == [NoStream EXCEPT !.at = "find", !.cap = cap]
  <1>1. r \in StreamRecs
    BY DEF StreamRecs, NoStream
  <1>2. Typed'
    <2>1. stream' \in [Streams -> StreamRecs]
      BY <1>1, SetType DEF Typed
    <2>2. QED
      BY <2>1 DEF Typed, StreamRecs, DriverStates
  <1>3. PathInv'
    BY DEF PathInv, Typed, StreamRecs
  <1>4. HandlesCounted'
    BY DEF HandlesCounted, Typed, StreamRecs, PathInv
  <1>5. BusyInv'
    BY DEF BusyInv, Typed, StreamRecs, Busy
  <1>6. ReadyInv'
    BY DEF ReadyInv, Typed, StreamRecs, HandlesCounted, PathInv
  <1>7. SearchInv'
    <2> SUFFICES ASSUME NEW t \in Streams, NEW e \in Drivers,
                        stream'[t].at \in {"find", "probe", "caps"}, ~stream'[t].byName,
                        e \notin todo'[t], e # stream'[t].handle
                 PROVE  ~Suits(e, stream[t].cap)'
      BY DEF SearchInv
    <2>1. CASE t = s
      <3>1. ~Suits(e, stream[s].cap)
        BY <2>1 DEF SearchInv, PathInv, Typed, StreamRecs
      <3>2. stream'[s].cap = stream[s].cap
        BY <2>1 DEF Typed, StreamRecs
      <3>3. QED
        BY <2>1, <3>1, <3>2 DEF Suits
    <2>2. CASE t # s
      BY <2>2 DEF SearchInv, BusyInv, Busy, Typed, StreamRecs, Suits
    <2>3. QED
      BY <2>1, <2>2
  <1>8. AloneInv'
    BY DEF AloneInv, Typed, StreamRecs, PathInv, HandlesCounted, Busy, BusyInv
  <1>9. OpenInv'
    BY DEF OpenInv, Typed, StreamRecs, PathInv, HandlesCounted, AloneInv
  <1>10. QED
    BY <1>2, <1>3, <1>4, <1>5, <1>6, <1>7, <1>8, <1>9

LEMMA FindNoneHolds ==
  ASSUME IInv, UNCHANGED machine, NEW s \in Streams, FindNone(s)
  PROVE  IInv'
  <1> USE DEF IInv, FindNone, GoTo, Set, Handle
  <1> DEFINE r == [stream[s] EXCEPT !.at = "destroy"]
  <1>1. r \in StreamRecs
    BY GoToType DEF Typed
  <1>2. Typed'
    <2>1. stream' \in [Streams -> StreamRecs]
      BY <1>1, SetType DEF Typed
    <2>2. QED
      BY <2>1 DEF Typed, StreamRecs, DriverStates
  <1>3. PathInv'
    BY DEF PathInv, Typed, StreamRecs
  <1>4. HandlesCounted'
    BY DEF HandlesCounted, Typed, StreamRecs, PathInv
  <1>5. BusyInv'
    BY DEF BusyInv, Typed, StreamRecs, Busy
  <1>6. ReadyInv'
    BY DEF ReadyInv, Typed, StreamRecs, HandlesCounted, PathInv
  <1>7. SearchInv'
    <2> SUFFICES ASSUME NEW t \in Streams, NEW e \in Drivers,
                        stream'[t].at \in {"find", "probe", "caps"}, ~stream'[t].byName,
                        e \notin todo'[t], e # stream'[t].handle
                 PROVE  ~Suits(e, stream[t].cap)'
      BY DEF SearchInv
    <2>1. CASE t = s
      <3>1. ~Suits(e, stream[s].cap)
        BY <2>1 DEF SearchInv, PathInv, Typed, StreamRecs
      <3>2. stream'[s].cap = stream[s].cap
        BY <2>1 DEF Typed, StreamRecs
      <3>3. QED
        BY <2>1, <3>1, <3>2 DEF Suits
    <2>2. CASE t # s
      BY <2>2 DEF SearchInv, BusyInv, Busy, Typed, StreamRecs, Suits
    <2>3. QED
      BY <2>1, <2>2
  <1>8. AloneInv'
    BY DEF AloneInv, Typed, StreamRecs, PathInv, HandlesCounted, Busy, BusyInv
  <1>9. OpenInv'
    BY DEF OpenInv, Typed, StreamRecs, PathInv, HandlesCounted, AloneInv
  <1>10. QED
    BY <1>2, <1>3, <1>4, <1>5, <1>6, <1>7, <1>8, <1>9

LEMMA ProbeOkHolds ==
  ASSUME IInv, UNCHANGED machine, NEW s \in Streams, ProbeOk(s)
  PROVE  IInv'
  <1> USE DEF IInv, ProbeOk, GoTo, Set, State, Found, Handle
  <1> DEFINE r == [stream[s] EXCEPT !.at = IF stream[s].byName THEN "fill" ELSE "caps"]
  <1>1. r \in StreamRecs
    BY GoToType DEF Typed
  <1>2. Typed'
    <2>1. stream' \in [Streams -> StreamRecs]
      BY <1>1, SetType DEF Typed
    <2>2. QED
      BY <2>1 DEF Typed, StreamRecs, DriverStates
  <1>3. PathInv'
    BY DEF PathInv, Typed, StreamRecs
  <1>4. HandlesCounted'
    BY DEF HandlesCounted, Typed, StreamRecs, PathInv
  <1>5. BusyInv'
    BY DEF BusyInv, Typed, StreamRecs, Busy
  <1>6. ReadyInv'
    BY DEF ReadyInv, Typed, StreamRecs, HandlesCounted, PathInv
  <1>7. SearchInv'
    <2> SUFFICES ASSUME NEW t \in Streams, NEW e \in Drivers,
                        stream'[t].at \in {"find", "probe", "caps"}, ~stream'[t].byName,
                        e \notin todo'[t], e # stream'[t].handle
                 PROVE  ~Suits(e, stream[t].cap)'
      BY DEF SearchInv
    <2>1. CASE t = s
      <3>1. ~Suits(e, stream[s].cap)
        BY <2>1 DEF SearchInv, PathInv, Typed, StreamRecs
      <3>2. stream'[s].cap = stream[s].cap
        BY <2>1 DEF Typed, StreamRecs
      <3>3. QED
        BY <2>1, <3>1, <3>2 DEF Suits
    <2>2. CASE t # s
      BY <2>2 DEF SearchInv, BusyInv, Busy, Typed, StreamRecs, Suits
    <2>3. QED
      BY <2>1, <2>2
  <1>8. AloneInv'
    BY DEF AloneInv, Typed, StreamRecs, PathInv, HandlesCounted, Busy, BusyInv
  <1>9. OpenInv'
    BY DEF OpenInv, Typed, StreamRecs, PathInv, HandlesCounted, AloneInv
  <1>10. QED
    BY <1>2, <1>3, <1>4, <1>5, <1>6, <1>7, <1>8, <1>9

LEMMA CapsOkHolds ==
  ASSUME IInv, UNCHANGED machine, NEW s \in Streams, CapsOk(s)
  PROVE  IInv'
  <1> USE DEF IInv, CapsOk, GoTo, Set, Handle
  <1> DEFINE r == [stream[s] EXCEPT !.at = "fill"]
  <1>1. r \in StreamRecs
    BY GoToType DEF Typed
  <1>2. Typed'
    <2>1. stream' \in [Streams -> StreamRecs]
      BY <1>1, SetType DEF Typed
    <2>2. QED
      BY <2>1 DEF Typed, StreamRecs, DriverStates
  <1>3. PathInv'
    BY DEF PathInv, Typed, StreamRecs
  <1>4. HandlesCounted'
    BY DEF HandlesCounted, Typed, StreamRecs, PathInv
  <1>5. BusyInv'
    BY DEF BusyInv, Typed, StreamRecs, Busy
  <1>6. ReadyInv'
    BY DEF ReadyInv, Typed, StreamRecs, HandlesCounted, PathInv
  <1>7. SearchInv'
    <2> SUFFICES ASSUME NEW t \in Streams, NEW e \in Drivers,
                        stream'[t].at \in {"find", "probe", "caps"}, ~stream'[t].byName,
                        e \notin todo'[t], e # stream'[t].handle
                 PROVE  ~Suits(e, stream[t].cap)'
      BY DEF SearchInv
    <2>1. CASE t = s
      <3>1. ~Suits(e, stream[s].cap)
        BY <2>1 DEF SearchInv, PathInv, Typed, StreamRecs
      <3>2. stream'[s].cap = stream[s].cap
        BY <2>1 DEF Typed, StreamRecs
      <3>3. QED
        BY <2>1, <3>1, <3>2 DEF Suits
    <2>2. CASE t # s
      BY <2>2 DEF SearchInv, BusyInv, Busy, Typed, StreamRecs, Suits
    <2>3. QED
      BY <2>1, <2>2
  <1>8. AloneInv'
    BY DEF AloneInv, Typed, StreamRecs, PathInv, HandlesCounted, Busy, BusyInv
  <1>9. OpenInv'
    BY DEF OpenInv, Typed, StreamRecs, PathInv, HandlesCounted, AloneInv
  <1>10. QED
    BY <1>2, <1>3, <1>4, <1>5, <1>6, <1>7, <1>8, <1>9

LEMMA FillHolds ==
  ASSUME IInv, UNCHANGED machine, NEW s \in Streams, Fill(s)
  PROVE  IInv'
  <1> USE DEF IInv, Fill, Set, Handle
  <1> DEFINE r == [stream[s] EXCEPT !.filled = TRUE,
                   !.at = IF Viable[Handle(s)] THEN "init" ELSE "destroy"]
  <1>1. r \in StreamRecs
    BY GoToType DEF Typed
  <1>2. Typed'
    <2>1. stream' \in [Streams -> StreamRecs]
      BY <1>1, SetType DEF Typed
    <2>2. QED
      BY <2>1 DEF Typed, StreamRecs, DriverStates
  <1>3. PathInv'
    BY DEF PathInv, Typed, StreamRecs
  <1>4. HandlesCounted'
    BY DEF HandlesCounted, Typed, StreamRecs, PathInv
  <1>5. BusyInv'
    BY DEF BusyInv, Typed, StreamRecs, Busy
  <1>6. ReadyInv'
    BY DEF ReadyInv, Typed, StreamRecs, HandlesCounted, PathInv
  <1>7. SearchInv'
    <2> SUFFICES ASSUME NEW t \in Streams, NEW e \in Drivers,
                        stream'[t].at \in {"find", "probe", "caps"}, ~stream'[t].byName,
                        e \notin todo'[t], e # stream'[t].handle
                 PROVE  ~Suits(e, stream[t].cap)'
      BY DEF SearchInv
    <2>1. CASE t = s
      <3>1. ~Suits(e, stream[s].cap)
        BY <2>1 DEF SearchInv, PathInv, Typed, StreamRecs
      <3>2. stream'[s].cap = stream[s].cap
        BY <2>1 DEF Typed, StreamRecs
      <3>3. QED
        BY <2>1, <3>1, <3>2 DEF Suits
    <2>2. CASE t # s
      BY <2>2 DEF SearchInv, BusyInv, Busy, Typed, StreamRecs, Suits
    <2>3. QED
      BY <2>1, <2>2
  <1>8. AloneInv'
    BY DEF AloneInv, Typed, StreamRecs, PathInv, HandlesCounted, Busy, BusyInv
  <1>9. OpenInv'
    BY DEF OpenInv, Typed, StreamRecs, PathInv, HandlesCounted, AloneInv
  <1>10. QED
    BY <1>2, <1>3, <1>4, <1>5, <1>6, <1>7, <1>8, <1>9

LEMMA InitFailsHolds ==
  ASSUME IInv, UNCHANGED machine, NEW s \in Streams, InitFails(s)
  PROVE  IInv'
  <1> USE DEF IInv, InitFails, GoTo, Set, Handle
  <1> DEFINE r == [stream[s] EXCEPT !.at = "destroy"]
  <1>1. r \in StreamRecs
    BY GoToType DEF Typed
  <1>2. Typed'
    <2>1. stream' \in [Streams -> StreamRecs]
      BY <1>1, SetType DEF Typed
    <2>2. QED
      BY <2>1 DEF Typed, StreamRecs, DriverStates
  <1>3. PathInv'
    BY DEF PathInv, Typed, StreamRecs
  <1>4. HandlesCounted'
    BY DEF HandlesCounted, Typed, StreamRecs, PathInv
  <1>5. BusyInv'
    BY DEF BusyInv, Typed, StreamRecs, Busy
  <1>6. ReadyInv'
    BY DEF ReadyInv, Typed, StreamRecs, HandlesCounted, PathInv
  <1>7. SearchInv'
    <2> SUFFICES ASSUME NEW t \in Streams, NEW e \in Drivers,
                        stream'[t].at \in {"find", "probe", "caps"}, ~stream'[t].byName,
                        e \notin todo'[t], e # stream'[t].handle
                 PROVE  ~Suits(e, stream[t].cap)'
      BY DEF SearchInv
    <2>1. CASE t = s
      <3>1. ~Suits(e, stream[s].cap)
        BY <2>1 DEF SearchInv, PathInv, Typed, StreamRecs
      <3>2. stream'[s].cap = stream[s].cap
        BY <2>1 DEF Typed, StreamRecs
      <3>3. QED
        BY <2>1, <3>1, <3>2 DEF Suits
    <2>2. CASE t # s
      BY <2>2 DEF SearchInv, BusyInv, Busy, Typed, StreamRecs, Suits
    <2>3. QED
      BY <2>1, <2>2
  <1>8. AloneInv'
    BY DEF AloneInv, Typed, StreamRecs, PathInv, HandlesCounted, Busy, BusyInv
  <1>9. OpenInv'
    BY DEF OpenInv, Typed, StreamRecs, PathInv, HandlesCounted, AloneInv
  <1>10. QED
    BY <1>2, <1>3, <1>4, <1>5, <1>6, <1>7, <1>8, <1>9

LEMMA InitOkHolds ==
  ASSUME IInv, UNCHANGED machine, NEW s \in Streams, InitOk(s)
  PROVE  IInv'
  <1> USE DEF IInv, InitOk, GoTo, Set, State, Handle
  <1> DEFINE r == [stream[s] EXCEPT !.at = "open"]
  <1>1. r \in StreamRecs
    BY GoToType DEF Typed
  <1>2. Typed'
    <2>1. stream' \in [Streams -> StreamRecs]
      BY <1>1, SetType DEF Typed
    <2>2. QED
      BY <2>1 DEF Typed, StreamRecs, DriverStates
  <1>3. PathInv'
    BY DEF PathInv, Typed, StreamRecs
  <1>4. HandlesCounted'
    BY DEF HandlesCounted, Typed, StreamRecs, PathInv
  <1>5. BusyInv'
    BY DEF BusyInv, Typed, StreamRecs, Busy
  <1>6. ReadyInv'
    BY DEF ReadyInv, Typed, StreamRecs, HandlesCounted, PathInv
  <1>7. SearchInv'
    <2> SUFFICES ASSUME NEW t \in Streams, NEW e \in Drivers,
                        stream'[t].at \in {"find", "probe", "caps"}, ~stream'[t].byName,
                        e \notin todo'[t], e # stream'[t].handle
                 PROVE  ~Suits(e, stream[t].cap)'
      BY DEF SearchInv
    <2>1. CASE t = s
      <3>1. ~Suits(e, stream[s].cap)
        BY <2>1 DEF SearchInv, PathInv, Typed, StreamRecs
      <3>2. stream'[s].cap = stream[s].cap
        BY <2>1 DEF Typed, StreamRecs
      <3>3. QED
        BY <2>1, <3>1, <3>2 DEF Suits
    <2>2. CASE t # s
      BY <2>2 DEF SearchInv, BusyInv, Busy, Typed, StreamRecs, Suits
    <2>3. QED
      BY <2>1, <2>2
  <1>8. AloneInv'
    BY DEF AloneInv, Typed, StreamRecs, PathInv, HandlesCounted, Busy, BusyInv
  <1>9. OpenInv'
    BY DEF OpenInv, Typed, StreamRecs, PathInv, HandlesCounted, AloneInv
  <1>10. QED
    BY <1>2, <1>3, <1>4, <1>5, <1>6, <1>7, <1>8, <1>9

LEMMA CloseHolds ==
  ASSUME IInv, UNCHANGED machine, NEW s \in Streams, Close(s)
  PROVE  IInv'
  <1> USE DEF IInv, Close, Idle, GoTo, Set, Handle
  <1> DEFINE r == [stream[s] EXCEPT !.at = "destroy"]
  <1>1. r \in StreamRecs
    BY GoToType DEF Typed
  <1>2. Typed'
    <2>1. stream' \in [Streams -> StreamRecs]
      BY <1>1, SetType DEF Typed
    <2>2. QED
      BY <2>1 DEF Typed, StreamRecs, DriverStates
  <1>3. PathInv'
    BY DEF PathInv, Typed, StreamRecs
  <1>4. HandlesCounted'
    BY DEF HandlesCounted, Typed, StreamRecs, PathInv
  <1>5. BusyInv'
    BY DEF BusyInv, Typed, StreamRecs, Busy
  <1>6. ReadyInv'
    BY DEF ReadyInv, Typed, StreamRecs, HandlesCounted, PathInv
  <1>7. SearchInv'
    <2> SUFFICES ASSUME NEW t \in Streams, NEW e \in Drivers,
                        stream'[t].at \in {"find", "probe", "caps"}, ~stream'[t].byName,
                        e \notin todo'[t], e # stream'[t].handle
                 PROVE  ~Suits(e, stream[t].cap)'
      BY DEF SearchInv
    <2>1. CASE t = s
      <3>1. ~Suits(e, stream[s].cap)
        BY <2>1 DEF SearchInv, PathInv, Typed, StreamRecs
      <3>2. stream'[s].cap = stream[s].cap
        BY <2>1 DEF Typed, StreamRecs
      <3>3. QED
        BY <2>1, <3>1, <3>2 DEF Suits
    <2>2. CASE t # s
      BY <2>2 DEF SearchInv, BusyInv, Busy, Typed, StreamRecs, Suits
    <2>3. QED
      BY <2>1, <2>2
  <1>8. AloneInv'
    BY DEF AloneInv, Typed, StreamRecs, PathInv, HandlesCounted, Busy, BusyInv
  <1>9. OpenInv'
    BY DEF OpenInv, Typed, StreamRecs, PathInv, HandlesCounted, AloneInv
  <1>10. QED
    BY <1>2, <1>3, <1>4, <1>5, <1>6, <1>7, <1>8, <1>9

LEMMA DestroyHolds ==
  ASSUME IInv, UNCHANGED machine, NEW s \in Streams, Destroy(s)
  PROVE  IInv'
  <1> USE DEF IInv, Destroy, GoTo, Set, State, Handle
  <1> DEFINE r == [stream[s] EXCEPT !.at = "unload"]
  <1>1. r \in StreamRecs
    BY GoToType DEF Typed
  <1>2. Typed'
    <2>1. stream' \in [Streams -> StreamRecs]
      BY <1>1, SetType DEF Typed
    <2>2. QED
      BY <2>1 DEF Typed, StreamRecs, DriverStates
  <1>3. PathInv'
    BY DEF PathInv, Typed, StreamRecs
  <1>4. HandlesCounted'
    BY DEF HandlesCounted, Typed, StreamRecs, PathInv
  <1>5. BusyInv'
    BY DEF BusyInv, Typed, StreamRecs, Busy
  <1>6. ReadyInv'
    BY DEF ReadyInv, Typed, StreamRecs, HandlesCounted, PathInv
  <1>7. SearchInv'
    <2> SUFFICES ASSUME NEW t \in Streams, NEW e \in Drivers,
                        stream'[t].at \in {"find", "probe", "caps"}, ~stream'[t].byName,
                        e \notin todo'[t], e # stream'[t].handle
                 PROVE  ~Suits(e, stream[t].cap)'
      BY DEF SearchInv
    <2>1. CASE t = s
      <3>1. ~Suits(e, stream[s].cap)
        BY <2>1 DEF SearchInv, PathInv, Typed, StreamRecs
      <3>2. stream'[s].cap = stream[s].cap
        BY <2>1 DEF Typed, StreamRecs
      <3>3. QED
        BY <2>1, <3>1, <3>2 DEF Suits
    <2>2. CASE t # s
      BY <2>2 DEF SearchInv, BusyInv, Busy, Typed, StreamRecs, Suits
    <2>3. QED
      BY <2>1, <2>2
  <1>8. AloneInv'
    BY DEF AloneInv, Typed, StreamRecs, PathInv, HandlesCounted, Busy, BusyInv
  <1>9. OpenInv'
    BY DEF OpenInv, Typed, StreamRecs, PathInv, HandlesCounted, AloneInv
  <1>10. QED
    BY <1>2, <1>3, <1>4, <1>5, <1>6, <1>7, <1>8, <1>9

LEMMA UnloadHolds ==
  ASSUME IInv, UNCHANGED machine, NEW s \in Streams, Unload(s)
  PROVE  IInv'
  <1> USE DEF IInv, Unload, Set, DlClose, NoStream, Handle
  <1> DEFINE r == NoStream
  <1>1. r \in StreamRecs
    BY DEF StreamRecs, NoStream
  <1>2. Typed'
    <2>1. stream' \in [Streams -> StreamRecs]
      BY <1>1, SetType DEF Typed
    <2>2. CASE stream[s].handle = NoDriver
      BY <2>1, <2>2 DEF Typed
    <2>3. CASE stream[s].handle # NoDriver
      <3>1. todo' \in [Streams -> SUBSET Drivers]
        BY DEF Typed
      <3>2. holders' \in [Drivers -> SUBSET Streams]
        BY <2>3 DEF Typed
      <3>3. driver' \in [Drivers -> DriverStates]
        BY <2>3 DEF Typed, DriverStates
      <3>4. QED
        BY <2>1, <3>1, <3>2, <3>3 DEF Typed
    <2>4. QED
      BY <2>2, <2>3
  <1>3. PathInv'
    BY DEF PathInv, Typed, StreamRecs
  <1>4. HandlesCounted'
    BY DEF HandlesCounted, Typed, StreamRecs, PathInv
  <1>5. BusyInv'
    BY DEF BusyInv, Typed, StreamRecs, Busy
  <1>6. ReadyInv'
    BY DEF ReadyInv, Typed, StreamRecs, HandlesCounted, PathInv
  <1>7. SearchInv'
    <2> SUFFICES ASSUME NEW t \in Streams, NEW e \in Drivers,
                        stream'[t].at \in {"find", "probe", "caps"}, ~stream'[t].byName,
                        e \notin todo'[t], e # stream'[t].handle
                 PROVE  ~Suits(e, stream[t].cap)'
      BY DEF SearchInv
    <2>1. CASE t = s
      <3>1. ~Suits(e, stream[s].cap)
        BY <2>1 DEF SearchInv, PathInv, Typed, StreamRecs
      <3>2. stream'[s].cap = stream[s].cap
        BY <2>1 DEF Typed, StreamRecs
      <3>3. QED
        BY <2>1, <3>1, <3>2 DEF Suits
    <2>2. CASE t # s
      BY <2>2 DEF SearchInv, BusyInv, Busy, Typed, StreamRecs, Suits
    <2>3. QED
      BY <2>1, <2>2
  <1>8. AloneInv'
    BY DEF AloneInv, Typed, StreamRecs, PathInv, HandlesCounted, Busy, BusyInv
  <1>9. OpenInv'
    BY DEF OpenInv, Typed, StreamRecs, PathInv, HandlesCounted, AloneInv
  <1>10. QED
    BY <1>2, <1>3, <1>4, <1>5, <1>6, <1>7, <1>8, <1>9

----------------------------------------------------------------------------
THEOREM Inductive == IInv /\ [Next]_vars => IInv'
  <1> SUFFICES ASSUME IInv, [Next]_vars PROVE IInv'
    OBVIOUS
  <1>1. CASE UNCHANGED vars
    <2> USE <1>1 DEF vars, IInv, Handle
    <2>1. Typed' /\ PathInv' /\ HandlesCounted'
      BY DEF Typed, PathInv, HandlesCounted
    <2>2. BusyInv' /\ ReadyInv'
      BY DEF BusyInv, Busy, ReadyInv
    <2>3. SearchInv'
      BY DEF SearchInv, Suits
    <2>4. AloneInv' /\ OpenInv'
      BY DEF AloneInv, OpenInv
    <2>5. QED
      BY <2>1, <2>2, <2>3, <2>4
  <1>2. CASE Next
    <2> PICK s \in Streams :
          \/ \E d \in Drivers, cap \in SUBSET Caps : OpenByName(s, d, cap)
          \/ \E cap \in SUBSET Caps : OpenBySearch(s, cap)
          \/ \E d \in Drivers : FindNext(s, d)
          \/ FindNone(s) \/ ProbeFails(s) \/ ProbeOk(s) \/ CapsOk(s) \/ CapsFail(s)
          \/ Fill(s) \/ InitFails(s) \/ InitOk(s) \/ Close(s) \/ Destroy(s) \/ Unload(s)
      BY <1>2 DEF Next
    <2>1. UNCHANGED machine
      BY <1>2 DEF Next
    <2>2. QED
      BY <2>1, OpenByNameHolds, OpenBySearchHolds, FindNextHolds, FindNoneHolds,
         ProbeFailsHolds, ProbeOkHolds, CapsOkHolds, CapsFailHolds,
         FillHolds, InitFailsHolds, InitOkHolds, CloseHolds,
         DestroyHolds, UnloadHolds
  <1>3. QED
    BY <1>1, <1>2

THEOREM Invariance == Spec => []IInv
  BY InitHolds, Inductive, PTL DEF Spec

\* Exactly the streams with a handle keep a driver loaded.
THEOREM CountCorrect == Spec => []HandlesCounted
  <1>1. IInv => HandlesCounted
    BY DEF IInv
  <1>2. QED
    BY <1>1, Invariance, PTL

\* A program that opens no driver twice has ready drivers under its open streams.
THEOREM ReadyCorrect ==
  ASSUME ~Sharing
  PROVE  Spec => []OpenStreamReady
  <1>1. IInv => OpenStreamReady
    BY DEF IInv, OpenInv, PathInv, OpenStreamReady, Typed, StreamRecs
  <1>2. QED
    BY <1>1, Invariance, PTL

\* A search passes no file that would have done.
THEOREM SearchCorrect == Spec => []NothingPassedOver
  <1>1. IInv => NothingPassedOver
    BY DEF IInv, SearchInv, PathInv, NothingPassedOver
  <1>2. QED
    BY <1>1, Invariance, PTL

\* Who unloads a driver is the last to hold it, so a driver that is ready is held by a
\* stream that has yet to destroy it: the one that unloads it is past that.
THEOREM DestroyCorrect == Spec => DestroyBeforeUnload
  <1>1. ASSUME IInv, [Next]_vars, NEW d \in Drivers, driver[d] = "ready", driver'[d] = "absent"
        PROVE  ~HasDestroy[d]
    <2>1. PICK s \in Streams :
            /\ DlClose(s, d) /\ Handle(s) = d /\ holders[d] \subseteq {s}
            /\ stream[s].at \in {"probe", "caps", "unload"}
      <3>1. PICK s \in Streams :
              \/ \E e \in Drivers, cap \in SUBSET Caps : OpenByName(s, e, cap)
              \/ \E cap \in SUBSET Caps : OpenBySearch(s, cap)
              \/ \E e \in Drivers : FindNext(s, e)
              \/ FindNone(s) \/ ProbeFails(s) \/ ProbeOk(s) \/ CapsOk(s) \/ CapsFail(s)
              \/ Fill(s) \/ InitFails(s) \/ InitOk(s) \/ Close(s) \/ Destroy(s) \/ Unload(s)
        BY <1>1 DEF Next, vars
      <3> USE <1>1 DEF IInv, Typed, DriverStates
      <3>2. ASSUME NEW e \in Drivers, DlOpen(s, e) PROVE FALSE
        BY <3>2 DEF DlOpen
      <3>3. ASSUME NEW e \in Drivers, NEW st \in {"probed", "ready", "destroyed", driver[e]},
                   State(e, st)
            PROVE  FALSE
        BY <3>3 DEF State
      <3>4. ASSUME UNCHANGED driver PROVE FALSE
        BY <3>4
      <3>5. ASSUME NEW h, DlClose(s, h)
            PROVE  h = d /\ holders[d] \subseteq {s}
        BY <3>5 DEF DlClose
      <3>6. ASSUME Reject(s), stream[s].at \in {"probe", "caps"}
            PROVE  DlClose(s, d) /\ Handle(s) = d /\ holders[d] \subseteq {s}
        BY <3>4, <3>5, <3>6 DEF Reject
      <3>7. CASE \/ \E e \in Drivers, cap \in SUBSET Caps : OpenByName(s, e, cap)
                 \/ \E e \in Drivers : FindNext(s, e)
        BY <3>2, <3>4, <3>7 DEF OpenByName, FindNext
      <3>8. CASE \/ \E cap \in SUBSET Caps : OpenBySearch(s, cap)
                 \/ FindNone(s) \/ CapsOk(s) \/ Fill(s) \/ InitFails(s) \/ Close(s)
        BY <3>4, <3>8 DEF OpenBySearch, FindNone, CapsOk, Fill, InitFails, Close
      <3>9. CASE ProbeOk(s) \/ InitOk(s) \/ Destroy(s)
        <4>1. stream[s].at \in {"probe", "init"} \/ stream[s].filled => Handle(s) \in Drivers
          BY DEF PathInv, StreamRecs, Handle
        <4>2. QED
          BY <3>3, <3>4, <3>9, <4>1 DEF ProbeOk, InitOk, Destroy
      <3>10. CASE ProbeFails(s) \/ CapsFail(s)
        BY <3>6, <3>10 DEF ProbeFails, CapsFail
      <3>11. CASE Unload(s)
        BY <3>4, <3>5, <3>11 DEF Unload
      <3>12. QED
        BY <3>1, <3>7, <3>8, <3>9, <3>10, <3>11
    <2>2. QED
      BY <1>1, <2>1 DEF IInv, ReadyInv, HandlesCounted
  <1>2. IInv /\ [Next]_vars =>
          [\A d \in Drivers : driver[d] = "ready" /\ driver'[d] = "absent" => ~HasDestroy[d]]_vars
    BY <1>1
  <1>3. QED
    BY <1>2, Invariance, PTL DEF Spec, DestroyBeforeUnload

----------------------------------------------------------------------------
(***************************************************************************)
(* What a probe finds.  The first card of those a driver looks for is one  *)
(* of them; the SiS driver looks at all cards, and what it remembers in    *)
(* the end is of the last one it knows.                                    *)
(***************************************************************************)

USE MachinesAssumption

LEMMA LeastMember ==
  ASSUME NEW S, S \subseteq Nat, S # {}
  PROVE  \E x \in S : \A y \in S : x <= y
  <1>1. PICK x \in S : \A y \in S : ~(<<y, x>> \in OpToRel(<, Nat))
    BY NatLessThanWellFounded, WFMin
  <1>2. \A y \in S : ~(y < x)
    BY <1>1 DEF OpToRel
  <1>3. \A y \in S : y \in Nat /\ x \in Nat
    OBVIOUS
  <1>4. QED
    BY <1>2, <1>3, SMT

LEMMA MinIn ==
  ASSUME NEW S, S \subseteq Nat, S # {}
  PROVE  Min(S) \in S
  <1>1. \E x \in S : \A y \in S : x <= y
    BY LeastMember
  <1>2. QED
    BY <1>1 DEF Min

\* Of a set of card numbers up to n, the last.
LEMMA MaxIn ==
  ASSUME NEW n \in Nat, NEW S, S \subseteq 1 .. n, S # {}
  PROVE  Max(S) \in S /\ \A y \in S : y <= Max(S)
  <1> DEFINE T == {i \in Nat : \A y \in S : y <= i}
  <1>1. n \in T
    BY SMT
  <1>2. PICK t \in T : \A i \in T : t <= i
    <2> HIDE DEF T
    <2>1. T # {} /\ (\A i \in T : i \in Nat)
      BY <1>1 DEF T
    <2> QED BY <2>1, LeastMember
  <1>3. t \in S
    <2> SUFFICES ASSUME t \notin S PROVE FALSE
      OBVIOUS
    <2>1. \A y \in S : y <= t - 1 /\ y >= 1
      OBVIOUS
    <2>2. t - 1 \in T
      <3>1. PICK y \in S : TRUE
        OBVIOUS
      <3>2. y <= t - 1 /\ y >= 1 /\ t \in Nat /\ y \in Nat
        BY <2>1
      <3>3. t - 1 \in Nat
        BY <3>2, SMT
      <3>4. QED
        BY <2>1, <3>3
    <2>3. QED
      BY <1>2, <2>2
  <1>4. \E x \in S : \A y \in S : x >= y
    BY <1>3
  <1>5. Max(S) \in S /\ \A y \in S : Max(S) >= y
    BY <1>4 DEF Max
  <1>6. QED
    BY <1>5

\* The loop over all of the cards ends with what is to be remembered of the last one known.
LEMMA SisTakes ==
  ASSUME NEW m \in Machines, Known("sis", m) # {}
  PROVE  SisTaken(m) = Remember("sis", Blank, m.cards[Max(Known("sis", m))].chip, m.cr)
  <1> DEFINE N        == Len(m.cards)
             of(i)    == Remember("sis", Blank, m.cards[i].chip, m.cr)
             Knew(n)  == {i \in 1 .. n : Knows("sis", m.cards[i])}
             Last(n)  == IF Knew(n) = {} THEN Blank ELSE of(Max(Knew(n)))
             Rec(f)   == [n \in 0 .. N |-> IF n = 0 THEN Blank
                                         ELSE IF Knows("sis", m.cards[n])
                                         THEN Remember("sis", f[n - 1], m.cards[n].chip, m.cr)
                                         ELSE f[n - 1]]
  <1>0. \A old, i : Remember("sis", old, m.cards[i].chip, m.cr) = of(i)
    BY DEF Remember
  <1>1. N \in Nat /\ DOMAIN m.cards = 1 .. N
    BY SMT
  <1>2. ASSUME NEW n \in 1 .. N
        PROVE  /\ Knows("sis", m.cards[n]) => Knew(n) # {} /\ Max(Knew(n)) = n
               /\ ~Knows("sis", m.cards[n]) => Knew(n) = Knew(n - 1)
    <2> HIDE DEF N
    <2>1. ASSUME Knows("sis", m.cards[n])
          PROVE  Knew(n) # {} /\ Max(Knew(n)) = n
      <3>1. n \in Knew(n) /\ Knew(n) \subseteq 1 .. n /\ n \in Nat
        BY <1>1, <2>1, SMT
      <3>2. Max(Knew(n)) \in Knew(n) /\ n <= Max(Knew(n))
        <4> HIDE DEF Knew
        <4> QED BY <3>1, MaxIn
      <3>3. Max(Knew(n)) \in 1 .. n
        BY <3>1, <3>2
      <3> HIDE DEF Knew
      <3>4. QED
        BY <3>1, <3>2, <3>3, SMT
    <2>2. ASSUME ~Knows("sis", m.cards[n]) PROVE Knew(n) = Knew(n - 1)
      <3>1. \A i : i \in 1 .. n <=> (i \in 1 .. n - 1 \/ i = n)
        BY <1>1, SMT
      <3>2. QED
        BY <2>2, <3>1
    <2>3. QED
      BY <2>1, <2>2
  <1>3. Last(0) = Blank
    BY SMT
  <1>4. \A n \in 1 .. N : Last(n) = IF Knows("sis", m.cards[n]) THEN of(n) ELSE Last(n - 1)
    <2> HIDE DEF Knew, N, of
    <2> QED BY <1>2
  <1> HIDE DEF Last
  <1>5. \E f : f = Rec(f)
    <2> DEFINE g == [n \in 0 .. N |-> Last(n)]
    <2>1. ASSUME NEW n \in 0 .. N
          PROVE  Last(n) = IF n = 0 THEN Blank
                           ELSE IF Knows("sis", m.cards[n]) THEN of(n) ELSE g[n - 1]
      <3>1. CASE n = 0
        BY <3>1, <1>3
      <3>2. CASE n # 0
        <4>1. n \in 1 .. N /\ n - 1 \in 0 .. N
          BY <1>1, <3>2, SMT
        <4>2. g[n - 1] = Last(n - 1)
          BY <4>1
        <4>3. QED
          BY <1>4, <3>2, <4>1, <4>2
      <3>3. QED
        BY <3>1, <3>2
    <2>2. g = Rec(g)
      <3> HIDE DEF of
      <3> QED BY <1>0, <2>1
    <2> HIDE DEF g, Rec
    <2>3. QED
      BY <2>2
  <1> DEFINE taken == CHOOSE f : f = Rec(f)
  <1>6. taken = Rec(taken)
    <2> HIDE DEF Rec
    <2> QED BY <1>5
  <1>7. SisTaken(m) = taken[N]
    BY Zenon DEF SisTaken
  <1> HIDE DEF taken
  <1>8. \A n \in 0 .. N : taken[n] = Last(n)
    <2> DEFINE Bad == {n \in 0 .. N : taken[n] # Last(n)}
    <2> SUFFICES ASSUME Bad # {} PROVE FALSE
      OBVIOUS
    <2>1. PICK n \in Bad : \A i \in Bad : n <= i
      <3>1. Bad \subseteq Nat
        BY <1>1, SMT
      <3> HIDE DEF Bad
      <3> QED BY <3>1, LeastMember
    <2>2. n \in 0 .. N /\ taken[n] # Last(n)
      OBVIOUS
    <2>3. taken[n] = IF n = 0 THEN Blank ELSE IF Knows("sis", m.cards[n]) THEN of(n)
                     ELSE taken[n - 1]
      <3> HIDE DEF of
      <3> QED BY <1>0, <1>6, <2>2
    <2>4. n # 0
      BY <1>3, <2>2, <2>3
    <2>5. n \in 1 .. N /\ n - 1 \in 0 .. N /\ ~(n <= n - 1)
      BY <1>1, <2>2, <2>4, SMT
    <2>6. taken[n - 1] = Last(n - 1)
      <3>1. n - 1 \notin Bad
        <4> HIDE DEF Bad
        <4> QED BY <2>1, <2>5
      <3> QED BY <2>5, <3>1
    <2>7. QED
      BY <1>4, <2>2, <2>3, <2>4, <2>5, <2>6
  <1>9. Knew(N) = Known("sis", m)
    BY <1>1 DEF Known
  <1>10. taken[N] = Last(N)
    BY <1>1, <1>8, SMT
  <1>11. QED
    BY <1>7, <1>9, <1>10 DEF Last

LEMMA KnownIn ==
  ASSUME NEW k, NEW m \in Machines, NEW S \in SUBSET DOMAIN m.cards, First(S) # 0
  PROVE  First(S) \in S
  <1>1. S # {} /\ First(S) = Min(S)
    BY DEF First
  <1>2. S \subseteq Nat
    <2>1. DOMAIN m.cards = 1 .. Len(m.cards) /\ Len(m.cards) \in Nat
      BY SMT
    <2>2. \A i \in 1 .. Len(m.cards) : i \in Nat
      BY <2>1, SMT
    <2>3. QED
      BY <2>1, <2>2
  <1>3. QED
    BY <1>1, <1>2, MinIn

\* A probe finds a card the driver knows, or one of ATI when it is forced, and remembers
\* that one.
LEMMA ProbeFits ==
  ASSUME NEW k \in AllKinds, NEW m \in Machines, NEW force \in BOOLEAN,
         Probe(k, m, force) # 0
  PROVE  LET c == m.cards[Probe(k, m, force)]
         IN  /\ \/ Knows(k, c)
                \/ force /\ k \in Ati /\ c.vendor \in Vendors(k)
             /\ k = "s3" => c.io
             /\ AfterProbe(k, m, force) = Remember(k, Blank, c.chip, m.cr)
  <1> DEFINE c == m.cards[Probe(k, m, force)]
  <1>1. CASE k \in Ati
    <2>1. Probe(k, m, force) = First(AtiCards(k, m, force))
      BY <1>1, Zenon DEF Ati, Probe, RadeonProbe, RadeonHdProbe, Mach64Probe
    <2>2. AtiCards(k, m, force) \subseteq DOMAIN m.cards
      BY DEF AtiCards, Known
    <2>3. Probe(k, m, force) \in AtiCards(k, m, force)
      BY <2>1, <2>2, KnownIn
    <2>4. Vendors(k) = {"ati"}
      BY <1>1, Zenon DEF Vendors, Ati
    <2>5. Knows(k, c) \/ (force /\ c.vendor = "ati")
      <3> HIDE DEF AllKinds
      <3> QED BY <2>3 DEF AtiCards, Known
    <2>6. k # "s3" /\ k # "sis"
      BY <1>1 DEF Ati
    <2>7. AfterProbe(k, m, force) = Remember(k, Blank, c.chip, m.cr)
      BY <2>6 DEF AfterProbe
    <2>8. QED
      BY <1>1, <2>4, <2>5, <2>6, <2>7
  <1>2. CASE k = "sis"
    <2>1. Probe(k, m, force) = Max(Known(k, m)) /\ Known(k, m) # {}
      BY <1>2, Zenon DEF Probe, SisProbe
    <2>2. Known(k, m) \subseteq 1 .. Len(m.cards) /\ Len(m.cards) \in Nat
      BY SMT DEF Known
    <2>3. Probe(k, m, force) \in Known(k, m)
      BY <2>1, <2>2, MaxIn
    <2>4. AfterProbe(k, m, force) = Remember(k, Blank, c.chip, m.cr)
      BY <1>2, <2>1, SisTakes, Zenon DEF AfterProbe
    <2>5. Knows(k, c)
      BY <2>3 DEF Known
    <2>6. QED
      BY <1>2, <2>4, <2>5
  <1>3. CASE k \notin Ati /\ k # "sis"
    <2> DEFINE S == IF k = "s3" THEN {i \in Known("s3", m) : m.cards[i].io} ELSE Known(k, m)
    <2>1. Probe(k, m, force) = First(S)
      <3> HIDE DEF AllKinds
      <3>1. CASE k = "s3"
        BY <3>1, Zenon DEF Probe, S3Probe
      <3>2. CASE k = "ivtv"
        BY <3>2, Zenon DEF Probe, IvtvProbe
      <3>3. CASE k \in {"mga", "mga_crtc2"}
        BY <3>3, Zenon DEF Probe, MgaProbe
      <3>4. CASE k = "nvidia"
        BY <3>4, Zenon DEF Probe, NvidiaProbe
      <3>5. CASE k = "savage"
        BY <3>5, Zenon DEF Probe, SavageProbe
      <3>6. CASE k = "pm2"
        BY <3>6, Zenon DEF Probe, Pm2Probe
      <3>7. CASE k = "pm3"
        BY <3>7, Zenon DEF Probe, Pm3Probe
      <3>8. CASE k = "cyberblade"
        BY <3>8, Zenon DEF Probe, CyberbladeProbe
      <3>9. CASE k = "unichrome"
        BY <3>9, Zenon DEF Probe, UnichromeProbe
      <3>10. CASE k = "genfb"
        BY <3>10, Zenon DEF Probe, GenfbProbe
      <3>11. QED
        BY <1>3, <3>1, <3>2, <3>3, <3>4, <3>5, <3>6, <3>7, <3>8, <3>9, <3>10 DEF AllKinds
    <2>2. S \subseteq DOMAIN m.cards
      BY DEF Known
    <2>3. Probe(k, m, force) \in S
      <3> HIDE DEF S
      <3> QED BY <2>1, <2>2, KnownIn
    <2>4. Knows(k, c) /\ (k = "s3" => c.io)
      BY <2>3 DEF Known
    <2>5. AfterProbe(k, m, force) = Remember(k, Blank, c.chip, m.cr)
      BY <1>3 DEF AfterProbe
    <2>6. QED
      BY <2>4, <2>5
  <1>4. QED
    BY <1>1, <1>2, <1>3

\* A driver has a layout for each format it offers with such a card, NV12 of a G200 aside.
LEMMA FormatsFit ==
  ASSUME NEW k \in AllKinds, NEW c, Knows(k, c) \/ k \in Ati,
         ~(k = "mga" /\ c.chip \in G200Chips)
  PROVE  Offers(k, c.chip, TRUE) \subseteq Configures(k)
  <1>1. CASE k \in Ati
    <2>1. Offers(k, c.chip, TRUE) = Offers(k, "permedia2", TRUE)
      BY <1>1, Zenon DEF Ati, Offers
    <2>2. k \notin {"mga", "mga_crtc2"}
      BY <1>1 DEF Ati
    <2>3. QED
      BY <2>1, <2>2 DEF Configures
  <1>2. CASE k = "pm2" /\ k \notin Ati
    <2>1. c.chip = "permedia2"
      BY <1>2 DEF Knows, Pm2Cards
    <2>2. QED
      BY <1>2, <2>1 DEF Configures
  <1>3. CASE k \in {"mga", "mga_crtc2"} /\ k \notin Ati
    <2>1. c.chip \in Chips(k)
      BY <1>3 DEF Knows
    <2>2. c.chip \notin G200Chips
      <3>1. CASE k = "mga"
        BY <3>1
      <3>2. CASE k = "mga_crtc2"
        <4>1. Chips(k) = G400Chips
          BY <3>2, Zenon DEF Chips
        <4>2. QED
          BY <2>1, <4>1 DEF G400Chips, G200Chips
      <3>3. QED
        BY <1>3, <3>1, <3>2
    <2>3. Offers(k, c.chip, TRUE) = MgaQuery(c.chip)
      BY <1>3, Zenon DEF Offers
    <2>4. QED
      BY <1>3, <2>2, <2>3 DEF MgaQuery, Configures
  <1>4. CASE k \notin Ati \cup {"pm2", "mga", "mga_crtc2"}
    <2>1. c.chip \in Chips(k)
      BY <1>4 DEF Knows
    <2>2. QED
      BY <1>4, <2>1 DEF Configures
  <1>5. QED
    BY <1>1, <1>2, <1>3, <1>4

----------------------------------------------------------------------------
(***************************************************************************)
(* The card of a stream.  From its probe on a driver that nobody else has  *)
(* opened keeps the card it settled on, and what it remembered of it.      *)
(***************************************************************************)

\* Streams whose driver has been asked for a card.
Probed == {"caps", "fill", "init", "open"}

Settled(s) ==
  /\ Found(s) # 0 /\ card[Handle(s)] = Found(s)
  /\ kept[Handle(s)] = AfterProbe(Kind[Handle(s)], machine, stream[s].byName)

CardInv ==
  /\ DOMAIN card = Drivers /\ DOMAIN kept = Drivers /\ machine \in Machines
  /\ ~Sharing => \A s \in Streams : stream[s].at \in Probed => Settled(s)

\* A step of one stream leaves the cards of the others.
LEMMA OthersSettled ==
  ASSUME IInv, CardInv, UNCHANGED machine, NEW s \in Streams, NEW r, Set(s, r),
         DOMAIN card' = Drivers, DOMAIN kept' = Drivers,
         \A d \in Drivers : d # Handle(s) => card'[d] = card[d] /\ kept'[d] = kept[d],
         ~Sharing /\ r.at \in Probed => Settled(s)'
  PROVE  CardInv'
  <1>1. machine' \in Machines
    BY DEF CardInv
  <1>2. ASSUME ~Sharing, NEW t \in Streams, stream'[t].at \in Probed, t # s
        PROVE  Settled(t)'
    <2>1. stream'[t] = stream[t]
      BY <1>2 DEF Set, IInv, Typed
    <2>2. Settled(t)
      BY <1>2, <2>1 DEF CardInv
    <2>3. Handle(t) # NoDriver /\ Handle(t) \in Drivers /\ Handle(t) # Handle(s)
      <3>1. Handle(t) # NoDriver
        BY <1>2, <2>1 DEF IInv, PathInv, Probed
      <3>2. Handle(t) \in Drivers \cup {NoDriver}
        BY DEF IInv, Typed, StreamRecs, Handle
      <3>3. QED
        BY <1>2, <3>1, <3>2 DEF IInv, AloneInv
    <2>4. QED
      BY <2>1, <2>2, <2>3 DEF Settled, Found, Handle
  <1>3. stream'[s] = r
    BY DEF Set, IInv, Typed
  <1>4. QED
    BY <1>1, <1>2, <1>3 DEF CardInv

\* Steps that leave driver and card of a stream.
LEMMA StaysSettled ==
  ASSUME IInv, CardInv, UNCHANGED <<machine, card, kept>>, NEW s \in Streams, NEW r, Set(s, r),
         r.at \in Probed => /\ stream[s].at \in Probed /\ r.handle = stream[s].handle
                            /\ r.byName = stream[s].byName
  PROVE  CardInv'
  <1>1. stream'[s] = r
    BY DEF Set, IInv, Typed
  <1>2. ~Sharing /\ r.at \in Probed => Settled(s)'
    BY <1>1 DEF CardInv, Settled, Found, Handle
  <1>3. QED
    BY <1>2, OthersSettled DEF CardInv

LEMMA ClosedSettled ==
  ASSUME IInv, CardInv, UNCHANGED machine, NEW s \in Streams, NEW r, Set(s, r),
         DlClose(s, Handle(s)), r.at \notin Probed
  PROVE  CardInv'
  <1>1. DOMAIN card' = Drivers /\ DOMAIN kept' = Drivers
    BY DEF DlClose, CardInv
  <1>2. \A d \in Drivers : d # Handle(s) => card'[d] = card[d] /\ kept'[d] = kept[d]
    BY DEF DlClose, CardInv
  <1>3. QED
    BY <1>1, <1>2, OthersSettled

LEMMA GoesTo ==
  ASSUME IInv, NEW s \in Streams, NEW at
  PROVE  LET r == [stream[s] EXCEPT !.at = at]
         IN  r.at = at /\ r.handle = stream[s].handle /\ r.byName = stream[s].byName
  BY DEF IInv, Typed, StreamRecs

LEMMA RejectSettled ==
  ASSUME IInv, CardInv, UNCHANGED machine, NEW s \in Streams, Reject(s)
  PROVE  CardInv'
  <1>1. CASE stream[s].byName
    BY <1>1, GoesTo, StaysSettled DEF Reject, GoTo, Probed
  <1>2. CASE ~stream[s].byName
    <2> DEFINE r == [stream[s] EXCEPT !.at = "find", !.handle = NoDriver]
    <2>1. r.at = "find"
      BY DEF IInv, Typed, StreamRecs
    <2>2. Set(s, r) /\ DlClose(s, Handle(s))
      BY <1>2 DEF Reject
    <2> HIDE DEF r
    <2>3. QED
      BY <2>1, <2>2, ClosedSettled DEF Probed
  <1>3. QED
    BY <1>1, <1>2

LEMMA ProbeSettled ==
  ASSUME IInv, CardInv, UNCHANGED machine, NEW s \in Streams, ProbeOk(s)
  PROVE  CardInv'
  <1> DEFINE r == [stream[s] EXCEPT !.at = IF stream[s].byName THEN "fill" ELSE "caps"]
  <1>1. Set(s, r) /\ r.handle = stream[s].handle /\ r.byName = stream[s].byName
    BY GoesTo DEF ProbeOk, GoTo
  <1> HIDE DEF r
  <1>2. stream'[s] = r
    BY <1>1 DEF Set, IInv, Typed
  <1>3. Handle(s) \in Drivers
    BY DEF ProbeOk, IInv, PathInv, Typed, StreamRecs, Handle
  <1>4. /\ Found(s) # 0
        /\ card' = [card EXCEPT ![Handle(s)] = Found(s)]
        /\ kept' = [kept EXCEPT ![Handle(s)] =
                       AfterProbe(Kind[Handle(s)], machine, stream[s].byName)]
    BY DEF ProbeOk
  <1>5. DOMAIN card' = Drivers /\ DOMAIN kept' = Drivers
    BY <1>4 DEF CardInv
  <1>6. \A d \in Drivers : d # Handle(s) => card'[d] = card[d] /\ kept'[d] = kept[d]
    BY <1>4 DEF CardInv
  <1>7. Settled(s)'
    BY <1>1, <1>2, <1>3, <1>4 DEF CardInv, Settled, Found, Handle
  <1>8. QED
    BY <1>1, <1>5, <1>6, <1>7, OthersSettled

LEMMA CardInductive ==
  ASSUME IInv, CardInv, [Next]_vars
  PROVE  CardInv'
  <1>1. CASE UNCHANGED vars
    BY <1>1 DEF vars, CardInv, Settled, Found, Handle
  <1>2. CASE Next
    <2>1. UNCHANGED machine
      BY <1>2 DEF Next
    <2>2. PICK s \in Streams :
            \/ \E d \in Drivers, cap \in SUBSET Caps : OpenByName(s, d, cap)
            \/ \E cap \in SUBSET Caps : OpenBySearch(s, cap)
            \/ \E d \in Drivers : FindNext(s, d)
            \/ FindNone(s) \/ ProbeFails(s) \/ ProbeOk(s) \/ CapsOk(s) \/ CapsFail(s)
            \/ Fill(s) \/ InitFails(s) \/ InitOk(s) \/ Close(s) \/ Destroy(s) \/ Unload(s)
      BY <1>2 DEF Next
    <2>3. ASSUME NEW d \in Drivers, NEW cap \in SUBSET Caps, OpenByName(s, d, cap)
          PROVE  CardInv'
      <3> DEFINE r == [NoStream EXCEPT !.at = "probe", !.handle = d, !.cap = cap,
                                       !.byName = TRUE]
      <3>1. r.at \notin Probed
        BY DEF NoStream, Probed
      <3>2. Set(s, r) /\ UNCHANGED <<card, kept>>
        BY <2>3 DEF OpenByName, DlOpen
      <3> HIDE DEF r
      <3>3. QED
        BY <2>1, <3>1, <3>2, StaysSettled
    <2>4. ASSUME NEW cap \in SUBSET Caps, OpenBySearch(s, cap)
          PROVE  CardInv'
      <3> DEFINE r == [NoStream EXCEPT !.at = "find", !.cap = cap]
      <3>1. r.at \notin Probed
        BY DEF NoStream, Probed
      <3>2. Set(s, r) /\ UNCHANGED <<card, kept>>
        BY <2>4 DEF OpenBySearch
      <3> HIDE DEF r
      <3>3. QED
        BY <2>1, <3>1, <3>2, StaysSettled
    <2>5. ASSUME NEW d \in Drivers, FindNext(s, d)
          PROVE  CardInv'
      <3>1. CASE Loads[d]
        <4> DEFINE r == [stream[s] EXCEPT !.at = "probe", !.handle = d]
        <4>1. r.at \notin Probed
          BY DEF IInv, Typed, StreamRecs, Probed
        <4>2. Set(s, r) /\ UNCHANGED <<card, kept>>
          BY <2>5, <3>1 DEF FindNext, DlOpen
        <4> HIDE DEF r
        <4>3. QED
          BY <2>1, <4>1, <4>2, StaysSettled
      <3>2. CASE ~Loads[d]
        BY <2>1, <2>5, <3>2 DEF FindNext, CardInv, Settled, Found, Handle
      <3>3. QED
        BY <3>1, <3>2
    <2>6. CASE FindNone(s) \/ InitFails(s) \/ Close(s)
      BY <2>1, <2>6, GoesTo, StaysSettled DEF FindNone, InitFails, Close, GoTo, Probed
    <2>7. CASE Destroy(s)
      BY <2>1, <2>7, GoesTo, StaysSettled DEF Destroy, GoTo, Probed
    <2>8. CASE CapsOk(s) \/ InitOk(s)
      <3>1. CASE CapsOk(s)
        BY <2>1, <3>1, GoesTo, StaysSettled DEF CapsOk, GoTo, Probed
      <3>2. CASE InitOk(s)
        BY <2>1, <3>2, GoesTo, StaysSettled DEF InitOk, GoTo, Probed
      <3>3. QED
        BY <2>8, <3>1, <3>2
    <2>9. CASE Fill(s)
      <3> DEFINE r == [stream[s] EXCEPT !.filled = TRUE,
                         !.at = IF Viable[Handle(s)] THEN "init" ELSE "destroy"]
      <3>1. r.handle = stream[s].handle /\ r.byName = stream[s].byName
        BY DEF IInv, Typed, StreamRecs
      <3>2. Set(s, r) /\ UNCHANGED <<card, kept>> /\ stream[s].at \in Probed
        BY <2>9 DEF Fill, Probed
      <3> HIDE DEF r
      <3>3. QED
        BY <2>1, <3>1, <3>2, StaysSettled
    <2>10. CASE ProbeFails(s) \/ CapsFail(s)
      BY <2>1, <2>10, RejectSettled DEF ProbeFails, CapsFail
    <2>11. CASE ProbeOk(s)
      BY <2>1, <2>11, ProbeSettled
    <2>12. CASE Unload(s)
      <3>1. NoStream.at \notin Probed
        BY DEF NoStream, Probed
      <3>2. CASE Handle(s) = NoDriver
        BY <2>1, <2>12, <3>1, <3>2, StaysSettled DEF Unload
      <3>3. CASE Handle(s) # NoDriver
        BY <2>1, <2>12, <3>1, <3>3, ClosedSettled DEF Unload
      <3>4. QED
        BY <3>2, <3>3
    <2>13. QED
      BY <2>2, <2>3, <2>4, <2>5, <2>6, <2>7, <2>8, <2>9, <2>10, <2>11, <2>12
  <1>3. QED
    BY <1>1, <1>2

\* The driver of an open stream drives a card it knows, or another one of its vendor when
\* it was named, remembers that card, and configures the formats it offers, if the program
\* opens no driver twice.
THEOREM CardCorrect ==
  ASSUME ~Sharing
  PROVE  Spec => []DriverFitsCard
  <1>1. Init => CardInv
    <2> SUFFICES ASSUME Init PROVE CardInv
      OBVIOUS
    <2>1. \A s \in Streams : stream[s].at \notin Probed
      BY DEF Init, NoStream, Probed
    <2>2. QED
      BY <2>1 DEF Init, CardInv
  <1>2. IInv /\ CardInv => DriverFitsCard
    <2> SUFFICES ASSUME IInv, CardInv, NEW s \in Streams, stream[s].at = "open"
                 PROVE  LET k == Kind[Handle(s)]
                        IN  /\ card[Handle(s)] # 0
                            /\ \/ Knows(k, CardOf(s))
                               \/ stream[s].byName /\ CardOf(s).vendor \in Vendors(k)
                            /\ k = "s3" => CardOf(s).io
                            /\ kept[Handle(s)] = Remember(k, Blank, CardOf(s).chip, machine.cr)
                            /\ ~Empty(s) => Offers(k, CardOf(s).chip, TRUE) \subseteq Configures(k)
      BY Zenon DEF DriverFitsCard
    <2> DEFINE k == Kind[Handle(s)]
               c == CardOf(s)
    <2>1. Settled(s) /\ machine \in Machines
      BY DEF CardInv, Probed
    <2>2. Handle(s) \in Drivers /\ stream[s].byName \in BOOLEAN
      BY DEF IInv, PathInv, Typed, StreamRecs, Handle
    <2>3. k \in AllKinds
      <3> HIDE DEF AllKinds
      <3> QED BY <2>2, DriverAssumption
    <2>4. /\ Probe(k, machine, stream[s].byName) # 0
          /\ c = machine.cards[Probe(k, machine, stream[s].byName)]
          /\ card[Handle(s)] = Probe(k, machine, stream[s].byName)
      BY <2>1 DEF Settled, Found, CardOf
    <2>5. /\ \/ Knows(k, c)
             \/ stream[s].byName /\ k \in Ati /\ c.vendor \in Vendors(k)
          /\ k = "s3" => c.io
          /\ AfterProbe(k, machine, stream[s].byName) = Remember(k, Blank, c.chip, machine.cr)
      <3> HIDE DEF k, c
      <3> QED BY <2>1, <2>2, <2>3, <2>4, ProbeFits
    <2>6. ~Empty(s) => Offers(k, c.chip, TRUE) \subseteq Configures(k)
      <3>1. ~Empty(s) => ~(k = "mga" /\ c.chip \in G200Chips)
        BY DEF Empty
      <3> HIDE DEF k, c
      <3> QED BY <2>3, <2>5, <3>1, FormatsFit
    <2>7. QED
      BY <2>1, <2>4, <2>5, <2>6 DEF Settled
  <1>3. Spec => []CardInv
    BY <1>1, CardInductive, Invariance, PTL DEF Spec
  <1>4. QED
    BY <1>2, <1>3, Invariance, PTL

=============================================================================
