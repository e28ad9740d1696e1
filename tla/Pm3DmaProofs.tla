---------------------------- MODULE Pm3DmaProofs ----------------------------
(***************************************************************************)
(* Theorems about Pm3Dma for a careful program, for any slots, sources and *)
(* number of transfers, while no signal ends a wait: translations may fail *)
(* and the interrupt may be refused.                                       *)
(*                                                                         *)
(* The inductive invariant says where the one transfer that may be under   *)
(* way is known, for each step of a call.                                  *)
(***************************************************************************)
EXTENDS Pm3Dma, TLAPS

USE NoneAssumption, ModeAssumption, BoundAssumption

TypedChannel ==
  /\ active \in [{Line} -> BOOLEAN] /\ pending \in [{Line} -> BOOLEAN]
  /\ seen \in [{Line} -> Nat] /\ taken \in [{Line} -> Nat]

Told == engine.busy \/ engine.flag \/ pending[Line]

\* The driver is up while its interrupt is enabled, and while the line is its own.
\* What is down has nothing under way.
UpInv ==
  /\ up = engine.enabled
  /\ active[Line] => up
  /\ ~up => ~engine.busy /\ ~engine.flag

\* Nothing or one transfer is owed, and one place knows of it.
CountInv ==
  active[Line] =>
    /\ owed \in {0, 1}
    /\ owed = 1 <=> Told
    /\ engine.busy => ~engine.flag /\ ~pending[Line]
    /\ engine.flag => ~pending[Line]

\* A call waits only for a transfer that is owed, and sets one going, or has a list
\* built that exists, only when none is.
CallInv ==
  active[Line] =>
    /\ At("setup") => (call.sync <=> owed = 1) /\ (call.fixed \/ owed = 0)
    /\ At("sync")  => call.sync /\ owed = 1
    /\ At("start") => owed = 0
    /\ At("block") => owed = 1

\* A list that is about to be used, or is in use, was built.
BuiltInv ==
  /\ call.at \in {"sync", "start", "block"} => internal[call.slot] # None
  /\ engine.busy => internal[engine.list] # None
  /\ ~At("none") => call.slot \in Slots /\ call.src \in Srcs

IInv == TypeOK /\ UpInv /\ CountInv /\ CallInv /\ BuiltInv

----------------------------------------------------------------------------
\* What the actions of the channel do to the one line.
LEMMA ChannelTypes ==
  ASSUME TypeOK
  PROVE  /\ active[Line] \in BOOLEAN /\ pending[Line] \in BOOLEAN
         /\ Channel!Prepare(Line)    => active' = active /\ ~active[Line] /\ TypedChannel'
         /\ Channel!Activate(Line)   => active'[Line] /\ ~pending'[Line] /\ TypedChannel'
         /\ Channel!Deactivate(Line) => ~active'[Line] /\ pending' = pending /\ TypedChannel'
         /\ Channel!Event(Line)      => /\ active[Line] /\ active' = active /\ pending'[Line]
                                        /\ TypedChannel'
         /\ Channel!Take(Line)       => /\ active' = active /\ pending[Line] /\ ~pending'[Line]
                                        /\ TypedChannel'
  <1> USE DEF TypeOK, TypedChannel
  <1>1. /\ active \in [{Line} -> BOOLEAN] /\ pending \in [{Line} -> BOOLEAN]
        /\ seen \in [{Line} -> Nat] /\ taken \in [{Line} -> Nat]
    OBVIOUS
  <1>2. active[Line] \in BOOLEAN /\ pending[Line] \in BOOLEAN /\ seen[Line] \in Nat /\ taken[Line] \in Nat
    BY <1>1
  <1>3. Channel!Prepare(Line)    => active' = active /\ ~active[Line] /\ TypedChannel'
    BY <1>1, <1>2 DEF Channel!Prepare
  <1>4. Channel!Activate(Line)   => active'[Line] /\ ~pending'[Line] /\ TypedChannel'
    BY <1>1, <1>2 DEF Channel!Activate
  <1>5. Channel!Deactivate(Line) => ~active'[Line] /\ pending' = pending /\ TypedChannel'
    BY <1>1, <1>2 DEF Channel!Deactivate
  <1>6. Channel!Event(Line)      => /\ active[Line] /\ active' = active /\ pending'[Line]
                                    /\ TypedChannel'
    BY <1>1, <1>2 DEF Channel!Event
  <1>7. Channel!Take(Line)       => /\ active' = active /\ pending[Line] /\ ~pending'[Line]
                                    /\ TypedChannel'
    BY <1>1, <1>2 DEF Channel!Take
  <1>8. QED
    BY <1>2, <1>3, <1>4, <1>5, <1>6, <1>7

\* The variables but for the channel.
TypedRest ==
  /\ up \in BOOLEAN /\ call \in Calls /\ internal \in [Slots -> Srcs \cup {None}]
  /\ freed \subseteq Slots /\ engine \in Engines /\ owed \in Nat
  /\ ~At("none") => up /\ call.slot # None
  /\ engine.busy <=> engine.list # None

LEMMA TypeParts == /\ TypeOK <=> TypedRest /\ TypedChannel
                   /\ TypeOK' <=> TypedRest' /\ TypedChannel'
  BY DEF TypeOK, TypedRest, TypedChannel

Labels == {"none", "setup", "sync", "start", "block"}

\* A call goes on.
LEMMA Goes ==
  ASSUME call \in Calls, NEW l \in Labels, GoTo(l)
  PROVE  /\ call' \in Calls /\ call'.at = l /\ call'.slot = call.slot /\ call'.src = call.src
         /\ call'.sync = call.sync /\ call'.block = call.block /\ call'.fixed = call.fixed
  BY DEF GoTo, Calls, Labels

LEMMA Rests == NoCall \in Calls /\ NoCall.at = "none"
  BY DEF NoCall, Calls

----------------------------------------------------------------------------
LEMMA InitHolds == Init => IInv
  <1> SUFFICES ASSUME Init PROVE IInv
    OBVIOUS
  <1>1. /\ active[Line] = FALSE /\ pending[Line] = FALSE /\ TypedChannel
    BY DEF Init, Channel!ChanInit, TypedChannel
  <1>2. TypedRest /\ At("none") /\ ~engine.busy /\ ~engine.flag
        /\ engine.enabled = FALSE /\ up = FALSE
    BY Rests DEF Init, TypedRest, At, Engines
  <1>3. QED
    BY <1>1, <1>2, TypeParts DEF IInv, UpInv, CountInv, CallInv, BuiltInv, At

LEMMA PrepareHolds == IInv /\ Prepare => IInv'
  <1> SUFFICES ASSUME IInv, Prepare PROVE IInv'
    OBVIOUS
  <1>1. /\ active' = active /\ ~active[Line] /\ TypedChannel'
        /\ UNCHANGED <<up, call, internal, freed, engine, owed>>
    BY ChannelTypes DEF Prepare, IInv
  <1>2. TypeOK'
    BY <1>1, TypeParts DEF IInv, TypedRest, At
  <1>3. UpInv' /\ CountInv' /\ CallInv'
    BY <1>1 DEF IInv, UpInv, CountInv, CallInv
  <1>4. BuiltInv'
    BY <1>1 DEF IInv, BuiltInv, At
  <1>5. QED
    BY <1>2, <1>3, <1>4 DEF IInv

LEMMA VixInitHolds == IInv /\ VixInit => IInv'
  <1> SUFFICES ASSUME IInv, VixInit PROVE IInv'
    OBVIOUS
  <1>1. /\ up' /\ ~up /\ owed' = 0 /\ UNCHANGED <<call, internal, freed>>
        /\ engine' = [engine EXCEPT !.enabled = TRUE]
    BY DEF VixInit
  <1>2. /\ active'[Line] => ~pending'[Line]
        /\ TypedChannel'
    <2>1. CASE Channel!Activate(Line)
      BY <2>1, ChannelTypes DEF IInv
    <2>2. CASE UNCHANGED channel
      BY <2>2, <1>1, ChannelTypes, TypeParts DEF IInv, UpInv, channel, TypedChannel
    <2>3. QED
      BY <2>1, <2>2 DEF VixInit
  <1>3. /\ engine' \in Engines /\ engine'.enabled /\ ~engine'.busy /\ ~engine'.flag
        /\ engine'.list = engine.list /\ ~engine.busy
    BY <1>1 DEF IInv, TypeOK, Engines, UpInv
  <1>4. At("none") /\ At("none")'
    BY <1>1 DEF IInv, TypeOK, At
  <1>5. TypeOK'
    BY <1>1, <1>2, <1>3, <1>4, TypeParts DEF IInv, TypedRest
  <1>6. UpInv' /\ CountInv'
    BY <1>1, <1>2, <1>3 DEF UpInv, CountInv, Told
  <1>7. CallInv' /\ BuiltInv'
    BY <1>3, <1>4 DEF CallInv, BuiltInv, At
  <1>8. QED
    BY <1>5, <1>6, <1>7 DEF IInv

LEMMA VixDestroyHolds == Careful /\ IInv /\ VixDestroy => IInv'
  <1> SUFFICES ASSUME Careful, IInv, VixDestroy PROVE IInv'
    OBVIOUS
  <1>1. /\ At("none") /\ At("none")' /\ up' = FALSE /\ ~engine.busy /\ ~engine.flag
        /\ UNCHANGED <<call, internal, freed, owed>>
        /\ engine' = [engine EXCEPT !.enabled = FALSE]
    BY DEF VixDestroy, Idle, At
  <1>2. ~active'[Line] /\ TypedChannel'
    <2>1. CASE active[Line]
      BY <2>1, ChannelTypes DEF VixDestroy, IInv
    <2>2. CASE ~active[Line]
      BY <2>2, TypeParts DEF VixDestroy, IInv, channel, TypedChannel
    <2>3. QED
      BY <2>1, <2>2
  <1>3. /\ engine' \in Engines /\ engine'.enabled = FALSE /\ ~engine'.busy /\ ~engine'.flag
        /\ engine'.list = engine.list
    BY <1>1 DEF IInv, TypeOK, Engines
  <1>4. TypeOK'
    BY <1>1, <1>2, <1>3, TypeParts DEF IInv, TypedRest
  <1>5. UpInv' /\ CountInv' /\ CallInv'
    BY <1>1, <1>2, <1>3 DEF UpInv, CountInv, CallInv
  <1>6. BuiltInv'
    BY <1>1, <1>3 DEF BuiltInv, At
  <1>7. QED
    BY <1>4, <1>5, <1>6 DEF IInv

LEMMA CopyFrameHolds ==
  ASSUME Careful, IInv, NEW slot \in Slots, NEW src \in Srcs, NEW sync \in BOOLEAN,
         NEW block \in BOOLEAN, NEW fixed \in BOOLEAN, CopyFrame(slot, src, sync, block, fixed)
  PROVE  IInv'
  <1>1. /\ up /\ (sync <=> owed > 0) /\ (fixed \/ owed = 0)
        /\ UNCHANGED <<up, internal, freed, engine, owed, channel>>
    BY DEF CopyFrame, Idle, May
  <1>2. /\ call' \in Calls /\ call'.at = "setup" /\ call'.slot = slot /\ call'.src = src
        /\ call'.sync = sync /\ call'.fixed = fixed
    BY DEF CopyFrame, Calls
  <1>3. TypeOK'
    BY <1>1, <1>2, TypeParts DEF IInv, TypedRest, TypedChannel, At, channel
  <1>4. UpInv' /\ CountInv'
    BY <1>1 DEF IInv, UpInv, CountInv, Told, channel
  <1>5. CallInv'
    <2>1. active[Line] => owed \in {0, 1}
      BY DEF IInv, CountInv
    <2>2. ~At("sync")' /\ ~At("start")' /\ ~At("block")'
      BY <1>2 DEF At
    <2>3. active[Line] => (call'.sync <=> owed = 1) /\ (call'.fixed \/ owed = 0)
      BY <1>1, <1>2, <2>1
    <2>4. QED
      BY <1>1, <2>2, <2>3 DEF CallInv, channel
  <1>6. BuiltInv'
    BY <1>1, <1>2 DEF IInv, BuiltInv, At
  <1>7. QED
    BY <1>3, <1>4, <1>5, <1>6 DEF IInv

\* A list is built, for a slot that had one only while no transfer is owed.
LEMMA SetupHolds == IInv /\ Setup => IInv'
  <1> SUFFICES ASSUME IInv, Setup PROVE IInv'
    OBVIOUS
  <1>1. At("setup") /\ GoTo(AfterSetup) /\ UNCHANGED <<up, freed, engine, owed, channel>>
    BY DEF Setup
  <1>2. /\ call \in Calls /\ call.slot \in Slots /\ call.src \in Srcs
        /\ internal \in [Slots -> Srcs \cup {None}]
    BY <1>1 DEF IInv, TypeOK, BuiltInv, At
  <1>3. AfterSetup \in {"sync", "start"}
    BY DEF AfterSetup
  <1>4. /\ call' \in Calls /\ call'.at = AfterSetup /\ call'.slot = call.slot
        /\ call'.src = call.src /\ call'.sync = call.sync /\ call'.fixed = call.fixed
    BY <1>1, <1>2, <1>3, Goes DEF Labels
  <1>5. /\ internal' \in [Slots -> Srcs \cup {None}] /\ internal'[call.slot] # None
        /\ \A s \in Slots : internal[s] # None => internal'[s] # None
    BY <1>2 DEF Setup, Reuse
  <1>6. TypeOK'
    BY <1>1, <1>2, <1>3, <1>4, <1>5, TypeParts DEF IInv, TypedRest, TypedChannel, At, channel
  <1>7. UpInv' /\ CountInv'
    BY <1>1 DEF IInv, UpInv, CountInv, Told, channel
  <1>8. CallInv'
    <2>1. call.sync \in BOOLEAN
      BY <1>2 DEF Calls
    <2>2. CASE active[Line]
      <3>1. (call.sync <=> owed = 1) /\ owed \in {0, 1}
        BY <2>2, <1>1 DEF IInv, CallInv, CountInv
      <3>2. AfterSetup = IF call.sync THEN "sync" ELSE "start"
        BY DEF AfterSetup
      <3>3. QED
        BY <1>1, <1>4, <3>1, <3>2 DEF CallInv, At
    <2>3. CASE ~active[Line]
      BY <2>3, <1>1 DEF CallInv, channel
    <2>4. QED
      BY <2>2, <2>3
  <1>9. BuiltInv'
    <2>1. engine.busy => engine.list \in Slots
      BY DEF IInv, TypeOK, Engines
    <2>2. QED
      BY <1>1, <1>2, <1>4, <1>5, <2>1 DEF IInv, BuiltInv, At
  <1>10. QED
    BY <1>6, <1>7, <1>8, <1>9 DEF IInv

LEMMA SetupFailsHolds == IInv /\ SetupFails => IInv'
  <1> SUFFICES ASSUME IInv, SetupFails PROVE IInv'
    OBVIOUS
  <1>1. At("setup") /\ call' = NoCall /\ UNCHANGED <<up, engine, owed, channel>>
    BY DEF SetupFails, Return
  <1>2. /\ call.slot \in Slots /\ call.src \in Srcs
        /\ internal \in [Slots -> Srcs \cup {None}] /\ freed \subseteq Slots
    BY <1>1 DEF IInv, TypeOK, BuiltInv, At
  <1>3. /\ internal' \in [Slots -> Srcs \cup {None}] /\ freed' \subseteq Slots
        /\ \A s \in Slots : internal[s] # None => internal'[s] # None
    BY <1>2 DEF SetupFails
  <1>4. call' \in Calls /\ At("none")'
    BY <1>1, Rests DEF At
  <1>5. TypeOK'
    BY <1>1, <1>3, <1>4, TypeParts DEF IInv, TypedRest, TypedChannel, channel
  <1>6. UpInv' /\ CountInv'
    BY <1>1 DEF IInv, UpInv, CountInv, Told, channel
  <1>7. CallInv'
    BY <1>4 DEF CallInv, At
  <1>8. BuiltInv'
    <2>1. engine.busy => engine.list \in Slots
      BY DEF IInv, TypeOK, Engines
    <2>2. QED
      BY <1>1, <1>3, <1>4, <2>1 DEF IInv, BuiltInv, At
  <1>9. QED
    BY <1>5, <1>6, <1>7, <1>8 DEF IInv

\* Who waits on a line of his own waits until the event of the transfer he owes.
LEMMA WaitTakes ==
  ASSUME "signal" \notin Faults, IInv, Wait
  PROVE  /\ UNCHANGED <<up, internal, freed, engine>> /\ owed' \in Nat
         /\ TypedChannel' /\ active' = active
         /\ active[Line] => pending[Line] /\ ~pending'[Line] /\ owed = 1 /\ owed' = 0
  <1>1. UNCHANGED <<up, internal, freed, engine>> /\ owed \in Nat
    BY DEF Wait, IInv, TypeOK
  <1>2. CASE Channel!Take(Line) /\ owed' = IF owed > 0 THEN owed - 1 ELSE 0
    <2>1. active' = active /\ pending[Line] /\ ~pending'[Line] /\ TypedChannel'
      BY <1>2, ChannelTypes DEF IInv
    <2>2. active[Line] => owed = 1
      BY <2>1 DEF IInv, CountInv, Told
    <2>3. QED
      BY <1>1, <1>2, <2>1, <2>2
  <1>3. CASE ~active[Line] /\ UNCHANGED <<owed, channel>>
    BY <1>1, <1>3, TypeParts DEF IInv, TypedChannel, channel
  <1>4. QED
    BY <1>2, <1>3 DEF Wait

LEMMA WaitHolds ==
  ASSUME "signal" \notin Faults, IInv, Wait, NEW l \in {"start", "none"},
         call.at \in {"sync", "block"}, call' \in Calls, At(l)',
         l = "start" => call'.slot = call.slot /\ call'.src = call.src
  PROVE  IInv'
  <1>1. /\ UNCHANGED <<up, internal, freed, engine>> /\ owed' \in Nat
        /\ TypedChannel' /\ active' = active
        /\ active[Line] => pending[Line] /\ ~pending'[Line] /\ owed = 1 /\ owed' = 0
    BY WaitTakes
  <1>2. up /\ call.slot \in Slots /\ call.src \in Srcs /\ internal[call.slot] # None
    BY DEF IInv, TypeOK, BuiltInv, At
  <1>3. TypeOK'
    BY <1>1, <1>2, TypeParts DEF IInv, TypedRest, At
  <1>4. UpInv'
    BY <1>1 DEF IInv, UpInv
  <1>5. CountInv'
    BY <1>1 DEF IInv, CountInv, Told
  <1>6. CallInv' /\ BuiltInv'
    BY <1>1, <1>2 DEF IInv, CallInv, BuiltInv, At
  <1>7. QED
    BY <1>3, <1>4, <1>5, <1>6 DEF IInv

LEMMA SyncHolds ==
  ASSUME "signal" \notin Faults, IInv, Sync
  PROVE  IInv'
  <1>1. At("sync") /\ Wait /\ GoTo("start") /\ call \in Calls
    BY DEF Sync, IInv, TypeOK
  <1>2. call' \in Calls /\ At("start")' /\ call'.slot = call.slot /\ call'.src = call.src
    BY <1>1, Goes DEF Labels, At
  <1>3. QED
    BY <1>1, <1>2, WaitHolds DEF At

LEMMA BlockHolds ==
  ASSUME "signal" \notin Faults, IInv, Block
  PROVE  IInv'
  <1>1. At("block") /\ Wait /\ call' = NoCall
    BY DEF Block, Return
  <1>2. call' \in Calls /\ At("none")'
    BY <1>1, Rests DEF At
  <1>3. QED
    BY <1>1, <1>2, WaitHolds DEF At

LEMMA StartHolds == IInv /\ Start => IInv'
  <1> SUFFICES ASSUME IInv, Start PROVE IInv'
    OBVIOUS
  <1>1. /\ At("start") /\ owed' = owed + 1 /\ owed \in Nat
        /\ engine' = [engine EXCEPT !.busy = TRUE, !.list = call.slot]
        /\ UNCHANGED <<up, internal, freed, channel>>
    BY DEF Start, IInv, TypeOK
  <1>2. up /\ call.slot \in Slots /\ call.src \in Srcs /\ internal[call.slot] # None
    BY <1>1 DEF IInv, TypeOK, BuiltInv, At
  <1>3. /\ engine' \in Engines /\ engine'.busy /\ engine'.list = call.slot
        /\ engine'.enabled = engine.enabled /\ engine'.flag = engine.flag
    BY <1>1, <1>2 DEF IInv, TypeOK, Engines
  <1>4. /\ call' \in Calls /\ call'.at \in {"none", "block"}
        /\ At("block")' => call'.slot = call.slot /\ call'.src = call.src
    <2>1. CASE GoTo("block")
      BY <2>1, Goes DEF Labels, IInv, TypeOK
    <2>2. CASE call' = NoCall
      BY <2>2, Rests DEF At
    <2>3. QED
      BY <2>1, <2>2 DEF Start, Return
  <1>5. TypeOK'
    BY <1>1, <1>2, <1>3, <1>4, TypeParts DEF IInv, TypedRest, TypedChannel, At, channel
  <1>6. UpInv'
    BY <1>1, <1>2, <1>3 DEF IInv, UpInv, channel
  <1>7. active[Line] => owed = 0 /\ ~Told
    BY <1>1 DEF IInv, CallInv, CountInv
  <1>8. CountInv' /\ CallInv'
    BY <1>1, <1>3, <1>4, <1>7 DEF CountInv, CallInv, Told, At, channel
  <1>9. BuiltInv'
    BY <1>1, <1>2, <1>3, <1>4 DEF BuiltInv, At
  <1>10. QED
    BY <1>5, <1>6, <1>8, <1>9 DEF IInv

LEMMA CompleteHolds == IInv /\ Complete => IInv'
  <1> SUFFICES ASSUME IInv, Complete PROVE IInv'
    OBVIOUS
  <1>1. /\ engine.busy /\ engine \in Engines
        /\ UNCHANGED <<up, call, internal, freed, owed, channel>>
    BY DEF Complete, IInv, TypeOK
  <1>2. PICK flag \in {engine.flag, TRUE} :
          /\ engine.enabled => flag
          /\ engine' = [engine EXCEPT !.busy = FALSE, !.list = None, !.flag = flag]
    BY DEF Complete
  <1>3. /\ engine' \in Engines /\ ~engine'.busy /\ engine'.list = None
        /\ engine'.enabled = engine.enabled /\ (engine.enabled => engine'.flag)
    BY <1>1, <1>2 DEF Engines
  <1>4. engine.enabled
    BY <1>1 DEF IInv, UpInv
  <1>5. TypeOK'
    BY <1>1, <1>3, TypeParts DEF IInv, TypedRest, TypedChannel, At, channel
  <1>6. UpInv' /\ BuiltInv'
    BY <1>1, <1>3, <1>4 DEF IInv, UpInv, BuiltInv, At, channel
  <1>7. CountInv' /\ CallInv'
    BY <1>1, <1>3, <1>4 DEF IInv, CountInv, CallInv, Told, At, channel
  <1>8. QED
    BY <1>5, <1>6, <1>7 DEF IInv

LEMMA InterruptHolds == IInv /\ Interrupt => IInv'
  <1> SUFFICES ASSUME IInv, Interrupt PROVE IInv'
    OBVIOUS
  <1>1. /\ engine.flag /\ engine.enabled /\ engine \in Engines
        /\ engine' = [engine EXCEPT !.flag = FALSE]
        /\ UNCHANGED <<up, call, internal, freed, owed>>
    BY DEF Interrupt, IInv, TypeOK
  <1>2. active[Line] /\ active' = active /\ pending'[Line] /\ TypedChannel'
    BY ChannelTypes DEF Interrupt, IInv
  <1>3. /\ engine' \in Engines /\ engine'.busy = engine.busy /\ engine'.list = engine.list
        /\ engine'.enabled = engine.enabled /\ ~engine'.flag
    BY <1>1 DEF Engines
  <1>4. TypeOK'
    BY <1>1, <1>2, <1>3, TypeParts DEF IInv, TypedRest, At
  <1>5. UpInv' /\ BuiltInv'
    BY <1>1, <1>2, <1>3 DEF IInv, UpInv, BuiltInv, At
  <1>6. CountInv' /\ CallInv'
    BY <1>1, <1>2, <1>3 DEF IInv, CountInv, CallInv, Told, At
  <1>7. QED
    BY <1>4, <1>5, <1>6 DEF IInv

----------------------------------------------------------------------------
LEMMA Inductive ==
  ASSUME Careful, "signal" \notin Faults
  PROVE  IInv /\ [Next]_vars => IInv'
  <1> SUFFICES ASSUME IInv, [Next]_vars PROVE IInv'
    OBVIOUS
  <1>1. CASE UNCHANGED vars
    BY <1>1 DEF vars, channel, IInv, TypeOK, UpInv, CountInv, CallInv, BuiltInv, Told, At
  <1>2. CASE Prepare \/ VixInit \/ VixDestroy
    BY <1>2, PrepareHolds, VixInitHolds, VixDestroyHolds
  <1>3. CASE \E slot \in Slots, src \in Srcs, sync, block, fixed \in BOOLEAN :
               CopyFrame(slot, src, sync, block, fixed)
    BY <1>3, CopyFrameHolds
  <1>4. CASE Driver
    BY <1>4, SetupHolds, SetupFailsHolds, SyncHolds, StartHolds, BlockHolds DEF Driver
  <1>5. CASE Card
    BY <1>5, CompleteHolds, InterruptHolds DEF Card
  <1>6. QED
    BY <1>1, <1>2, <1>3, <1>4, <1>5 DEF Next

LEMMA Invariance ==
  ASSUME Careful, "signal" \notin Faults
  PROVE  Spec => []IInv
  <1>1. IInv /\ [Next]_vars => IInv'
    BY Inductive
  <1>2. QED
    BY <1>1, InitHolds, PTL DEF Spec

\* Of each transfer nobody waited for exactly one of the engine, the interrupt flag and
\* the helper knows, as long as the program asks for every transfer once: no event is
\* taken for a transfer it does not belong to, and none is left over.
THEOREM OwedCorrect ==
  ASSUME Careful, "signal" \notin Faults
  PROVE  Spec => []OwedOnce
  <1>1. IInv => OwedOnce
    <2> SUFFICES ASSUME IInv, up, active[Line]
                 PROVE  owed = (IF engine.busy THEN 1 ELSE 0) + (IF engine.flag THEN 1 ELSE 0)
                                 + (IF pending[Line] THEN 1 ELSE 0)
      BY DEF OwedOnce
    <2>1. owed \in {0, 1} /\ (owed = 1 <=> Told)
          /\ (engine.busy => ~engine.flag /\ ~pending[Line]) /\ (engine.flag => ~pending[Line])
      BY DEF IInv, CountInv
    <2>2. QED
      BY <2>1 DEF Told
  <1>2. QED
    BY <1>1, Invariance, PTL

\* BM_DMA_SYNC and BM_DMA_BLOCK of vixPlaybackCopyFrame do what vidix_enums.h says of
\* them for such a program.
THEOREM FlagsCorrect ==
  ASSUME Careful, "signal" \notin Faults
  PROVE  Spec => FlagsHonoured
  <1>1. ASSUME IInv, [Next]_vars, active[Line]
        PROVE  /\ Start /\ call.sync => ~engine.busy
               /\ At("block") /\ call' = NoCall => ~engine.busy
    <2>1. Start => ~engine.busy
      BY <1>1 DEF Start, IInv, CallInv, CountInv, Told
    <2>2. ASSUME At("block"), call' = NoCall
          PROVE  ~engine.busy
      <3>1. call.at = "block" /\ call'.at = "none" /\ call \in Calls
        BY <1>1, <2>2, Rests DEF At, IInv, TypeOK
      <3>2. Block
        BY <1>1, <3>1 DEF Next, vars, Prepare, VixInit, VixDestroy, Idle, CopyFrame, Driver, Card,
             Setup, SetupFails, Sync, Start, Complete, Interrupt, At
      <3>3. pending[Line]
        BY <1>1, <3>2, WaitTakes DEF Block
      <3>4. QED
        BY <1>1, <3>3 DEF IInv, CountInv
    <2>3. QED
      BY <2>1, <2>2
  <1>2. IInv /\ [Next]_vars => [active[Line] =>
                                  /\ Start /\ call.sync => ~engine.busy
                                  /\ At("block") /\ call' = NoCall => ~engine.busy]_vars
    BY <1>1
  <1>3. QED
    BY <1>2, Invariance, PTL DEF Spec, FlagsHonoured

\* The list that the engine reads is left alone, although lists are built before the
\* previous transfer is awaited.
THEOREM ListCorrect ==
  ASSUME Careful, "signal" \notin Faults
  PROVE  Spec => ListStable
  <1> DEFINE Stable == active[Line] /\ engine.busy /\ engine'.busy /\ engine'.list = engine.list =>
                         /\ internal'[engine.list] = internal[engine.list]
                         /\ engine.list \in freed' => engine.list \in freed
  <1>1. ASSUME IInv, [Next]_vars
        PROVE  Stable
    <2>1. CASE UNCHANGED <<internal, freed>>
      BY <2>1
    <2>2. CASE Setup \/ SetupFails
      <3> SUFFICES ASSUME active[Line], engine.busy
                   PROVE  /\ internal'[engine.list] = internal[engine.list]
                          /\ engine.list \in freed' => engine.list \in freed
        OBVIOUS
      <3>1. /\ At("setup") /\ call.fixed
            /\ call.slot \in Slots /\ engine.list \in Slots /\ internal[engine.list] # None
            /\ internal \in [Slots -> Srcs \cup {None}] /\ freed \subseteq Slots
        BY <1>1, <2>2 DEF Setup, SetupFails, IInv, TypeOK, Engines, CallInv, CountInv, BuiltInv, Told, At
      <3>2. CASE call.slot = engine.list
        BY <2>2, <3>1, <3>2 DEF Setup, SetupFails, Reuse
      <3>3. CASE call.slot # engine.list
        BY <2>2, <3>1, <3>3 DEF Setup, SetupFails
      <3>4. QED
        BY <3>2, <3>3
    <2>3. QED
      BY <1>1, <2>1, <2>2 DEF Next, vars, Prepare, VixInit, VixDestroy, CopyFrame, Driver, Card,
           Sync, Start, Block, Wait, Complete, Interrupt
  <1>2. IInv /\ [Next]_vars => [Stable]_vars
    BY <1>1
  <1>3. QED
    BY <1>2, Invariance, PTL DEF Spec, ListStable
=============================================================================
