------------------------- MODULE PlayerBridgeProofs -------------------------
(***************************************************************************)
(* Proofs about PlayerBridge, for any number of Java threads, players,     *)
(* windows and handles: the types, what a returned release means, and that *)
(* every window has one owner.                                             *)
(***************************************************************************)
EXTENDS PlayerBridge, TLAPS

USE DEF Becomes, Move, Free, registry, engine, player, Idle, Taken, Calls

(* The actions, one disjunct each. *)
Step(t) ==
    \/ \E w \in Windows : Register(t, w)
    \/ \E h \in 1 .. MaxHandle : Discard(t, h)
    \/ BeginNew(t)
    \/ \E p \in Players, op \in {"using", "releasing"} : Begin(t, p, op)
    \/ \E p \in Players : Forget(t, p)
    \/ Proceed(t)

LEMMA NextIsStep ==
    [Next]_vars => \/ \E t \in Threads : Step(t)
                   \/ \E p \in Players : ThreadsEnd(p)
                   \/ UNCHANGED vars
  BY DEF Next, Step

(* A window and a player are no thread's "nothing". *)
LEMMA InitType == Init => TypeOK
  BY MaxHandleAssumption DEF Init, TypeOK

(* The first handles are those that were issued. *)
LEMMA RegisterType ==
    ASSUME TypeOK, NEW t \in Threads, NEW w \in Windows, Register(t, w)
    PROVE  TypeOK'
<1>1. CASE nextHandle < MaxHandle
  <2> DEFINE T == [h \in DOMAIN table \cup {nextHandle} |-> IF h = nextHandle THEN w ELSE table[h]]
  <2>1. table' = T /\ nextHandle' = nextHandle + 1 /\ freed' = freed
        /\ told' = [told EXCEPT ![w] = nextHandle]
    BY <1>1 DEF Register, IssuedHandle
  <2>2. DOMAIN T \subseteq 1 .. nextHandle /\ T \in [DOMAIN T -> Windows]
    BY MaxHandleAssumption DEF TypeOK
  <2>3. nextHandle' \in 1 .. MaxHandle /\ nextHandle' - 1 = nextHandle
        /\ told' \in [Windows -> 0 .. MaxHandle]
    <3> HIDE DEF Calls, Idle
    <3> QED
      BY <1>1, <2>1, MaxHandleAssumption DEF TypeOK
  <2> QED
    BY <2>1, <2>2, <2>3 DEF TypeOK, Register
<1>2. CASE ~(nextHandle < MaxHandle)
  BY <1>2 DEF TypeOK, Register
<1> QED
  BY <1>1, <1>2

(* A handle that is taken leaves the rest of the table as it is. *)
LEMMA TakeType ==
    ASSUME TypeOK, NEW h \in DOMAIN table, TakeHandle(h)
    PROVE  /\ DOMAIN table' = DOMAIN table \ {h}
           /\ table' \in [DOMAIN table' -> Windows]
           /\ \A i \in DOMAIN table' : table'[i] = table[i]
           /\ table[h] \in Windows
  BY DEF TypeOK, TakeHandle, Restrict

(* What a call becomes is a call. *)
LEMMA CallType ==
    ASSUME TypeOK, NEW t \in Threads, NEW c \in Calls, Becomes(t, c)
    PROVE  call' \in [Threads -> Calls]
  BY DEF TypeOK

(* A call that ends leaves its thread idle or in a drop. *)
LEMMA FinishType ==
    ASSUME TypeOK, NEW t \in Threads, NEW p \in Players, Finish(t, p)
    PROVE  /\ call' \in [Threads -> Calls]
           /\ slot' \in [Players -> BOOLEAN]
           /\ phase' \in [Players -> {"absent", "creating", "open", "closing", "closed",
                                      "refusing", "refused"}]
<1>1. Idle \in Calls /\ [Idle EXCEPT !.op = "dropping", !.player = p] \in Calls
  OBVIOUS
<1>2. call' \in [Threads -> Calls]
  BY <1>1, CallType DEF Finish
<1> QED
  BY <1>2 DEF TypeOK, Finish

LEMMA NextType == TypeOK /\ [Next]_vars => TypeOK'
<1> SUFFICES ASSUME TypeOK, [Next]_vars PROVE TypeOK'
  OBVIOUS
<1>1. ASSUME NEW t \in Threads, Step(t) PROVE TypeOK'
  <2>1. ASSUME NEW w \in Windows, Register(t, w) PROVE TypeOK'
    BY <2>1, RegisterType
  <2>2. ASSUME NEW h \in 1 .. MaxHandle, Discard(t, h) PROVE TypeOK'
    <3>1. h \in DOMAIN table /\ TakeHandle(h)
      BY <2>2 DEF Discard
    <3>2. /\ DOMAIN table' = DOMAIN table \ {h} /\ table' \in [DOMAIN table' -> Windows]
          /\ table[h] \in Windows
      BY <3>1, TakeType
    <3> QED
      BY <2>2, <3>2 DEF TypeOK, Discard
  <2>3. CASE BeginNew(t)
    <3>1. CASE call' = [call EXCEPT ![t] = Taken(NoWindow)] /\ table' = table
      BY <2>3, <3>1 DEF TypeOK, BeginNew
    <3>2. ASSUME NEW h \in DOMAIN table, TakeHandle(h),
                 call' = [call EXCEPT ![t] = Taken(table[h])]
          PROVE  TypeOK'
      <4>1. /\ DOMAIN table' = DOMAIN table \ {h} /\ table' \in [DOMAIN table' -> Windows]
            /\ table[h] \in Windows
        BY <3>2, TakeType
      <4> QED
        BY <2>3, <3>2, <4>1 DEF TypeOK, BeginNew
    <3> QED
      BY <2>3, <3>1, <3>2 DEF BeginNew
  <2>4. ASSUME NEW p \in Players, NEW op \in {"using", "releasing"}, Begin(t, p, op) PROVE TypeOK'
    BY <2>4 DEF TypeOK, Begin
  <2>5. ASSUME NEW p \in Players, Forget(t, p) PROVE TypeOK'
    <3>1. call' \in [Threads -> Calls] /\ held' \in [Players -> BOOLEAN]
      <4>1. [Idle EXCEPT !.op = "dropping", !.player = p] \in Calls
        OBVIOUS
      <4> HIDE DEF Calls, Idle
      <4> QED
        BY <2>5, <4>1, CallType DEF TypeOK, Forget
    <3>2. slot' \in [Players -> BOOLEAN]
          /\ phase' \in [Players -> {"absent", "creating", "open", "closing", "closed",
                                     "refusing", "refused"}]
      BY <2>5 DEF TypeOK, Forget
    <3> QED
      BY <2>5, <3>1, <3>2 DEF TypeOK, Forget
  <2> DEFINE p == call[t].player
  <2>0. /\ call[t] \in Calls
        /\ call[t].op \notin {"idle", "taken"} => p \in Players
        /\ call[t].window \in Windows \cup {NoWindow}
    BY DEF TypeOK
  <2>6. CASE SourceFails(t)
    BY <2>6, <2>0 DEF TypeOK, SourceFails, Abandon
  <2>7. CASE CreateEngine(t)
    <3>1. PICK q \in Players : /\ phase' = [phase EXCEPT ![q] = "creating"]
                               /\ threads' = [threads EXCEPT ![q] = TRUE]
                               /\ output' = [output EXCEPT ![q] = call[t].window]
                               /\ call' = [call EXCEPT ![t] = [Idle EXCEPT !.op = "creating",
                                                                         !.player = q]]
      BY <2>7 DEF CreateEngine
    <3>2. [Idle EXCEPT !.op = "creating", !.player = q] \in Calls
      OBVIOUS
    <3>3. call' \in [Threads -> Calls]
      BY <3>1, <3>2 DEF TypeOK
    <3>4. output' \in [Players -> Windows \cup {NoWindow}] /\ threads' \in [Players -> BOOLEAN]
      BY <3>1, <2>0 DEF TypeOK
    <3> QED
      BY <2>7, <3>1, <3>3, <3>4 DEF TypeOK, CreateEngine
  <2>8. CASE EngineOpens(t)
    <3>1. Idle \in Calls
      OBVIOUS
    <3>2. /\ call' = [call EXCEPT ![t] = Idle]
          /\ phase' = [phase EXCEPT ![p] = "open"] /\ slot' = [slot EXCEPT ![p] = TRUE]
          /\ held' = [held EXCEPT ![p] = TRUE]
          /\ UNCHANGED <<registry, freed, threads, output, lock, released>>
      BY <2>8 DEF EngineOpens
    <3>3. call' \in [Threads -> Calls]
      BY <3>1, <3>2 DEF TypeOK
    <3> HIDE DEF p, Calls, Idle
    <3> QED
      BY <3>2, <3>3 DEF TypeOK
  <2>9. CASE EngineRefused(t)
    <3>1. Idle \in Calls
      OBVIOUS
    <3>2. call' \in [Threads -> Calls]
      BY <2>9, <3>1, CallType DEF TypeOK, EngineRefused
    <3>3. output' \in [Players -> Windows \cup {NoWindow}] /\ freed' \subseteq Windows
          /\ UNCHANGED <<registry, threads, player>>
      BY <2>9, <2>0 DEF TypeOK, EngineRefused, RefusedFactory
    <3>4. phase' \in [Players -> {"absent", "creating", "open", "closing", "closed",
                                  "refusing", "refused"}]
      BY <2>9 DEF TypeOK, EngineRefused
    <3> HIDE DEF p, Calls, Idle
    <3> QED
      BY <3>2, <3>3, <3>4 DEF TypeOK
  <2>10. CASE Use(t)
    <3>1. /\ Finish(t, p) /\ p \in Players
          /\ UNCHANGED <<registry, freed, threads, output, lock, held, released>>
      BY <2>10, <2>0 DEF Use
    <3> HIDE DEF p, Calls, Idle
    <3> QED
      BY <3>1, FinishType DEF TypeOK
  <2>11. CASE Release(t)
    <3>1. CASE slot[p]
      <4>1. [call[t] EXCEPT !.op = "joining"] \in Calls
        BY <2>11, <2>0 DEF Release
      <4>2. /\ call' = [call EXCEPT ![t] = [call[t] EXCEPT !.op = "joining"]]
            /\ slot' = [slot EXCEPT ![p] = FALSE] /\ lock' = [lock EXCEPT ![p] = t]
            /\ phase' = [phase EXCEPT ![p] = "closing"]
            /\ UNCHANGED <<registry, freed, threads, output, held, released>>
        BY <2>11, <3>1 DEF Release, LockForRelease
      <4>3. call' \in [Threads -> Calls]
        BY <4>1, <4>2, CallType
      <4> HIDE DEF p, Calls, Idle
      <4> QED
        BY <4>2, <4>3 DEF TypeOK
    <3>2. CASE ~slot[p]
      <4>1. /\ Finish(t, p) /\ released' = released \cup {p}
            /\ UNCHANGED <<registry, freed, threads, output, lock, held>>
        BY <2>11, <3>2 DEF Release
      <4>2. p \in Players
        BY <2>11, <2>0 DEF Release
      <4> HIDE DEF p, Calls, Idle
      <4> QED
        BY <4>1, <4>2, FinishType DEF TypeOK
    <3> QED
      BY <3>1, <3>2
  <2>12. CASE ReleaseReturns(t)
    BY <2>12, <2>0 DEF TypeOK, ReleaseReturns, Unlocked
  <2>13. CASE DropReturns(t)
    BY <2>13, <2>0 DEF TypeOK, DropReturns, player
  <2> QED
    BY <1>1, <2>1, <2>2, <2>3, <2>4, <2>5, <2>6, <2>7, <2>8, <2>9, <2>10, <2>11, <2>12, <2>13
       DEF Step, Proceed
<1>2. ASSUME NEW p \in Players, ThreadsEnd(p) PROVE TypeOK'
  BY <1>2 DEF TypeOK, ThreadsEnd
<1>3. CASE UNCHANGED vars
  BY <1>3 DEF TypeOK, vars
<1> QED
  BY <1>1, <1>2, <1>3, NextIsStep

(* Every handle, window, player and call stays in its type, for every number of them. *)
THEOREM TypeCorrect == Spec => []TypeOK
<1>1. Init => TypeOK
  BY InitType
<1>2. TypeOK /\ [Next]_vars => TypeOK'
  BY NextType
<1> QED
  BY <1>1, <1>2, PTL DEF Spec

-----------------------------------------------------------------------------
(***************************************************************************)
(* Engines and calls.  The phase of an engine tells which calls there can  *)
(* be on its player, and which there must be: somebody creates it, somebody*)
(* shuts it down, and who does so in a release has the mutex, who does so  *)
(* in a drop is alone.                                                     *)
(***************************************************************************)
On(t, p, op) == call[t].player = p /\ call[t].op = op

CallFits(t) ==
    LET p == call[t].player IN
    /\ call[t].op = "creating" => phase[p] \in {"creating", "refusing"}
    /\ call[t].op \in {"using", "releasing"} => phase[p] \in {"open", "closing", "closed"}
    /\ call[t].op \in {"joining", "dropping"} => phase[p] = "closing"
    /\ call[t].op = "joining" => lock[p] = t
    /\ call[t].op \in {"creating", "dropping"} =>
          ~held[p] /\ \A u \in Threads : call[u].player = p => u = t

PlayerFits(p) ==
    /\ slot[p] <=> phase[p] = "open"
    /\ lock[p] # NoThread => On(lock[p], p, "joining")
    /\ held[p] => phase[p] \in {"open", "closing", "closed"}
    /\ phase[p] = "closing" => \E t \in Threads : On(t, p, "joining") \/ On(t, p, "dropping")
    /\ phase[p] \in {"creating", "refusing"} => \E t \in Threads : On(t, p, "creating")
    /\ phase[p] = "open" /\ ~held[p] => \E t \in Threads : call[t].player = p
    /\ p \in released => phase[p] = "closed"

EngineFits(p) ==
    /\ phase[p] \in {"absent", "closed", "refused"} => ~threads[p]
    /\ ~threads[p] \/ phase[p] = "refusing" => output[p] = NoWindow

EngineInv ==
    /\ \A t \in Threads : CallFits(t)
    /\ \A p \in Players : PlayerFits(p) /\ EngineFits(p)

(* The invariant says what a returned release, and a lost reference, mean. *)
LEMMA EngineInvImplies == TypeOK /\ EngineInv => ReleasedIsOver
<1> SUFFICES ASSUME TypeOK, EngineInv, NEW p \in Players, p \in released \/ Unreachable(p)
             PROVE  IsOver(p)
  BY DEF ReleasedIsOver
<1>1. PlayerFits(p) /\ EngineFits(p)
  BY DEF EngineInv
<1>2. phase[p] \in {"absent", "closed", "refused"}
  <2>1. CASE p \in released
    BY <1>1, <2>1 DEF PlayerFits
  <2>2. CASE Unreachable(p)
    BY <1>1, <2>2 DEF PlayerFits, Unreachable, On, TypeOK
  <2> QED
    BY <2>1, <2>2
<1> QED
  BY <1>1, <1>2 DEF PlayerFits, EngineFits, IsOver

(* What a thread's state says about the player it names. *)
LEMMA CallNames ==
    ASSUME TypeOK, NEW t \in Threads
    PROVE  /\ call[t].op \in {"idle", "taken"} => call[t].player = NoPlayer
           /\ call[t].op \notin {"idle", "taken"} =>
                 call[t].player \in Players /\ call[t].window = NoWindow
           /\ call[t].player \in Players => call[t].op \notin {"idle", "taken"}
           /\ call[t].op = "idle" => call[t] = Idle
           /\ call[t].op \in {"idle", "taken", "creating", "using", "releasing", "joining", "dropping"}
           /\ call[t].window \in Windows \cup {NoWindow}
  BY NamesAssumption DEF TypeOK

HIDE DEF Calls

(* A step that touches neither an engine nor a player nor a call on one. *)
SameCalls ==
    \A u \in Threads :
        /\ call'[u].player = call[u].player
        /\ \/ call'[u].op = call[u].op
           \/ call[u].op \in {"idle", "taken"} /\ call'[u].op \in {"idle", "taken"}

LEMMA QuietStep ==
    ASSUME TypeOK, EngineInv, SameCalls, UNCHANGED <<engine, player>>
    PROVE  EngineInv'
<1>1. \A u \in Threads : call'[u].player = call[u].player
  BY DEF SameCalls
<1>2. ASSUME NEW u \in Threads PROVE CallFits(u)'
  BY <1>1 DEF EngineInv, CallFits, SameCalls
<1>3. ASSUME NEW p \in Players PROVE PlayerFits(p)'
  <2>1. PlayerFits(p)
    BY DEF EngineInv
  <2>2. \A u \in Threads, op \in {"creating", "joining", "dropping"} : On(u, p, op)' <=> On(u, p, op)
    BY DEF On, SameCalls
  <2>3. lock[p] \in Threads \cup {NoThread}
    BY DEF TypeOK
  <2> QED
    BY <1>1, <2>1, <2>2, <2>3 DEF PlayerFits
<1>4. ASSUME NEW p \in Players PROVE EngineFits(p)'
  BY <1>4 DEF EngineInv, EngineFits
<1> QED
  BY <1>2, <1>3, <1>4 DEF EngineInv

LEMMA CreateFits ==
    ASSUME TypeOK, EngineInv, NEW t \in Threads, CreateEngine(t)
    PROVE  EngineInv'
<1>1. PICK p \in Players : /\ phase[p] = "absent"
                           /\ phase' = [phase EXCEPT ![p] = "creating"]
                           /\ threads' = [threads EXCEPT ![p] = TRUE]
                           /\ output' = [output EXCEPT ![p] = call[t].window]
                           /\ call' = [call EXCEPT ![t] = [Idle EXCEPT !.op = "creating",
                                                                     !.player = p]]
                           /\ UNCHANGED player
  BY DEF CreateEngine
<1>2. \A u \in Threads : call[u].player # p
  BY <1>1, CallNames DEF EngineInv, CallFits
<1>3. ~held[p] /\ call[t].op = "taken"
  BY <1>1 DEF EngineInv, PlayerFits, CreateEngine, TypeOK
<1>4. call'[t].player = p /\ call'[t].op = "creating"
      /\ \A u \in Threads \ {t} : call'[u] = call[u]
  BY <1>1 DEF TypeOK
<1>5. \A q \in Players \ {p} : phase'[q] = phase[q] /\ threads'[q] = threads[q] /\ output'[q] = output[q]
  BY <1>1 DEF TypeOK
<1>6. phase'[p] = "creating" /\ threads'[p] = TRUE
  BY <1>1 DEF TypeOK
<1>7. ASSUME NEW u \in Threads PROVE CallFits(u)'
  <2>1. CASE u = t
    BY <1>1, <1>2, <1>3, <1>4, <1>6, <2>1 DEF CallFits
  <2>2. CASE u # t
    BY <1>1, <1>2, <1>3, <1>4, <1>5, <2>2, CallNames DEF EngineInv, CallFits
  <2> QED
    BY <2>1, <2>2
<1>8. ASSUME NEW q \in Players PROVE PlayerFits(q)'
  <2>1. PlayerFits(q) /\ lock[q] \in Threads \cup {NoThread}
    BY DEF EngineInv, TypeOK
  <2>2. CASE q = p
    BY <1>1, <1>2, <1>3, <1>4, <1>6, <2>1, <2>2 DEF PlayerFits, On
  <2>3. CASE q # p
    <3>1. call[t].player = NoPlayer
      BY <1>3, CallNames
    <3>2. \A u \in Threads, op \in {"creating", "joining", "dropping"} : On(u, q, op)' <=> On(u, q, op)
      BY <1>3, <1>4, <2>3, <3>1, NamesAssumption DEF On
    <3>3. \A u \in Threads : call'[u].player = q <=> call[u].player = q
      BY <1>3, <1>4, <2>3, <3>1, NamesAssumption
    <3> QED
      BY <1>1, <1>5, <2>1, <2>3, <3>2, <3>3 DEF PlayerFits
  <2> QED
    BY <2>2, <2>3
<1>9. ASSUME NEW q \in Players PROVE EngineFits(q)'
  BY <1>5, <1>6 DEF EngineInv, EngineFits
<1> QED
  BY <1>7, <1>8, <1>9 DEF EngineInv

(* A step of thread t on player p leaves every other player and thread alone. *)
OnlyOn(t, p) ==
    /\ \A u \in Threads \ {t} : call'[u] = call[u]
    /\ call[t].player \in {p, NoPlayer} /\ call'[t].player \in {p, NoPlayer}
    /\ \A q \in Players \ {p} :
          /\ phase'[q] = phase[q] /\ threads'[q] = threads[q] /\ output'[q] = output[q]
          /\ slot'[q] = slot[q] /\ lock'[q] = lock[q] /\ held'[q] = held[q]
          /\ q \in released' <=> q \in released

LEMMA StepOnPlayer ==
    ASSUME TypeOK, EngineInv, NEW t \in Threads, NEW p \in Players, OnlyOn(t, p),
           \A u \in Threads : u = t \/ call[u].player = p => CallFits(u)',
           PlayerFits(p)', EngineFits(p)'
    PROVE  EngineInv'
<1>1. ASSUME NEW u \in Threads PROVE CallFits(u)'
  <2>1. CASE u # t /\ call[u].player # p
    <3>1. call'[u] = call[u] /\ CallFits(u)
      BY <2>1 DEF EngineInv, OnlyOn
    <3>2. call[u].op \notin {"idle", "taken"} => call[u].player \in Players \ {p}
      BY <2>1, CallNames
    <3>3. \A v \in Threads : call'[v].player = call[u].player /\ call[u].player \in Players \ {p}
                             => call[v].player = call[u].player
      BY <2>1, NamesAssumption DEF OnlyOn
    <3>4. call[u].player \in Players \ {p} =>
             LET q == call[u].player
             IN  phase'[q] = phase[q] /\ lock'[q] = lock[q] /\ held'[q] = held[q]
      BY <2>1 DEF OnlyOn
    <3> QED
      BY <3>1, <3>2, <3>3, <3>4 DEF CallFits
  <2> QED
    BY <2>1
<1>2. ASSUME NEW q \in Players PROVE PlayerFits(q)' /\ EngineFits(q)'
  <2>1. CASE q # p
    <3>1. PlayerFits(q) /\ EngineFits(q) /\ lock[q] \in Threads \cup {NoThread}
      BY DEF EngineInv, TypeOK
    <3>2. \A u \in Threads : /\ call[u].player = q <=> call'[u].player = q
                             /\ call[u].player = q => call'[u] = call[u]
      BY <2>1, NamesAssumption DEF OnlyOn
    <3>3. \A u \in Threads, op \in {"creating", "joining", "dropping"} : On(u, q, op)' <=> On(u, q, op)
      BY <3>2 DEF On
    <3>4. /\ phase'[q] = phase[q] /\ threads'[q] = threads[q] /\ output'[q] = output[q]
          /\ slot'[q] = slot[q] /\ lock'[q] = lock[q] /\ held'[q] = held[q]
          /\ q \in released' <=> q \in released
      BY <2>1 DEF OnlyOn
    <3> QED
      BY <3>1, <3>2, <3>3, <3>4 DEF PlayerFits, EngineFits
  <2> QED
    BY <2>1
<1> QED
  BY <1>1, <1>2 DEF EngineInv

LEMMA OpensFits ==
    ASSUME TypeOK, EngineInv, NEW t \in Threads, EngineOpens(t)
    PROVE  EngineInv'
<1>0. PICK p \in Players : call[t].player = p
  BY CallNames DEF EngineOpens
<1>1. /\ phase[p] = "creating" /\ call[t].op = "creating"
      /\ phase' = [phase EXCEPT ![p] = "open"] /\ slot' = [slot EXCEPT ![p] = TRUE]
      /\ held' = [held EXCEPT ![p] = TRUE] /\ call' = [call EXCEPT ![t] = Idle]
      /\ UNCHANGED <<threads, output, lock, released>>
  BY <1>0 DEF EngineOpens
<1>2. CallFits(t) /\ PlayerFits(p) /\ EngineFits(p) /\ lock[p] \in Threads \cup {NoThread}
  BY <1>0, <1>1 DEF EngineInv, TypeOK
<1>3. phase'[p] = "open" /\ slot'[p] = TRUE /\ held'[p] = TRUE /\ call'[t] = Idle
  BY <1>0, <1>1 DEF TypeOK
<1>4. OnlyOn(t, p)
  BY <1>0, <1>1 DEF TypeOK, OnlyOn
<1>5. \A u \in Threads : u # t => call[u].player # p
  BY <1>0, <1>1, <1>2 DEF CallFits
<1>6. CallFits(t)'
  BY <1>3 DEF CallFits
<1>7. lock[p] = NoThread
  BY <1>0, <1>1, <1>2, <1>5 DEF PlayerFits, On
<1>8. PlayerFits(p)' /\ EngineFits(p)'
  BY <1>0, <1>1, <1>2, <1>3, <1>7 DEF PlayerFits, EngineFits
<1> QED
  BY <1>0, <1>1, <1>4, <1>5, <1>6, <1>8, StepOnPlayer

LEMMA RefusedFits ==
    ASSUME TypeOK, EngineInv, NEW t \in Threads, EngineRefused(t)
    PROVE  EngineInv'
<1>0. PICK p \in Players : call[t].player = p
  BY CallNames DEF EngineRefused
<1>1. call[t].op = "creating" /\ UNCHANGED <<threads, player>>
  BY DEF EngineRefused
<1>2. CallFits(t) /\ PlayerFits(p) /\ EngineFits(p) /\ lock[p] \in Threads \cup {NoThread}
  BY <1>0, <1>1 DEF EngineInv, TypeOK
<1>3. \A u \in Threads : u # t => call[u].player # p
  BY <1>0, <1>1, <1>2 DEF CallFits
<1>4. lock[p] = NoThread /\ ~held[p]
  BY <1>0, <1>1, <1>2, <1>3 DEF PlayerFits, CallFits, On
<1>5. CASE /\ phase[p] = "creating" /\ phase' = [phase EXCEPT ![p] = "refusing"]
           /\ output' = [output EXCEPT ![p] = NoWindow] /\ call' = call
  <2>1. phase'[p] = "refusing" /\ output'[p] = NoWindow
    BY <1>0, <1>1, <1>5 DEF TypeOK
  <2>2. OnlyOn(t, p)
    BY <1>0, <1>1, <1>5 DEF TypeOK, OnlyOn
  <2>3. CallFits(t)'
    BY <1>0, <1>1, <1>2, <1>5, <2>1 DEF CallFits
  <2>4. PlayerFits(p)' /\ EngineFits(p)'
    BY <1>0, <1>1, <1>2, <1>4, <1>5, <2>1 DEF PlayerFits, EngineFits, On
  <2> QED
    BY <1>0, <1>1, <1>3, <2>2, <2>3, <2>4, StepOnPlayer
<1>6. CASE /\ phase[p] = "refusing" /\ ~threads[p] /\ phase' = [phase EXCEPT ![p] = "refused"]
           /\ call' = [call EXCEPT ![t] = Idle] /\ UNCHANGED output
  <2>1. phase'[p] = "refused" /\ call'[t] = Idle
    BY <1>0, <1>1, <1>6 DEF TypeOK
  <2>2. OnlyOn(t, p)
    BY <1>0, <1>1, <1>6 DEF TypeOK, OnlyOn
  <2>3. CallFits(t)'
    BY <2>1 DEF CallFits
  <2>4. PlayerFits(p)' /\ EngineFits(p)'
    BY <1>0, <1>1, <1>2, <1>4, <1>6, <2>1 DEF PlayerFits, EngineFits
  <2> QED
    BY <1>0, <1>1, <1>3, <2>2, <2>3, <2>4, StepOnPlayer
<1> QED
  BY <1>0, <1>5, <1>6 DEF EngineRefused, RefusedFactory

LEMMA BeginFits ==
    ASSUME TypeOK, EngineInv, NEW t \in Threads, NEW p \in Players,
           NEW op \in {"using", "releasing"}, Begin(t, p, op)
    PROVE  EngineInv'
<1>1. /\ call[t] = Idle /\ held[p] /\ call' = [call EXCEPT ![t] = [Idle EXCEPT !.op = op, !.player = p]]
      /\ UNCHANGED <<engine, player>>
  BY DEF Begin
<1>2. PlayerFits(p) /\ EngineFits(p) /\ lock[p] \in Threads \cup {NoThread}
  BY DEF EngineInv, TypeOK
<1>3. call'[t].op = op /\ call'[t].player = p /\ \A u \in Threads \ {t} : call'[u] = call[u]
  BY <1>1 DEF TypeOK
<1>4. OnlyOn(t, p)
  BY <1>1, <1>3 DEF OnlyOn
<1>5. CallFits(t)'
  BY <1>1, <1>2, <1>3 DEF CallFits, PlayerFits
<1>6. ASSUME NEW u \in Threads, u # t, call[u].player = p PROVE CallFits(u)'
  BY <1>1, <1>3, <1>6 DEF CallFits, EngineInv
<1>7. PlayerFits(p)' /\ EngineFits(p)'
  BY <1>1, <1>2, <1>3 DEF PlayerFits, EngineFits, On
<1> QED
  BY <1>4, <1>5, <1>6, <1>7, StepOnPlayer

(***************************************************************************)
(* The last reference goes while thread t, which is in no call that shuts  *)
(* the engine down, gives it up: Drop begins on t.                         *)
(***************************************************************************)
LEMMA DropFits ==
    ASSUME TypeOK, EngineInv, NEW t \in Threads, NEW p \in Players,
           slot[p], ~held'[p], call[t] = Idle \/ On(t, p, "using"),
           \A u \in Threads \ {t} : call[u].player # p,
           slot' = [slot EXCEPT ![p] = FALSE], phase' = [phase EXCEPT ![p] = "closing"],
           call' = [call EXCEPT ![t] = [Idle EXCEPT !.op = "dropping", !.player = p]],
           \A q \in Players \ {p} : held'[q] = held[q],
           UNCHANGED <<threads, output, lock, released>>
    PROVE  EngineInv'
<1>1. PlayerFits(p) /\ EngineFits(p) /\ lock[p] \in Threads \cup {NoThread}
  BY DEF EngineInv, TypeOK
<1>2. /\ call'[t].op = "dropping" /\ call'[t].player = p
      /\ \A u \in Threads \ {t} : call'[u] = call[u]
      /\ phase'[p] = "closing" /\ slot'[p] = FALSE
  BY DEF TypeOK
<1>3. OnlyOn(t, p)
  BY <1>2 DEF OnlyOn, On, TypeOK
<1>4. CallFits(t)'
  BY <1>2 DEF CallFits
<1>5. lock[p] = NoThread
  BY <1>1 DEF PlayerFits, On
<1>6. PlayerFits(p)' /\ EngineFits(p)'
  BY <1>1, <1>2, <1>5 DEF PlayerFits, EngineFits, On
<1> QED
  BY <1>3, <1>4, <1>6, StepOnPlayer

(* A call that is over, and whose player has another reference or no engine. *)
LEMMA ReturnFits ==
    ASSUME TypeOK, EngineInv, NEW t \in Threads, NEW p \in Players,
           call[t].player = p, call[t].op \in {"using", "releasing"}, lock[p] = NoThread,
           ~LastReference(t, p) \/ ~slot[p],
           p \in released' => p \in released \/ (~slot[p] /\ call[t].op = "releasing"),
           \A q \in Players \ {p} : q \in released' <=> q \in released,
           call' = [call EXCEPT ![t] = Idle],
           UNCHANGED <<engine, slot, lock, held>>
    PROVE  EngineInv'
<1>1. PlayerFits(p) /\ EngineFits(p) /\ CallFits(t)
  BY DEF EngineInv
<1>2. call'[t] = Idle /\ \A u \in Threads \ {t} : call'[u] = call[u]
  BY DEF TypeOK
<1>3. OnlyOn(t, p)
  BY <1>2 DEF OnlyOn
<1>4. CallFits(t)'
  BY <1>2 DEF CallFits
<1>5. ASSUME NEW u \in Threads, u # t, call[u].player = p PROVE CallFits(u)'
  BY <1>2, <1>5, NamesAssumption DEF CallFits, EngineInv
<1>6. ~slot[p] => phase[p] # "closing"
  <2> SUFFICES ASSUME phase[p] = "closing" PROVE FALSE
    OBVIOUS
  <2>1. PICK u \in Threads : On(u, p, "joining") \/ On(u, p, "dropping")
    BY <1>1 DEF PlayerFits
  <2>2. CASE On(u, p, "joining")
    BY <2>2, NamesAssumption DEF EngineInv, CallFits, On
  <2>3. CASE On(u, p, "dropping")
    <3>1. t = u
      BY <2>3 DEF EngineInv, CallFits, On
    <3> QED
      BY <2>3, <3>1 DEF On
  <2> QED
    BY <2>1, <2>2, <2>3
<1>7. p \in released' => phase[p] = "closed"
  BY <1>1, <1>6 DEF PlayerFits, CallFits
<1>8. phase[p] = "open" /\ ~held[p] => \E u \in Threads : u # t /\ call[u].player = p
  BY <1>1 DEF PlayerFits, LastReference
<1>9. \A u \in Threads, op \in {"creating", "joining", "dropping"} : On(u, p, op)' <=> On(u, p, op)
  BY <1>2, NamesAssumption DEF On
<1>10. PlayerFits(p)'
  BY <1>1, <1>2, <1>7, <1>8, <1>9 DEF PlayerFits
<1>11. EngineFits(p)'
  BY <1>1 DEF EngineFits
<1> QED
  BY <1>3, <1>4, <1>5, <1>10, <1>11, StepOnPlayer

LEMMA ForgetFits ==
    ASSUME TypeOK, EngineInv, NEW t \in Threads, NEW p \in Players, Forget(t, p)
    PROVE  EngineInv'
<1>1. /\ call[t] = Idle /\ held[p] /\ held' = [held EXCEPT ![p] = FALSE]
      /\ UNCHANGED <<threads, output, lock, released>>
  BY DEF Forget
<1>2. held'[p] = FALSE /\ \A q \in Players \ {p} : held'[q] = held[q]
  BY <1>1 DEF TypeOK
<1>3. CASE slot[p] /\ \A u \in Threads \ {t} : call[u].player # p
  BY <1>1, <1>2, <1>3, DropFits DEF Forget
<1>4. CASE ~(slot[p] /\ \A u \in Threads \ {t} : call[u].player # p)
  <2>1. UNCHANGED <<slot, phase, call>>
    BY <1>4 DEF Forget
  <2>2. PlayerFits(p) /\ EngineFits(p) /\ CallFits(t)
    BY DEF EngineInv
  <2>3. OnlyOn(t, p)
    BY <1>1, <1>2, <2>1 DEF OnlyOn
  <2>4. ASSUME NEW u \in Threads, u = t \/ call[u].player = p PROVE CallFits(u)'
    <3>1. CallFits(u) /\ ~(call[u].player = p /\ call[u].op \in {"creating", "dropping"})
      BY <1>1 DEF EngineInv, CallFits
    <3>2. CASE u = t
      BY <1>1, <2>1, <3>2 DEF CallFits
    <3>3. CASE call[u].player = p
      BY <1>1, <2>1, <3>1, <3>3 DEF CallFits
    <3> QED
      BY <2>4, <3>2, <3>3
  <2>5. PlayerFits(p)'
    <3>1. phase[p] = "open" => \E u \in Threads : call[u].player = p
      BY <1>4, <2>2 DEF PlayerFits
    <3> QED
      BY <1>1, <1>2, <2>1, <2>2, <3>1 DEF PlayerFits, On
  <2>6. EngineFits(p)'
    BY <1>1, <2>1, <2>2 DEF EngineFits
  <2> QED
    BY <2>3, <2>4, <2>5, <2>6, StepOnPlayer
<1> QED
  BY <1>3, <1>4

LEMMA UseFits ==
    ASSUME TypeOK, EngineInv, NEW t \in Threads, Use(t)
    PROVE  EngineInv'
<1>1. PICK p \in Players : call[t].player = p
  BY CallNames DEF Use
<1>2. /\ call[t].op = "using" /\ lock[p] = NoThread /\ Finish(t, p)
      /\ UNCHANGED <<threads, output, lock, held, released>>
  BY <1>1 DEF Use
<1>3. CASE LastReference(t, p) /\ slot[p]
  BY <1>1, <1>2, <1>3, DropFits DEF Finish, LastReference, On
<1>4. CASE ~(LastReference(t, p) /\ slot[p])
  BY <1>1, <1>2, <1>4, ReturnFits DEF Finish
<1> QED
  BY <1>3, <1>4

LEMMA ReleaseFits ==
    ASSUME TypeOK, EngineInv, NEW t \in Threads, Release(t)
    PROVE  EngineInv'
<1>1. PICK p \in Players : call[t].player = p
  BY CallNames DEF Release
<1>2. call[t].op = "releasing" /\ lock[p] = NoThread /\ UNCHANGED <<threads, output, held>>
  BY <1>1 DEF Release
<1>3. PlayerFits(p) /\ EngineFits(p) /\ slot[p] \in BOOLEAN
  BY DEF EngineInv, TypeOK
<1>4. CASE slot[p]
  <2>1. /\ slot' = [slot EXCEPT ![p] = FALSE] /\ lock' = [lock EXCEPT ![p] = t]
        /\ phase' = [phase EXCEPT ![p] = "closing"] /\ released' = released
        /\ call' = [call EXCEPT ![t] = [call[t] EXCEPT !.op = "joining"]]
    BY <1>1, <1>4 DEF Release, LockForRelease
  <2>2. /\ call'[t].op = "joining" /\ call'[t].player = p
        /\ \A u \in Threads \ {t} : call'[u] = call[u]
        /\ phase'[p] = "closing" /\ slot'[p] = FALSE /\ lock'[p] = t
    BY <1>1, <2>1, CallNames DEF TypeOK, Calls
  <2>3. OnlyOn(t, p)
    BY <1>1, <1>2, <2>1, <2>2 DEF OnlyOn, TypeOK
  <2>4. CallFits(t)'
    BY <2>2 DEF CallFits
  <2>5. ASSUME NEW u \in Threads, u # t, call[u].player = p PROVE CallFits(u)'
    <3>1. call[u].op \in {"using", "releasing"}
      <4>1. phase[p] = "open"
        BY <1>3, <1>4 DEF PlayerFits
      <4> QED
        BY <2>5, <4>1, CallNames DEF EngineInv, CallFits
    <3> QED
      BY <2>2, <2>5, <3>1 DEF CallFits
  <2>6. PlayerFits(p)' /\ EngineFits(p)'
    BY <1>2, <1>3, <1>4, <2>1, <2>2, NamesAssumption DEF PlayerFits, EngineFits, On
  <2> QED
    BY <2>3, <2>4, <2>5, <2>6, StepOnPlayer
<1>5. CASE ~slot[p]
  <2>1. Finish(t, p) /\ released' = released \cup {p} /\ lock' = lock
    BY <1>1, <1>5 DEF Release
  <2> QED
    BY <1>1, <1>2, <1>5, <2>1, ReturnFits DEF Finish
<1> QED
  BY <1>3, <1>4, <1>5

(* shutdown returns, to a release or to a drop. *)
LEMMA ShutdownFits ==
    ASSUME TypeOK, EngineInv, NEW t \in Threads, ReleaseReturns(t) \/ DropReturns(t)
    PROVE  EngineInv'
<1>1. PICK p \in Players : call[t].player = p
  BY CallNames DEF ReleaseReturns, DropReturns
<1>2. /\ call[t].op \in {"joining", "dropping"} /\ phase[p] = "closing" /\ ~threads[p]
      /\ phase' = [phase EXCEPT ![p] = "closed"] /\ call' = [call EXCEPT ![t] = Idle]
      /\ \/ lock' = [lock EXCEPT ![p] = NoThread]
         \/ lock' = lock /\ call[t].op = "dropping"
      /\ released' = released \cup {p} \/ released' = released
      /\ UNCHANGED <<threads, output, slot, held>>
  <2>1. CASE ReleaseReturns(t)
    BY <1>1, <2>1 DEF ReleaseReturns, Unlocked
  <2>2. CASE DropReturns(t)
    BY <1>1, <2>2 DEF DropReturns, player
  <2> QED
    BY <2>1, <2>2
<1>3. PlayerFits(p) /\ EngineFits(p) /\ CallFits(t) /\ lock[p] \in Threads \cup {NoThread}
  BY DEF EngineInv, TypeOK
<1>4. call'[t] = Idle /\ (\A u \in Threads \ {t} : call'[u] = call[u]) /\ phase'[p] = "closed"
  BY <1>2 DEF TypeOK
<1>5. lock'[p] = NoThread
  BY <1>1, <1>2, <1>3 DEF PlayerFits, CallFits, On, TypeOK
<1>6. OnlyOn(t, p)
  BY <1>1, <1>2, <1>4 DEF OnlyOn, TypeOK
<1>7. CallFits(t)'
  BY <1>4 DEF CallFits
<1>8. ASSUME NEW u \in Threads, u # t, call[u].player = p PROVE CallFits(u)'
  <2>1. call[u].op \in {"using", "releasing"}
    <3>1. call[u].op # "creating"
      BY <1>2, <1>8 DEF EngineInv, CallFits
    <3>2. call[u].op # "dropping"
      BY <1>1, <1>8 DEF EngineInv, CallFits
    <3>3. call[u].op # "joining"
      BY <1>1, <1>2, <1>3, <1>8 DEF EngineInv, CallFits
    <3> QED
      BY <1>8, <3>1, <3>2, <3>3, CallNames
  <2> QED
    BY <1>4, <1>8, <2>1 DEF CallFits
<1>9. PlayerFits(p)' /\ EngineFits(p)'
  BY <1>2, <1>3, <1>4, <1>5 DEF PlayerFits, EngineFits
<1> QED
  BY <1>6, <1>7, <1>8, <1>9, StepOnPlayer

LEMMA ThreadsEndFits ==
    ASSUME TypeOK, EngineInv, NEW p \in Players, ThreadsEnd(p)
    PROVE  EngineInv'
<1>1. /\ threads' = [threads EXCEPT ![p] = FALSE] /\ output' = [output EXCEPT ![p] = NoWindow]
      /\ UNCHANGED <<phase, player, call>>
  BY DEF ThreadsEnd
<1>2. ASSUME NEW q \in Players PROVE EngineFits(q)'
  BY <1>1 DEF EngineInv, EngineFits, TypeOK
<1>3. (\A t \in Threads : CallFits(t)') /\ \A q \in Players : PlayerFits(q)'
  BY <1>1 DEF EngineInv, CallFits, PlayerFits, On
<1> QED
  BY <1>2, <1>3 DEF EngineInv

LEMMA EngineNext == TypeOK /\ EngineInv /\ [Next]_vars => EngineInv'
<1> SUFFICES ASSUME TypeOK, EngineInv, [Next]_vars PROVE EngineInv'
  OBVIOUS
<1>1. ASSUME NEW t \in Threads, Step(t) PROVE EngineInv'
  <2>1. ASSUME NEW w \in Windows, Register(t, w) PROVE EngineInv'
    BY <2>1, QuietStep DEF Register, SameCalls
  <2>2. ASSUME NEW h \in 1 .. MaxHandle, Discard(t, h) PROVE EngineInv'
    BY <2>2, QuietStep DEF Discard, SameCalls
  <2>3. CASE BeginNew(t)
    <3>1. SameCalls
      <4>1. PICK w : call[t] = Idle /\ call' = [call EXCEPT ![t] = Taken(w)]
        BY <2>3 DEF BeginNew
      <4>2. \A u \in Threads : call'[u] = IF u = t THEN Taken(w) ELSE call[u]
        BY <4>1 DEF TypeOK
      <4> QED
        BY <4>1, <4>2 DEF SameCalls, Taken
    <3> QED
      BY <2>3, <3>1, QuietStep DEF BeginNew
  <2>4. CASE SourceFails(t)
    <3>1. call[t].op = "taken" /\ call' = [call EXCEPT ![t] = Idle] /\ UNCHANGED <<engine, player>>
      BY <2>4 DEF SourceFails
    <3>2. SameCalls
      BY <3>1, CallNames DEF SameCalls, TypeOK
    <3> QED
      BY <3>1, <3>2, QuietStep
  <2>5. ASSUME NEW p \in Players, NEW op \in {"using", "releasing"}, Begin(t, p, op) PROVE EngineInv'
    BY <2>5, BeginFits
  <2>6. ASSUME NEW p \in Players, Forget(t, p) PROVE EngineInv'
    BY <2>6, ForgetFits
  <2> QED
    BY <1>1, <2>1, <2>2, <2>3, <2>4, <2>5, <2>6, CreateFits, OpensFits, RefusedFits, UseFits,
       ReleaseFits, ShutdownFits DEF Step, Proceed
<1>2. ASSUME NEW p \in Players, ThreadsEnd(p) PROVE EngineInv'
  BY <1>2, ThreadsEndFits
<1>3. CASE UNCHANGED vars
  BY <1>3 DEF vars, EngineInv, CallFits, PlayerFits, EngineFits, On
<1> QED
  BY <1>1, <1>2, <1>3, NextIsStep

LEMMA EngineAlways == Spec => []EngineInv
<1>1. Init => EngineInv
  BY DEF Init, EngineInv, CallFits, PlayerFits, EngineFits, On
<1>2. TypeOK /\ EngineInv /\ [Next]_vars => EngineInv'
  BY EngineNext
<1> QED
  BY <1>1, <1>2, TypeCorrect, PTL DEF Spec

(***************************************************************************)
(* A release that has returned, whoever called it and whoever else did,    *)
(* leaves an engine without threads and without its window; and a player   *)
(* nobody can reach, or that was refused, leaves none.                     *)
(***************************************************************************)
THEOREM ReleasedIsOverAlways == Spec => []ReleasedIsOver
<1>1. TypeOK /\ EngineInv => ReleasedIsOver
  BY EngineInvImplies
<1> QED
  BY <1>1, EngineAlways, TypeCorrect, PTL

-----------------------------------------------------------------------------
(***************************************************************************)
(* Windows.  A handle in the table is the one its window was told; no two  *)
(* windows were told the same; and a window is in one place at most, in    *)
(* one at least once it was registered.                                    *)
(***************************************************************************)
InTable(w) == \E h \in DOMAIN table : table[h] = w
InCall(w, t) == call[t].window = w
InEngine(w, p) == output[p] = w

HandlesFit ==
    /\ \A h \in DOMAIN table : told[table[h]] = h
    /\ \A w \in Windows : told[w] < nextHandle
    /\ \A v, w \in Windows : told[v] = told[w] /\ told[v] # 0 => v = w

Apart(w) ==
    /\ InTable(w) => w \notin freed
    /\ \A t \in Threads : InCall(w, t) => w \notin freed /\ ~InTable(w)
    /\ \A p \in Players : InEngine(w, p) => w \notin freed /\ ~InTable(w)
    /\ \A t \in Threads, p \in Players : ~(InCall(w, t) /\ InEngine(w, p))
    /\ \A t, u \in Threads : InCall(w, t) /\ InCall(w, u) => t = u
    /\ \A p, q \in Players : InEngine(w, p) /\ InEngine(w, q) => p = q

Somewhere(w) ==
    \/ w \in freed \/ InTable(w)
    \/ \E t \in Threads : InCall(w, t)
    \/ \E p \in Players : InEngine(w, p)

WindowFits(w) == Apart(w) /\ (told[w] # 0 => Somewhere(w)) /\ (told[w] = 0 /\ Somewhere(w) => w \in freed)

WindowInv == HandlesFit /\ \A w \in Windows : WindowFits(w)

LEMMA WindowInvImplies == TypeOK /\ WindowInv => OneOwner
<1> SUFFICES ASSUME TypeOK, WindowInv PROVE OneOwner
  OBVIOUS
<1>1. \A v, w \in Windows : v # w /\ told[v] = told[w] => told[v] = 0
  BY DEF WindowInv, HandlesFit
<1>2. ASSUME NEW w \in Windows, told[w] = 0 \/ w \in freed PROVE Holders(w) = {}
  <2>1. Apart(w) /\ (told[w] = 0 /\ Somewhere(w) => w \in freed)
    BY DEF WindowInv, WindowFits
  <2>2. ~InTable(w) /\ (\A t \in Threads : ~InCall(w, t)) /\ (\A p \in Players : ~InEngine(w, p))
    BY <1>2, <2>1 DEF Apart, Somewhere
  <2> QED
    BY <2>2 DEF Holders, InTable, InCall, InEngine
<1>3. ASSUME NEW w \in Windows, told[w] # 0, w \notin freed
      PROVE  \E x \in Holders(w) : Holders(w) = {x}
  <2>1. Apart(w) /\ Somewhere(w)
    BY <1>3 DEF WindowInv, WindowFits
  <2>2. CASE InTable(w)
    <3>1. PICK h \in DOMAIN table : table[h] = w
      BY <2>2 DEF InTable
    <3>2. {i \in DOMAIN table : table[i] = w} = {h}
      BY <3>1 DEF WindowInv, HandlesFit
    <3>3. {u \in Threads : call[u].window = w} = {} /\ {q \in Players : output[q] = w} = {}
      BY <2>1, <2>2 DEF Apart, InCall, InEngine
    <3>4. Holders(w) = {<<"table", h>>}
      BY <3>2, <3>3 DEF Holders
    <3> QED
      BY <3>4
  <2>3. ASSUME NEW t \in Threads, InCall(w, t) PROVE \E x \in Holders(w) : Holders(w) = {x}
    <3>1. {u \in Threads : call[u].window = w} = {t}
      BY <2>1, <2>3 DEF Apart, InCall
    <3>2. {i \in DOMAIN table : table[i] = w} = {} /\ {q \in Players : output[q] = w} = {}
      BY <2>1, <2>3 DEF Apart, InTable, InEngine
    <3>3. Holders(w) = {<<"call", t>>}
      BY <3>1, <3>2 DEF Holders
    <3> QED
      BY <3>3
  <2>4. ASSUME NEW p \in Players, InEngine(w, p) PROVE \E x \in Holders(w) : Holders(w) = {x}
    <3>1. {q \in Players : output[q] = w} = {p}
      BY <2>1, <2>4 DEF Apart, InEngine
    <3>2. {i \in DOMAIN table : table[i] = w} = {} /\ {u \in Threads : call[u].window = w} = {}
      BY <2>1, <2>4 DEF Apart, InTable, InCall
    <3>3. Holders(w) = {<<"engine", p>>}
      BY <3>1, <3>2 DEF Holders
    <3> QED
      BY <3>3
  <2> QED
    BY <1>3, <2>1, <2>2, <2>3, <2>4 DEF Somewhere
<1> QED
  BY <1>1, <1>2, <1>3 DEF OneOwner

(* A step that moves no other window than w. *)
SamePlace(v) ==
    /\ told'[v] = told[v] /\ (v \in freed' <=> v \in freed) /\ (InTable(v)' <=> InTable(v))
    /\ \A t \in Threads : InCall(v, t)' <=> InCall(v, t)
    /\ \A p \in Players : InEngine(v, p)' <=> InEngine(v, p)

LEMMA WindowMoves ==
    ASSUME TypeOK, WindowInv, NEW w, \A v \in Windows \ {w} : SamePlace(v),
           HandlesFit', w \in Windows => WindowFits(w)'
    PROVE  WindowInv'
<1>1. ASSUME NEW v \in Windows, v # w PROVE WindowFits(v)'
  <2>1. WindowFits(v) /\ SamePlace(v)
    BY <1>1 DEF WindowInv
  <2>2. Apart(v)'
    BY <2>1 DEF WindowFits, SamePlace, Apart
  <2>3. Somewhere(v)' <=> Somewhere(v)
    BY <2>1 DEF SamePlace, Somewhere
  <2> QED
    BY <2>1, <2>2, <2>3 DEF WindowFits, SamePlace
<1> QED
  BY <1>1 DEF WindowInv

(* The table and what was told stay as they are. *)
LEMMA RegistryStays ==
    ASSUME TypeOK, WindowInv, UNCHANGED registry
    PROVE  HandlesFit' /\ \A v \in Windows : told'[v] = told[v] /\ (InTable(v)' <=> InTable(v))
  BY DEF WindowInv, HandlesFit, InTable

(* A handle leaves the table with its window. *)
LEMMA WindowTaken ==
    ASSUME TypeOK, WindowInv, NEW h \in DOMAIN table, NEW w \in Windows, table[h] = w,
           TakeHandle(h), UNCHANGED <<nextHandle, told>>
    PROVE  /\ HandlesFit' /\ ~InTable(w)'
           /\ \A v \in Windows \ {w} : InTable(v)' <=> InTable(v)
           /\ told[w] = h /\ h # 0
<1>1. /\ DOMAIN table' = DOMAIN table \ {h}
      /\ \A i \in DOMAIN table' : table'[i] = table[i]
  BY TakeType
<1>2. HandlesFit
  BY DEF WindowInv
<1>3. HandlesFit'
  BY <1>1, <1>2 DEF HandlesFit
<1>4. \A i \in DOMAIN table : table[i] = w => i = h
  BY <1>2 DEF HandlesFit
<1>5. h # 0
  BY DEF TypeOK
<1> QED
  BY <1>1, <1>2, <1>3, <1>4, <1>5 DEF HandlesFit, InTable

LEMMA RegisterKeepsOwners ==
    ASSUME TypeOK, WindowInv, NEW t \in Threads, NEW w \in Windows, Register(t, w)
    PROVE  WindowInv'
<1>1. told[w] = 0 /\ w \notin freed /\ UNCHANGED <<engine, player, call>>
  BY DEF Register
<1>2. Apart(w) /\ ~Somewhere(w)
  BY <1>1 DEF WindowInv, WindowFits
<1>3. ~InTable(w) /\ (\A u \in Threads : ~InCall(w, u)) /\ \A p \in Players : ~InEngine(w, p)
  BY <1>2 DEF Somewhere
<1>4. /\ \A v \in Windows, u \in Threads : InCall(v, u)' <=> InCall(v, u)
      /\ \A v \in Windows, p \in Players : InEngine(v, p)' <=> InEngine(v, p)
  BY <1>1 DEF InCall, InEngine
<1>5. CASE nextHandle < MaxHandle
  <2>1. /\ table' = [h \in DOMAIN table \cup {nextHandle} |-> IF h = nextHandle THEN w ELSE table[h]]
        /\ told' = [told EXCEPT ![w] = nextHandle] /\ nextHandle' = nextHandle + 1 /\ freed' = freed
    BY <1>5 DEF Register, IssuedHandle
  <2>2. nextHandle \in Nat \ {0} /\ nextHandle \notin DOMAIN table
        /\ (\A h \in DOMAIN table : h \in Nat) /\ \A v \in Windows : told[v] \in Nat
    BY MaxHandleAssumption DEF TypeOK
  <2>3. told'[w] = nextHandle /\ \A v \in Windows \ {w} : told'[v] = told[v]
    BY <2>1 DEF TypeOK
  <2>4. DOMAIN table' = DOMAIN table \cup {nextHandle} /\ table'[nextHandle] = w
        /\ \A h \in DOMAIN table : table'[h] = table[h] /\ table[h] \in Windows
    BY <2>1, <2>2 DEF TypeOK
  <2>5. InTable(w)' /\ \A v \in Windows \ {w} : InTable(v)' <=> InTable(v)
    BY <2>2, <2>4 DEF InTable
  <2>6. HandlesFit'
    <3>1. HandlesFit
      BY DEF WindowInv
    <3>2. \A h \in DOMAIN table : table[h] # w
      BY <1>3 DEF InTable
    <3>3. \A h \in DOMAIN table' : told'[table'[h]] = h
      BY <2>3, <2>4, <3>1, <3>2 DEF HandlesFit
    <3>4. \A v \in Windows : told'[v] < nextHandle'
      BY <2>1, <2>2, <2>3, <3>1 DEF HandlesFit
    <3>5. \A u, v \in Windows : told'[u] = told'[v] /\ told'[u] # 0 => u = v
      BY <2>2, <2>3, <3>1 DEF HandlesFit
    <3> QED
      BY <3>3, <3>4, <3>5 DEF HandlesFit
  <2>7. WindowFits(w)'
    BY <1>1, <1>3, <1>4, <2>1, <2>2, <2>3, <2>5 DEF WindowFits, Apart, Somewhere
  <2>8. \A v \in Windows \ {w} : SamePlace(v)
    BY <1>4, <2>1, <2>3, <2>5 DEF SamePlace
  <2> QED
    BY <2>6, <2>7, <2>8, WindowMoves
<1>6. CASE ~(nextHandle < MaxHandle)
  <2>1. freed' = freed \cup {w} /\ UNCHANGED registry
    BY <1>6, NamesAssumption DEF Register
  <2>2. HandlesFit' /\ \A v \in Windows : told'[v] = told[v] /\ (InTable(v)' <=> InTable(v))
    BY <2>1, RegistryStays
  <2>3. WindowFits(w)'
    BY <1>3, <1>4, <2>1, <2>2 DEF WindowFits, Apart, Somewhere
  <2>4. \A v \in Windows \ {w} : SamePlace(v)
    BY <1>4, <2>1, <2>2 DEF SamePlace
  <2> QED
    BY <2>2, <2>3, <2>4, WindowMoves
<1> QED
  BY <1>5, <1>6

LEMMA DiscardKeepsOwners ==
    ASSUME TypeOK, WindowInv, NEW t \in Threads, NEW h \in DOMAIN table, Discard(t, h)
    PROVE  WindowInv'
<1>1. PICK w \in Windows : table[h] = w
  BY DEF TypeOK
<1>2. /\ TakeHandle(h) /\ freed' = freed \cup {w} /\ UNCHANGED <<nextHandle, told, engine, player, call>>
  BY <1>1, NamesAssumption DEF Discard
<1>3. /\ HandlesFit' /\ ~InTable(w)' /\ told[w] = h /\ h # 0
      /\ \A v \in Windows \ {w} : InTable(v)' <=> InTable(v)
  BY <1>1, <1>2, WindowTaken
<1>4. InTable(w) /\ Apart(w)
  BY <1>1 DEF InTable, WindowInv, WindowFits
<1>5. WindowFits(w)'
  BY <1>2, <1>3, <1>4 DEF WindowFits, Apart, Somewhere, InCall, InEngine
<1>6. \A v \in Windows \ {w} : SamePlace(v)
  BY <1>2, <1>3 DEF SamePlace, InCall, InEngine
<1> QED
  BY <1>3, <1>5, <1>6, WindowMoves

(* from_av_file_descriptor takes the window: from the table to the call. *)
LEMMA TakeKeepsOwners ==
    ASSUME TypeOK, WindowInv, NEW t \in Threads, NEW h \in DOMAIN table, call[t] = Idle,
           TakeHandle(h), call' = [call EXCEPT ![t] = Taken(table[h])],
           UNCHANGED <<nextHandle, told, freed, engine, player>>
    PROVE  WindowInv'
<1>1. PICK w \in Windows : table[h] = w
  BY DEF TypeOK
<1>2. call'[t].window = w /\ \A u \in Threads \ {t} : call'[u] = call[u]
  BY <1>1 DEF TypeOK
<1>3. /\ HandlesFit' /\ ~InTable(w)' /\ told[w] = h /\ h # 0
      /\ \A v \in Windows \ {w} : InTable(v)' <=> InTable(v)
  BY <1>1, WindowTaken
<1>4. InTable(w) /\ Apart(w)
  BY <1>1 DEF InTable, WindowInv, WindowFits
<1>5. WindowFits(w)'
  BY <1>2, <1>3, <1>4 DEF WindowFits, Apart, Somewhere, InCall, InEngine
<1>6. \A v \in Windows \ {w} : SamePlace(v)
  BY <1>2, <1>3, NamesAssumption DEF SamePlace, InCall, InEngine
<1> QED
  BY <1>3, <1>5, <1>6, WindowMoves

(* A window is given back, by the call that took it or by the engine that had it. *)
LEMMA FreeKeepsOwners ==
    ASSUME TypeOK, WindowInv, NEW w \in Windows \cup {NoWindow}, UNCHANGED registry,
           freed' = freed \cup ({w} \ {NoWindow}),
           \/ /\ output' = output
              /\ \E t \in Threads : /\ call[t].window = w /\ call'[t].window = NoWindow
                                    /\ \A u \in Threads \ {t} : call'[u].window = call[u].window
           \/ /\ \A t \in Threads : call'[t].window = call[t].window
              /\ \E p \in Players : output[p] = w /\ output' = [output EXCEPT ![p] = NoWindow]
    PROVE  WindowInv'
<1>1. HandlesFit' /\ \A v \in Windows : told'[v] = told[v] /\ (InTable(v)' <=> InTable(v))
  BY RegistryStays
<1>2. NoWindow \notin Windows
  BY NamesAssumption
<1>3. CASE /\ output' = output
           /\ \E t \in Threads : /\ call[t].window = w /\ call'[t].window = NoWindow
                                 /\ \A u \in Threads \ {t} : call'[u].window = call[u].window
  <2>1. PICK t \in Threads : /\ call[t].window = w /\ call'[t].window = NoWindow
                             /\ \A u \in Threads \ {t} : call'[u].window = call[u].window
    BY <1>3
  <2>2. \A v \in Windows \ {w} : SamePlace(v)
    BY <1>1, <1>2, <1>3, <2>1 DEF SamePlace, InCall, InEngine
  <2>3. ASSUME w \in Windows PROVE WindowFits(w)'
    <3>1. Apart(w) /\ InCall(w, t) /\ (told[w] = 0 => w \in freed)
      BY <2>1, <2>3 DEF WindowInv, WindowFits, InCall, Somewhere
    <3>2. (\A u \in Threads : ~InCall(w, u)') /\ (\A p \in Players : ~InEngine(w, p)') /\ ~InTable(w)'
      BY <1>1, <1>2, <1>3, <2>1, <2>3, <3>1 DEF Apart, InCall, InEngine
    <3> QED
      BY <1>1, <1>2, <2>3, <3>2 DEF WindowFits, Apart, Somewhere
  <2> QED
    BY <1>1, <2>2, <2>3, WindowMoves
<1>4. CASE /\ \A t \in Threads : call'[t].window = call[t].window
           /\ \E p \in Players : output[p] = w /\ output' = [output EXCEPT ![p] = NoWindow]
  <2>1. PICK p \in Players : output[p] = w /\ output' = [output EXCEPT ![p] = NoWindow]
    BY <1>4
  <2>2. output'[p] = NoWindow /\ \A q \in Players \ {p} : output'[q] = output[q]
    BY <2>1 DEF TypeOK
  <2>3. \A v \in Windows \ {w} : SamePlace(v)
    BY <1>1, <1>2, <1>4, <2>1, <2>2 DEF SamePlace, InCall, InEngine
  <2>4. ASSUME w \in Windows PROVE WindowFits(w)'
    <3>1. Apart(w) /\ InEngine(w, p)
      BY <2>1, <2>4 DEF WindowInv, WindowFits, InEngine
    <3>2. (\A u \in Threads : ~InCall(w, u)') /\ (\A q \in Players : ~InEngine(w, q)') /\ ~InTable(w)'
      BY <1>1, <1>2, <1>4, <2>2, <2>4, <3>1 DEF Apart, InCall, InEngine
    <3> QED
      BY <1>1, <1>2, <2>4, <3>2 DEF WindowFits, Apart, Somewhere
  <2> QED
    BY <1>1, <2>3, <2>4, WindowMoves
<1> QED
  BY <1>3, <1>4

(* PlayerEngine::new gets the window: from the call to the engine. *)
LEMMA CreateKeepsOwners ==
    ASSUME TypeOK, EngineInv, WindowInv, NEW t \in Threads, CreateEngine(t)
    PROVE  WindowInv'
<1>1. PICK p \in Players : /\ phase[p] = "absent"
                           /\ output' = [output EXCEPT ![p] = call[t].window]
                           /\ call' = [call EXCEPT ![t] = [Idle EXCEPT !.op = "creating",
                                                                     !.player = p]]
                           /\ UNCHANGED <<registry, freed>>
  BY DEF CreateEngine
<1>2. PICK w \in Windows \cup {NoWindow} : call[t].window = w
  BY CallNames
<1>3. output[p] = NoWindow
  BY <1>1 DEF EngineInv, EngineFits
<1>4. call'[t].window = NoWindow /\ \A u \in Threads \ {t} : call'[u] = call[u]
  BY <1>1 DEF TypeOK
<1>5. output'[p] = w /\ \A q \in Players \ {p} : output'[q] = output[q]
  BY <1>1, <1>2 DEF TypeOK
<1>6. HandlesFit' /\ \A v \in Windows : told'[v] = told[v] /\ (InTable(v)' <=> InTable(v))
  BY <1>1, RegistryStays
<1>7. \A v \in Windows \ {w} : SamePlace(v)
  BY <1>1, <1>2, <1>3, <1>4, <1>5, <1>6, NamesAssumption DEF SamePlace, InCall, InEngine
<1>8. ASSUME w \in Windows PROVE WindowFits(w)'
  <2>1. Apart(w) /\ InCall(w, t) /\ told[w] # 0
    BY <1>2, <1>8 DEF WindowInv, WindowFits, Apart, InCall, Somewhere
  <2>2. \A u \in Threads : ~InCall(w, u)'
    BY <1>4, <1>8, <2>1, NamesAssumption DEF Apart, InCall
  <2>3. \A q \in Players : InEngine(w, q)' <=> q = p
    BY <1>5, <2>1 DEF Apart, InEngine
  <2>4. w \notin freed' /\ ~InTable(w)'
    BY <1>1, <1>6, <1>8, <2>1 DEF Apart
  <2> QED
    BY <1>6, <1>8, <2>1, <2>2, <2>3, <2>4 DEF WindowFits, Apart, Somewhere
<1> QED
  BY <1>6, <1>7, <1>8, WindowMoves

(* All other steps leave every window where it is. *)
LEMMA OthersKeepOwners ==
    ASSUME TypeOK, WindowInv, UNCHANGED <<registry, freed, output>>,
           \A t \in Threads : call'[t].window = call[t].window
    PROVE  WindowInv'
<1>1. HandlesFit' /\ \A v \in Windows : told'[v] = told[v] /\ (InTable(v)' <=> InTable(v))
  BY RegistryStays
<1>2. \A v \in Windows : SamePlace(v)
  BY <1>1 DEF SamePlace, InCall, InEngine
<1> QED
  BY <1>1, <1>2, NamesAssumption, WindowMoves

LEMMA WindowNext == TypeOK /\ EngineInv /\ WindowInv /\ [Next]_vars => WindowInv'
<1> SUFFICES ASSUME TypeOK, EngineInv, WindowInv, [Next]_vars PROVE WindowInv'
  OBVIOUS
<1>1. ASSUME NEW t \in Threads, Step(t) PROVE WindowInv'
  <2>1. ASSUME NEW w \in Windows, Register(t, w) PROVE WindowInv'
    BY <2>1, RegisterKeepsOwners
  <2>2. ASSUME NEW h \in 1 .. MaxHandle, Discard(t, h) PROVE WindowInv'
    BY <2>2, DiscardKeepsOwners DEF Discard
  <2>3. CASE BeginNew(t)
    <3>1. call[t] = Idle /\ UNCHANGED <<nextHandle, told, freed, engine, player>>
      BY <2>3 DEF BeginNew
    <3>2. CASE call' = [call EXCEPT ![t] = Taken(NoWindow)] /\ table' = table
      <4>1. \A u \in Threads : call'[u].window = call[u].window
        BY <3>1, <3>2 DEF TypeOK
      <4> QED
        BY <3>1, <3>2, <4>1, OthersKeepOwners
    <3>3. ASSUME NEW h \in DOMAIN table, TakeHandle(h), call' = [call EXCEPT ![t] = Taken(table[h])]
          PROVE  WindowInv'
      BY <3>1, <3>3, TakeKeepsOwners
    <3> QED
      BY <2>3, <3>2, <3>3 DEF BeginNew
  <2>4. CASE SourceFails(t)
    <3>1. PICK w \in Windows \cup {NoWindow} : call[t].window = w
      BY CallNames
    <3>2. /\ call' = [call EXCEPT ![t] = Idle] /\ freed' = freed \cup ({w} \ {NoWindow})
          /\ UNCHANGED <<registry, output>>
      BY <2>4, <3>1 DEF SourceFails, Abandon
    <3>3. call'[t].window = NoWindow /\ \A u \in Threads \ {t} : call'[u].window = call[u].window
      BY <3>2 DEF TypeOK
    <3> QED
      BY <3>1, <3>2, <3>3, FreeKeepsOwners
  <2>5. CASE EngineRefused(t)
    <3>1. PICK p \in Players : call[t].player = p
      BY <2>5, CallNames DEF EngineRefused
    <3>2. call[t].window = NoWindow
      BY <2>5, CallNames DEF EngineRefused
    <3>3. \A u \in Threads : call'[u].window = call[u].window
      BY <2>5, <3>2 DEF EngineRefused, TypeOK
    <3>4. PICK w \in Windows \cup {NoWindow} : output[p] = w
      BY DEF TypeOK
    <3>5. CASE freed' = freed \cup ({w} \ {NoWindow}) /\ output' = [output EXCEPT ![p] = NoWindow]
      BY <2>5, <3>3, <3>4, <3>5, FreeKeepsOwners DEF EngineRefused
    <3>6. CASE UNCHANGED <<freed, output>>
      BY <2>5, <3>3, <3>6, OthersKeepOwners DEF EngineRefused
    <3> QED
      BY <2>5, <3>1, <3>4, <3>5, <3>6 DEF EngineRefused, RefusedFactory
  <2>6. ASSUME UNCHANGED <<registry, freed, output>>,
               call[t].window = NoWindow,
               \/ call' = call
               \/ \E c : c.window = NoWindow /\ call' = [call EXCEPT ![t] = c]
        PROVE  WindowInv'
    <3>1. \A u \in Threads : call'[u].window = call[u].window
      BY <2>6 DEF TypeOK
    <3> QED
      BY <2>6, <3>1, OthersKeepOwners
  <2>7. call[t].op # "taken" => call[t].window = NoWindow
    BY CallNames
  <2>8. ASSUME NEW p \in Players, NEW op \in {"using", "releasing"}, Begin(t, p, op) PROVE WindowInv'
    <3>1. call[t].window = NoWindow
      BY <2>7, <2>8 DEF Begin
    <3>2. [Idle EXCEPT !.op = op, !.player = p].window = NoWindow
      OBVIOUS
    <3> QED
      BY <2>6, <2>8, <3>1, <3>2 DEF Begin
  <2>9. ASSUME NEW p \in Players PROVE [Idle EXCEPT !.op = "dropping", !.player = p].window = NoWindow
    OBVIOUS
  <2>10. ASSUME NEW p \in Players, Forget(t, p) PROVE WindowInv'
    <3>1. call[t].window = NoWindow
      BY <2>7, <2>10 DEF Forget
    <3> QED
      BY <2>6, <2>9, <2>10, <3>1 DEF Forget
  <2>11. ASSUME NEW p \in Players, Finish(t, p), call[t].window = NoWindow,
                UNCHANGED <<registry, freed, output>>
         PROVE  WindowInv'
    BY <2>6, <2>9, <2>11 DEF Finish
  <2>12. CASE Use(t)
    BY <2>7, <2>11, <2>12, CallNames DEF Use
  <2>13. CASE Release(t)
    <3>1. call[t].window = NoWindow /\ call[t].player \in Players
      BY <2>13, CallNames DEF Release
    <3>2. [call[t] EXCEPT !.op = "joining"].window = NoWindow
      BY <2>13, <3>1 DEF TypeOK, Calls, Release
    <3> QED
      BY <2>6, <2>11, <2>13, <3>1, <3>2 DEF Release
  <2>14. CASE EngineOpens(t) \/ ReleaseReturns(t) \/ DropReturns(t)
    <3>1. call[t].window = NoWindow
      BY <2>7, <2>14 DEF EngineOpens, ReleaseReturns, DropReturns
    <3>2. call' = [call EXCEPT ![t] = Idle] /\ UNCHANGED <<registry, freed, output>>
      BY <2>14 DEF EngineOpens, ReleaseReturns, DropReturns
    <3> QED
      BY <2>6, <3>1, <3>2
  <2> QED
    BY <1>1, <2>1, <2>2, <2>3, <2>4, <2>5, <2>8, <2>10, <2>12, <2>13, <2>14, CreateKeepsOwners
       DEF Step, Proceed
<1>2. ASSUME NEW p \in Players, ThreadsEnd(p) PROVE WindowInv'
  <2>1. PICK w \in Windows \cup {NoWindow} : output[p] = w
    BY DEF TypeOK
  <2> QED
    BY <1>2, <2>1, FreeKeepsOwners DEF ThreadsEnd
<1>3. CASE UNCHANGED vars
  BY <1>3, OthersKeepOwners DEF vars
<1> QED
  BY <1>1, <1>2, <1>3, NextIsStep

(***************************************************************************)
(* However register, discard, constructors, releases and drops race, a     *)
(* registered window is in the table, in one constructor or in one engine, *)
(* or was given back; and no handle ever meant two windows.                *)
(***************************************************************************)
THEOREM OneOwnerAlways == Spec => []OneOwner
<1>1. Init => WindowInv
  BY NamesAssumption DEF Init, WindowInv, HandlesFit, WindowFits, Apart, Somewhere, InTable, InCall,
                         InEngine
<1>2. TypeOK /\ EngineInv /\ WindowInv /\ [Next]_vars => WindowInv'
  BY WindowNext
<1>3. TypeOK /\ WindowInv => OneOwner
  BY WindowInvImplies
<1> QED
  BY <1>1, <1>2, <1>3, TypeCorrect, EngineAlways, PTL DEF Spec

(***************************************************************************)
(* A handle whose window was taken is spent for good, also when the        *)
(* constructor that took it fails.                                         *)
(***************************************************************************)
THEOREM HandlesAreSpentAlways == Spec => HandlesAreSpent
<1> DEFINE Spent == \A h \in 1 .. nextHandle - 1 : h \notin DOMAIN table => h \notin DOMAIN table'
<1>1. ASSUME TypeOK, [Next]_vars PROVE Spent
  <2>1. \/ UNCHANGED table
        \/ \E h \in DOMAIN table : TakeHandle(h)
        \/ DOMAIN table' = DOMAIN table \cup {nextHandle}
    BY <1>1, NextIsStep
       DEF Step, Proceed, Register, IssuedHandle, Discard, BeginNew, Begin, Forget, SourceFails, Abandon,
           CreateEngine, EngineOpens, EngineRefused, Use, Release, ReleaseReturns, DropReturns,
           ThreadsEnd, vars
  <2>2. \A h \in DOMAIN table : TakeHandle(h) => DOMAIN table' \subseteq DOMAIN table
    BY DEF TakeHandle, Restrict
  <2> QED
    BY <1>1, <2>1, <2>2 DEF TypeOK
<1>2. [Spent]_vars <=> Spent
  BY DEF vars
<1> QED
  BY <1>1, TypeCorrect, PTL DEF Spec, HandlesAreSpent


-----------------------------------------------------------------------------
(* A step that moves one player's engine along the contract. *)
EngineMoves(p) ==
    \/ phase'[p] = phase[p] /\ threads'[p] = threads[p]
    \/ phase[p] = "absent" /\ phase'[p] = "creating" /\ threads'[p] = TRUE
    \/ phase[p] = "creating" /\ phase'[p] \in {"open", "refusing"} /\ threads'[p] = threads[p]
    \/ phase[p] = "refusing" /\ ~threads[p] /\ phase'[p] = "refused" /\ threads'[p] = threads[p]
    \/ phase[p] = "open" /\ phase'[p] = "closing" /\ threads'[p] = threads[p]
    \/ phase[p] = "closing" /\ ~threads[p] /\ phase'[p] = "closed" /\ threads'[p] = threads[p]
    \/ phase'[p] = phase[p] /\ threads[p] /\ ~threads'[p]

LEMMA MovesAreSteps ==
    ASSUME TypeOK, NEW p \in Players, EngineMoves(p)
    PROVE  [Engine(p)!Next]_<<phase[p], threads[p]>>
<1>1. threads[p] \in BOOLEAN
  BY DEF TypeOK
<1> QED
  BY <1>1 DEF EngineMoves, Engine!Next, Engine!Create, Engine!Open, Engine!Refuse, Engine!Refused,
              Engine!Close, Engine!Closed, Engine!LastThreadEnds

LEMMA EnginesMove ==
    ASSUME TypeOK, EngineInv, [Next]_vars, NEW p \in Players
    PROVE  EngineMoves(p)
<1>1. PlayerFits(p) /\ EngineFits(p)
  BY DEF EngineInv
<1>2. ASSUME UNCHANGED <<phase, threads>> PROVE EngineMoves(p)
  BY <1>2 DEF EngineMoves
<1>3. ASSUME NEW t \in Threads, Step(t) PROVE EngineMoves(p)
  <2>1. CASE (\E w \in Windows : Register(t, w)) \/ (\E h \in 1 .. MaxHandle : Discard(t, h)) \/ BeginNew(t)
             \/ (\E q \in Players, op \in {"using", "releasing"} : Begin(t, q, op)) \/ SourceFails(t)
    BY <1>2, <2>1 DEF Register, Discard, BeginNew, Begin, SourceFails, engine
  <2>2. ASSUME NEW q \in Players, slot[q], phase' = [phase EXCEPT ![q] = "closing"], threads' = threads
        PROVE  EngineMoves(p)
    <3>1. phase[q] = "open"
      BY <2>2 DEF EngineInv, PlayerFits
    <3> QED
      BY <2>2, <3>1 DEF EngineMoves, TypeOK
  <2>3. ASSUME NEW q \in Players, Forget(t, q) PROVE EngineMoves(p)
    BY <1>2, <2>2, <2>3 DEF Forget, Move
  <2>4. ASSUME NEW q \in Players, Finish(t, q), threads' = threads PROVE EngineMoves(p)
    BY <1>2, <2>2, <2>4 DEF Finish, Move
  <2>5. CASE CreateEngine(t)
    BY <2>5 DEF CreateEngine, Move, EngineMoves, TypeOK
  <2>6. CASE Use(t) \/ Release(t)
    <3>1. call[t].player \in Players
      BY <2>6, CallNames DEF Use, Release
    <3> QED
      BY <2>2, <2>4, <2>6, <3>1 DEF Use, Release, Move
  <2>7. CASE EngineOpens(t) \/ EngineRefused(t) \/ ReleaseReturns(t) \/ DropReturns(t)
    <3>1. PICK q \in Players : call[t].player = q
      BY <2>7, CallNames DEF EngineOpens, EngineRefused, ReleaseReturns, DropReturns
    <3>2. threads' = threads
      BY <2>7 DEF EngineOpens, EngineRefused, ReleaseReturns, DropReturns
    <3>3. \/ phase' = phase
          \/ phase[q] = "creating" /\ phase' = [phase EXCEPT ![q] = "open"]
          \/ phase[q] = "creating" /\ phase' = [phase EXCEPT ![q] = "refusing"]
          \/ phase[q] = "refusing" /\ ~threads[q] /\ phase' = [phase EXCEPT ![q] = "refused"]
          \/ phase[q] = "closing" /\ ~threads[q] /\ phase' = [phase EXCEPT ![q] = "closed"]
      BY <2>7, <3>1 DEF EngineOpens, EngineRefused, ReleaseReturns, DropReturns, Move
    <3> QED
      BY <3>2, <3>3 DEF EngineMoves, TypeOK
  <2> QED
    BY <1>3, <2>1, <2>3, <2>5, <2>6, <2>7 DEF Step, Proceed
<1>4. ASSUME NEW q \in Players, ThreadsEnd(q) PROVE EngineMoves(p)
  BY <1>4 DEF ThreadsEnd, EngineMoves, TypeOK
<1>5. CASE UNCHANGED vars
  BY <1>2, <1>5 DEF vars, engine
<1> QED
  BY <1>3, <1>4, <1>5, NextIsStep

(***************************************************************************)
(* Java's calls, however they race, use each engine as EngineContract      *)
(* says: it is shut down once, by whoever took it out of the mutex, and    *)
(* only while it is open.  So what is proved of the bridge holds of it on  *)
(* top of any engine that keeps the contract.                              *)
(***************************************************************************)
THEOREM EnginesAreUsedInContract == Spec => EnginesInContract
<1>1. Init => \A p \in Players : Engine(p)!Init
  BY DEF Init, Engine!Init
<1> DEFINE Moves == \A p \in Players : [Engine(p)!Next]_<<phase[p], threads[p]>>
<1>2. TypeOK /\ EngineInv /\ [Next]_vars => [Moves]_vars
  BY EnginesMove, MovesAreSteps
<1> QED
  BY <1>1, <1>2, TypeCorrect, EngineAlways, PTL DEF Spec, EnginesInContract

=============================================================================
