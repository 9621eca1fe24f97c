---------------------------- MODULE PlayerBridge ----------------------------
(***************************************************************************)
(* What Java sees of the player (moonegg-ffi): the table of surfaces on    *)
(* their way from Java to a player, and NativePlayer, a mutex around an    *)
(* engine that `release` takes out.  Any Java thread may call anything at  *)
(* any time; a thread is in one call at a time.                            *)
(*                                                                         *)
(* An engine is what EngineContract says of it.  The generated binding     *)
(* keeps a player alive while a call on it is in flight, so Drop runs on   *)
(* the thread that gives up the last reference.  The registry's own mutex  *)
(* is never held over anything that blocks: its operations are atomic.     *)
(***************************************************************************)
EXTENDS Integers, Functions

CONSTANTS
    Threads,    \* Java threads
    Players,    \* NativePlayer objects, at most this many in a run
    Windows,    \* references to a native window, one per registered surface
    MaxHandle   \* the last value of the handle counter (i64::MAX in the code)

ASSUME MaxHandleAssumption == MaxHandle \in Nat \ {0}

NoThread == "no thread"
NoPlayer == "no player"
NoWindow == "no window"

ASSUME NamesAssumption ==
    NoThread \notin Threads /\ NoPlayer \notin Players /\ NoWindow \notin Windows

VARIABLES
    nextHandle, table,  \* SurfaceRegistry: windows by handle
    freed,      \* windows given back to the system
    told,       \* history: the handle Java was told for each window, 0 for none
    phase, threads, output,     \* each player's engine, and the window it holds
    slot,       \* whether the mutex of the player still contains the engine
    lock,       \* who holds that mutex
    held,       \* whether Java holds the player
    released,   \* history: players whose release has returned
    call        \* what each Java thread is doing

registry == <<nextHandle, table, told>>
engine == <<phase, threads, output>>
player == <<slot, lock, held, released>>
vars == <<registry, freed, engine, player, call>>

Idle == [op |-> "idle", player |-> NoPlayer, window |-> NoWindow]

Taken(w) == [op |-> "taken", player |-> NoPlayer, window |-> w]

Calls ==
    {Idle}
    \cup {Taken(w) : w \in Windows \cup {NoWindow}}
    \cup [op : {"creating", "using", "releasing", "joining", "dropping"},
          player : Players, window : {NoWindow}]

Init ==
    /\ nextHandle = 1 /\ table = <<>> /\ freed = {}
    /\ told = [w \in Windows |-> 0]
    /\ phase = [p \in Players |-> "absent"]
    /\ threads = [p \in Players |-> FALSE]
    /\ output = [p \in Players |-> NoWindow]
    /\ slot = [p \in Players |-> FALSE]
    /\ lock = [p \in Players |-> NoThread]
    /\ held = [p \in Players |-> FALSE]
    /\ released = {}
    /\ call = [t \in Threads |-> Idle]

Becomes(t, c) == call' = [call EXCEPT ![t] = c]
Move(p, to) == phase' = [phase EXCEPT ![p] = to]
Free(w) == freed' = freed \cup ({w} \ {NoWindow})

-----------------------------------------------------------------------------
(* The surface registry *)

(* The counter only grows. *)
IssuedHandle == nextHandle

(* nativeRegisterSurface; when the handles are used up the window is dropped. *)
Register(t, w) ==
    /\ call[t] = Idle
    /\ told[w] = 0 /\ w \notin freed
    /\ IF nextHandle < MaxHandle
         THEN /\ table' = [h \in DOMAIN table \cup {IssuedHandle} |->
                              IF h = IssuedHandle THEN w ELSE table[h]]
              /\ told' = [told EXCEPT ![w] = IssuedHandle]
              /\ nextHandle' = nextHandle + 1
              /\ freed' = freed
         ELSE Free(w) /\ UNCHANGED registry
    /\ UNCHANGED <<engine, player, call>>

(* Mutant: the window is lent and stays in the table. *)
LendHandle(h) == table' = table

(* The handle is good for one window, once. *)
TakeHandle(h) == table' = Restrict(table, DOMAIN table \ {h})

(* nativeDiscardSurface; for an unknown handle it does nothing. *)
Discard(t, h) ==
    /\ call[t] = Idle
    /\ h \in DOMAIN table
    /\ TakeHandle(h)
    /\ Free(table[h])
    /\ UNCHANGED <<nextHandle, told, engine, player, call>>

-----------------------------------------------------------------------------
(* The constructors *)

(* from_av_file_descriptor takes its window first; the others need none. *)
BeginNew(t) ==
    /\ call[t] = Idle
    /\ \/ /\ Becomes(t, Taken(NoWindow))
          /\ table' = table
       \/ \E h \in DOMAIN table :
            /\ TakeHandle(h)
            /\ Becomes(t, Taken(table[h]))
    /\ UNCHANGED <<nextHandle, told, freed, engine, player>>

(* A window that was taken is dropped, whatever goes wrong afterwards. *)
Abandon(w) == Free(w) /\ table' = table

(* The source is refused: a bad descriptor, a bad range, or fcntl fails. *)
SourceFails(t) ==
    /\ call[t].op = "taken"
    /\ Abandon(call[t].window)
    /\ Becomes(t, Idle)
    /\ UNCHANGED <<nextHandle, told, engine, player>>

(* PlayerEngine::new begins; the factory owns the window. *)
CreateEngine(t) ==
    /\ call[t].op = "taken"
    /\ \E p \in Players :
        /\ phase[p] = "absent"
        /\ Move(p, "creating")
        /\ threads' = [threads EXCEPT ![p] = TRUE]
        /\ output' = [output EXCEPT ![p] = call[t].window]
        /\ Becomes(t, [Idle EXCEPT !.op = "creating", !.player = p])
    /\ UNCHANGED <<registry, freed, player>>

EngineOpens(t) ==
    LET p == call[t].player IN
    /\ call[t].op = "creating" /\ phase[p] = "creating"
    /\ Move(p, "open")
    /\ slot' = [slot EXCEPT ![p] = TRUE]
    /\ held' = [held EXCEPT ![p] = TRUE]
    /\ Becomes(t, Idle)
    /\ UNCHANGED <<registry, freed, threads, output, lock, released>>

(* The closure that could not be started is dropped, and the factory with it. *)
RefusedFactory(p) ==
    /\ Free(output[p])
    /\ output' = [output EXCEPT ![p] = NoWindow]

EngineRefused(t) ==
    LET p == call[t].player IN
    /\ call[t].op = "creating"
    /\ \/ /\ phase[p] = "creating"
          /\ Move(p, "refusing")
          /\ RefusedFactory(p)
          /\ call' = call
       \/ /\ phase[p] = "refusing" /\ ~threads[p]
          /\ Move(p, "refused")
          /\ Becomes(t, Idle)
          /\ UNCHANGED <<freed, output>>
    /\ UNCHANGED <<registry, threads, player>>

-----------------------------------------------------------------------------
(* Calls on a player *)

Begin(t, p, op) ==
    /\ call[t] = Idle
    /\ held[p]
    /\ Becomes(t, [Idle EXCEPT !.op = op, !.player = p])
    /\ UNCHANGED <<registry, freed, engine, player>>

LastReference(t, p) == ~held[p] /\ \A u \in Threads \ {t} : call[u].player # p

(***************************************************************************)
(* The call is over.  If it kept the last reference, Drop for NativePlayer *)
(* follows on this thread and shuts down an engine that is still there.    *)
(***************************************************************************)
Finish(t, p) ==
    IF LastReference(t, p) /\ slot[p]
      THEN /\ slot' = [slot EXCEPT ![p] = FALSE]
           /\ Move(p, "closing")
           /\ Becomes(t, [Idle EXCEPT !.op = "dropping", !.player = p])
      ELSE Becomes(t, Idle) /\ UNCHANGED <<slot, phase>>

(***************************************************************************)
(* prepare, play, pause, stop, seek, poll_event: lock, find the engine or  *)
(* answer Released, pass on a message without blocking, unlock.            *)
(***************************************************************************)
Use(t) ==
    LET p == call[t].player IN
    /\ call[t].op = "using"
    /\ lock[p] = NoThread
    /\ Finish(t, p)
    /\ UNCHANGED <<registry, freed, threads, output, lock, held, released>>

(* Mutant: the engine is taken out in a lock of its own, and joined after it. *)
LockForTake(t) == NoThread

(* The guard lives as long as release does. *)
LockForRelease(t) == t

Release(t) ==
    LET p == call[t].player IN
    /\ call[t].op = "releasing"
    /\ lock[p] = NoThread
    /\ IF slot[p]
         THEN /\ slot' = [slot EXCEPT ![p] = FALSE]
              /\ lock' = [lock EXCEPT ![p] = LockForRelease(t)]
              /\ Move(p, "closing")
              /\ Becomes(t, [call[t] EXCEPT !.op = "joining"])
              /\ released' = released
         ELSE /\ released' = released \cup {p}
              /\ Finish(t, p)
              /\ lock' = lock
    /\ UNCHANGED <<registry, freed, threads, output, held>>

(* Mutant: release leaves through an error and never gives the lock back. *)
LockAfterError(p) == lock

Unlocked(p) == [lock EXCEPT ![p] = NoThread]

(* shutdown has returned, clean or not: release returns. *)
ReleaseReturns(t) ==
    LET p == call[t].player IN
    /\ call[t].op = "joining"
    /\ phase[p] = "closing" /\ ~threads[p]
    /\ Move(p, "closed")
    /\ lock' = Unlocked(p)
    /\ released' = released \cup {p}
    /\ Becomes(t, Idle)
    /\ UNCHANGED <<registry, freed, threads, output, slot, held>>

(* Java gives up its reference (close, or the garbage collector). *)
Forget(t, p) ==
    /\ call[t] = Idle
    /\ held[p]
    /\ held' = [held EXCEPT ![p] = FALSE]
    /\ IF slot[p] /\ \A u \in Threads \ {t} : call[u].player # p
         THEN /\ slot' = [slot EXCEPT ![p] = FALSE]
              /\ Move(p, "closing")
              /\ Becomes(t, [Idle EXCEPT !.op = "dropping", !.player = p])
         ELSE UNCHANGED <<slot, phase, call>>
    /\ UNCHANGED <<registry, freed, threads, output, lock, released>>

DropReturns(t) ==
    LET p == call[t].player IN
    /\ call[t].op = "dropping"
    /\ phase[p] = "closing" /\ ~threads[p]
    /\ Move(p, "closed")
    /\ Becomes(t, Idle)
    /\ UNCHANGED <<registry, freed, threads, output, player>>

(* The last thread of an engine ends and the window it used goes with it. *)
ThreadsEnd(p) ==
    /\ threads[p]
    /\ threads' = [threads EXCEPT ![p] = FALSE]
    /\ Free(output[p])
    /\ output' = [output EXCEPT ![p] = NoWindow]
    /\ UNCHANGED <<registry, phase, player, call>>

-----------------------------------------------------------------------------

(* What a thread does once it is inside a call. *)
Proceed(t) ==
    \/ SourceFails(t) \/ CreateEngine(t) \/ EngineOpens(t) \/ EngineRefused(t)
    \/ Use(t) \/ Release(t) \/ ReleaseReturns(t) \/ DropReturns(t)

Next ==
    \/ \E t \in Threads :
        \/ \E w \in Windows : Register(t, w)
        \/ \E h \in 1 .. MaxHandle : Discard(t, h)
        \/ BeginNew(t)
        \/ \E p \in Players, op \in {"using", "releasing"} : Begin(t, p, op)
        \/ \E p \in Players : Forget(t, p)
        \/ Proceed(t)
    \/ \E p \in Players : ThreadsEnd(p)

(* Java may stop calling; a call that has begun runs, and a shutdown ends. *)
Fairness ==
    /\ \A t \in Threads : WF_vars(Proceed(t))
    /\ \A p \in Players : WF_vars(phase[p] \in {"closing", "refusing"} /\ ThreadsEnd(p))

Spec == Init /\ [][Next]_vars /\ Fairness

-----------------------------------------------------------------------------

TypeOK ==
    /\ nextHandle \in 1 .. MaxHandle
    /\ DOMAIN table \subseteq 1 .. nextHandle - 1 /\ table \in [DOMAIN table -> Windows]
    /\ freed \subseteq Windows
    /\ told \in [Windows -> 0 .. MaxHandle]
    /\ phase \in [Players -> {"absent", "creating", "open", "closing", "closed",
                              "refusing", "refused"}]
    /\ threads \in [Players -> BOOLEAN]
    /\ output \in [Players -> Windows \cup {NoWindow}]
    /\ slot \in [Players -> BOOLEAN]
    /\ lock \in [Players -> Threads \cup {NoThread}]
    /\ held \in [Players -> BOOLEAN]
    /\ released \subseteq Players
    /\ call \in [Threads -> Calls]

Holders(w) ==
    {<<"table", h>> : h \in {i \in DOMAIN table : table[i] = w}}
    \cup {<<"call", t>> : t \in {u \in Threads : call[u].window = w}}
    \cup {<<"engine", p>> : p \in {q \in Players : output[q] = w}}

(***************************************************************************)
(* A registered window is in exactly one place, the table, a constructor   *)
(* or an engine, until it is given back, and then in none: however take    *)
(* and discard race for a handle, no window is used twice, freed under its *)
(* user, or lost.  And no handle was ever told for two windows, so that a  *)
(* late discard cannot hit the window of somebody else.                    *)
(***************************************************************************)
OneOwner ==
    /\ \A w \in Windows :
        IF told[w] # 0 /\ w \notin freed
          THEN \E x \in Holders(w) : Holders(w) = {x}
          ELSE Holders(w) = {}
    /\ \A v, w \in Windows : v # w /\ told[v] = told[w] => told[v] = 0

(***************************************************************************)
(* When any release of a player has returned, be it the one that shut the  *)
(* engine down or one that found it gone, the engine has no thread and no  *)
(* window left, so that Java may destroy the surface: release holds the    *)
(* mutex over the joins for that.  And a player that nobody can reach any  *)
(* more, or that could not be created, leaves no engine running once its   *)
(* last call has returned.                                                 *)
(***************************************************************************)
IsOver(p) == ~slot[p] /\ ~threads[p] /\ output[p] = NoWindow

Unreachable(p) == ~held[p] /\ \A t \in Threads : call[t].player # p

ReleasedIsOver == \A p \in Players : p \in released \/ Unreachable(p) => IsOver(p)

(* A handle that is used up is never good again. *)
HandlesAreSpent ==
    [][\A h \in 1 .. nextHandle - 1 : h \notin DOMAIN table => h \notin DOMAIN table']_vars

(***************************************************************************)
(* Every engine is used as PlayerEngine allows (EngineContract): shut down *)
(* at most once, by release or by drop, never before it is open, and not   *)
(* believed closed while a thread of it runs.                              *)
(***************************************************************************)
Engine(p) == INSTANCE EngineContract WITH phase <- phase[p], threads <- threads[p]
EnginesInContract ==
    /\ \A p \in Players : Engine(p)!Init
    /\ [][\A p \in Players : [Engine(p)!Next]_<<phase[p], threads[p]>>]_vars

(* Every call returns, also one that waits for a release in progress. *)
EveryCallReturns == \A t \in Threads : call[t] # Idle ~> call[t] = Idle

==============================================================================
