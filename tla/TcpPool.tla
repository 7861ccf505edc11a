------------------------------ MODULE TcpPool -------------------------------
(***************************************************************************)
(* The control blocks of TCP: the pool they come from, the lists they are  *)
(* on and the timers that walk these lists while the callbacks they make   *)
(* change them (tcp.c, tcp_in.c).                                          *)
(*                                                                         *)
(* What a connection does is TcpConn's: here its state is one of           *)
(* ActiveStates, CLOSED or TIME_WAIT, where OPEN stands for ESTABLISHED    *)
(* and CLOSE_WAIT, and CLOSING for the states after tcp_close.  All blocks *)
(* have the priority tcp_alloc gives them.                                 *)
(***************************************************************************)
EXTENDS Naturals, FiniteSets, Sequences, SequencesExt

CONSTANTS
  Blocks,        \* the blocks of MEMP_TCP_PCB
  NoBlock,       \* NULL
  TimeWait,      \* slow ticks a block stays in TIME_WAIT, and the bound of ages
  Reconnects     \* whether an application connects anew in its error callback

ASSUME PoolAssumption ==
  /\ IsFiniteSet(Blocks) /\ NoBlock \notin Blocks
  /\ TimeWait \in Nat /\ Reconnects \in BOOLEAN

VARIABLES
  pcbs,      \* for each block: state, next, and age, tcp_ticks - tmr
  pcblists,  \* tcp_active_pcbs, tcp_tw_pcbs and tcp_bound_pcbs
  freepcbs,  \* the free blocks, the one to be given next first
  handles,   \* the blocks the applications know of
  walk       \* tcp_tmr: pc; pcb and prev; due, the blocks still to be visited,
             \* and cut, whether a callback has freed the block it was for

poolVars == <<pcbs, pcblists, freepcbs, handles, walk>>

ActiveStates == {"SYN_SENT", "SYN_RCVD", "OPEN", "CLOSING"}

Lists == {"active", "tw", "bound"}

Fresh == [state |-> "CLOSED", next |-> NoBlock, age |-> 0]
Idle  == [pc |-> "idle", odd |-> FALSE, pcb |-> NoBlock, prev |-> NoBlock,
          due |-> {}, cut |-> FALSE]

PoolInit ==
  /\ pcbs = [b \in Blocks |-> Fresh]
  /\ pcblists = [l \in Lists |-> NoBlock]
  /\ freepcbs = SetToSeq(Blocks)
  /\ handles = {}
  /\ walk = Idle

-----------------------------------------------------------------------------
(* The functions below work on the variables, but for walk, as one record *)

Pool == [pcb |-> pcbs, list |-> pcblists, free |-> freepcbs, mine |-> handles]

SetPool(s) ==
  /\ pcbs' = s.pcb /\ pcblists' = s.list /\ freepcbs' = s.free /\ handles' = s.mine

Closed(s, T) == \A c \in T : s.pcb[c].next \in T \cup {NoBlock}

(* The blocks on the way from b along next. *)
From(s, b) ==
  {c \in Blocks : \A T \in SUBSET Blocks : b \in T \cup {NoBlock} /\ Closed(s, T) => c \in T}

On(s, l) == From(s, s.list[l])

(* TCP_REG *)
Reg(s, l, b) == [s EXCEPT !.pcb[b].next = s.list[l], !.list[l] = b]

(* TCP_RMV *)
Rmv(s, l, b) ==
  LET before == {c \in On(s, l) : s.pcb[c].next = b}
  IN  [s EXCEPT !.list[l] = IF @ = b THEN s.pcb[b].next ELSE @,
                !.pcb = [c \in Blocks |->
                  CASE c = b          -> [@[b] EXCEPT !.next = NoBlock]
                    [] c \in before /\ c # b -> [@[c] EXCEPT !.next = s.pcb[b].next]
                    [] OTHER          -> @[c]]]

(* A walk takes b off a list by way of prev, the block before it. *)
Unlink(s, l, prev, b) ==
  [s EXCEPT !.list[l] = IF prev = NoBlock THEN s.pcb[b].next ELSE @,
            !.pcb = [c \in Blocks |->
              IF c = prev THEN [@[c] EXCEPT !.next = s.pcb[b].next] ELSE @[c]]]

(* memp_free *)
Free(s, b) == [s EXCEPT !.free = <<b>> \o @]

(* tcp_pcb_remove and memp_free; the application is told, or has asked for it. *)
Dispose(s, l, b) ==
  [Free(Rmv(s, l, b), b) EXCEPT !.pcb[b].state = "CLOSED", !.mine = @ \ {b}]

(* tcp_abandon.  Its error callback calls nothing here. *)
Abandon(s, b) == Dispose(s, IF s.pcb[b].state = "TIME_WAIT" THEN "tw" ELSE "active", b)

(* The blocks of a list that have been inactive for longest; ages that have   *)
(* reached the bound are alike.                                               *)
Inactive(s, l) == {b \in On(s, l) : \A c \in On(s, l) : s.pcb[c].age <= s.pcb[b].age}

(* tcp_kill_timewait and tcp_kill_prio: a block of the list is freed, if it   *)
(* has one.                                                                   *)
Kill(s, l) == IF Inactive(s, l) = {} THEN {s} ELSE {Abandon(s, b) : b \in Inactive(s, l)}

(* tcp_alloc: [pool, pcb] for each way it can go.  kills: the priority asked  *)
(* for is not below that of the connections.                                  *)
Alloc(s, kills) ==
  LET tried  == IF s.free = <<>> THEN Kill(s, "tw") ELSE {s}
      tried2 == UNION {IF t.free = <<>> /\ kills THEN Kill(t, "active") ELSE {t} : t \in tried}
      give(t) == IF t.free = <<>> THEN [pool |-> t, pcb |-> NoBlock]
                 ELSE [pool |-> [t EXCEPT !.free = Tail(@), !.pcb[Head(t.free)] = Fresh],
                       pcb |-> Head(t.free)]
  IN  {give(t) : t \in tried2}

-----------------------------------------------------------------------------
(* Calls of the application *)

New(s) ==
  {IF a.pcb = NoBlock THEN a.pool ELSE [a.pool EXCEPT !.mine = @ \cup {a.pcb}] : a \in Alloc(s, TRUE)}

Unused(s) == {b \in s.mine : s.pcb[b].state = "CLOSED"}

Connect(s, b) == Reg([Rmv(s, "bound", b) EXCEPT !.pcb[b].state = "SYN_SENT"], "active", b)

(* What an application may do in its error callback. *)
NewAndConnect(s) ==
  {IF a.pcb = NoBlock THEN a.pool
   ELSE Connect([a.pool EXCEPT !.mine = @ \cup {a.pcb}], a.pcb) : a \in Alloc(s, TRUE)}

(* tcp_close; sent: there was memory for the FIN. *)
Close(s, b, sent) ==
  CASE s.pcb[b].state = "CLOSED"   -> Dispose(s, "bound", b)
    [] s.pcb[b].state = "SYN_SENT" -> Dispose(s, "active", b)
    [] s.pcb[b].state = "OPEN" /\ sent -> [s EXCEPT !.pcb[b].state = "CLOSING", !.mine = @ \ {b}]
    [] OTHER -> s

tcp_new == walk.pc = "idle" /\ \E s \in New(Pool) : SetPool(s) /\ UNCHANGED walk

tcp_bind ==
  /\ walk.pc = "idle"
  /\ \E b \in Unused(Pool) \ On(Pool, "bound") : SetPool(Reg(Pool, "bound", b))
  /\ UNCHANGED walk

(* The block is given back; the listening block is of another pool. *)
tcp_listen ==
  /\ walk.pc = "idle"
  /\ \E b \in On(Pool, "bound") : SetPool(Dispose(Pool, "bound", b))
  /\ UNCHANGED walk

tcp_connect ==
  /\ walk.pc = "idle"
  /\ \E b \in Unused(Pool) : SetPool(Connect(Pool, b))
  /\ UNCHANGED walk

tcp_close ==
  /\ walk.pc = "idle"
  /\ \E b \in handles, sent \in BOOLEAN : SetPool(Close(Pool, b, sent))
  /\ UNCHANGED walk

tcp_abort ==
  /\ walk.pc = "idle"
  /\ \E b \in handles \ Unused(Pool) : SetPool(Abandon(Pool, b))
  /\ UNCHANGED walk

-----------------------------------------------------------------------------
(* Segments *)

ToFront(s, b) == Reg(Rmv(s, "active", b), "active", b)

ToTimeWait(s, b) == Reg([Rmv(s, "active", b) EXCEPT !.pcb[b].state = "TIME_WAIT"], "tw", b)

(* What tcp_process and the rest of tcp_input may do to the block b: nothing  *)
(* else, the connection opens or is refused by the application, it is closed  *)
(* on both sides, or reset.                                                   *)
Outcomes(s, b) ==
  {s, Dispose(s, "active", b)} \cup
  CASE s.pcb[b].state = "SYN_SENT" -> {[s EXCEPT !.pcb[b].state = "OPEN"]}
    [] s.pcb[b].state = "SYN_RCVD" -> {[s EXCEPT !.pcb[b].state = "OPEN", !.mine = @ \cup {b}]}
    [] s.pcb[b].state = "CLOSING"  -> {ToTimeWait(s, b)}
    [] OTHER                       -> {}

tcp_input ==
  /\ walk.pc = "idle"
  /\ \E b \in On(Pool, "active") :
       \E s \in Outcomes([ToFront(Pool, b) EXCEPT !.pcb[b].age = 0], b) : SetPool(s)
  /\ UNCHANGED walk

(* The priority of a listening block is never set: it may be any. *)
tcp_listen_input ==
  /\ walk.pc = "idle"
  /\ \E a \in UNION {Alloc(Pool, kills) : kills \in BOOLEAN}, queued \in BOOLEAN :
       LET r == Reg([a.pool EXCEPT !.pcb[a.pcb].state = "SYN_RCVD"], "active", a.pcb)
       IN  SetPool(IF a.pcb = NoBlock THEN a.pool
                   ELSE IF queued THEN r ELSE Abandon(r, a.pcb))
  /\ UNCHANGED walk

(* A FIN starts the time again. *)
tcp_timewait_input ==
  /\ walk.pc = "idle"
  /\ \E b \in On(Pool, "tw") : SetPool([Pool EXCEPT !.pcb[b].age = 0])
  /\ UNCHANGED walk

-----------------------------------------------------------------------------
(* tcp_tmr, one block at a time *)

(* What a callback for b may call: nothing, or one function, for its own      *)
(* connection.                                                                *)
Callback(s, b) ==
  {s} \cup (IF b \in s.mine THEN {Abandon(s, b), Close(s, b, TRUE)} ELSE {})

ErrorCallback(s, b) == {s} \cup (IF Reconnects /\ b \in handles THEN NewAndConnect(s) ELSE {})

tcp_tmr ==
  /\ walk.pc = "idle"
  /\ walk' = [walk EXCEPT !.pc = "fast", !.pcb = pcblists["active"]]
  /\ UNCHANGED <<pcbs, pcblists, freepcbs, handles>>

(* Data that was refused is offered again, or there is none. *)
FastVisit ==
  /\ walk.pc = "fast" /\ walk.pcb # NoBlock
  /\ \E s \in Callback(Pool, walk.pcb) :
       /\ SetPool(s)
       /\ walk' = [walk EXCEPT !.pcb = s.pcb[walk.pcb].next]

Older(p) == [p EXCEPT !.age = IF @ > TimeWait THEN @ ELSE @ + 1]

(* Every other time tcp_slowtmr follows. *)
FastDone ==
  /\ walk.pc = "fast" /\ walk.pcb = NoBlock
  /\ walk' = IF walk.odd THEN [Idle EXCEPT !.odd = FALSE]
             ELSE [walk EXCEPT !.pc = "slow", !.odd = TRUE, !.pcb = pcblists["active"],
                               !.due = On(Pool, "active")]
  /\ pcbs' = IF walk.odd THEN pcbs
             ELSE [b \in Blocks |-> IF b \in ToSet(freepcbs) THEN pcbs[b] ELSE Older(pcbs[b])]
  /\ UNCHANGED <<pcblists, freepcbs, handles>>

(* The block is taken off the list by way of prev, its application told, and  *)
(* freed; only then its successor is read.                                    *)
SlowRemove ==
  /\ walk.pc = "slow" /\ walk.pcb # NoBlock
  /\ LET b == walk.pcb
         off == [Unlink(Pool, "active", walk.prev, b) EXCEPT !.mine = @ \ {b}]
     IN  \E s \in ErrorCallback(off, b) :
           /\ SetPool([Free(s, b) EXCEPT !.pcb[b].state = "CLOSED"])
           /\ walk' = [walk EXCEPT !.pcb = s.pcb[b].next, !.due = @ \ {b}]

(* Bug: the successor is read before the callback. *)
NextVisitEarly(s, b) == Pool.pcb[b].next

NextVisit(s, b) == s.pcb[b].next

(* The timers go on and the application is polled, or not yet. *)
SlowKeep ==
  /\ walk.pc = "slow" /\ walk.pcb # NoBlock
  /\ \E s \in Callback(Pool, walk.pcb) :
       /\ SetPool(s)
       /\ walk' = [walk EXCEPT !.prev = walk.pcb, !.pcb = NextVisit(s, walk.pcb),
                               !.due = @ \ {walk.pcb},
                               !.cut = @ \/ walk.pcb \notin On(s, "active")]

(* Then the blocks in TIME_WAIT are looked at; they make no callbacks. *)
SlowDone ==
  /\ walk.pc = "slow" /\ walk.pcb = NoBlock
  /\ walk' = [Idle EXCEPT !.odd = walk.odd, !.pc = "tw", !.pcb = pcblists["tw"]]
  /\ UNCHANGED <<pcbs, pcblists, freepcbs, handles>>

TwRemove ==
  /\ walk.pc = "tw" /\ walk.pcb # NoBlock /\ pcbs[walk.pcb].age > TimeWait
  /\ SetPool([Free(Unlink(Pool, "tw", walk.prev, walk.pcb), walk.pcb)
                EXCEPT !.pcb[walk.pcb].state = "CLOSED"])
  /\ walk' = [walk EXCEPT !.pcb = pcbs[@].next]

TwKeep ==
  /\ walk.pc = "tw" /\ walk.pcb # NoBlock /\ pcbs[walk.pcb].age <= TimeWait
  /\ walk' = [walk EXCEPT !.prev = walk.pcb, !.pcb = pcbs[@].next]
  /\ UNCHANGED <<pcbs, pcblists, freepcbs, handles>>

TwDone ==
  /\ walk.pc = "tw" /\ walk.pcb = NoBlock
  /\ walk' = [Idle EXCEPT !.odd = walk.odd]
  /\ UNCHANGED <<pcbs, pcblists, freepcbs, handles>>

Timer ==
  \/ tcp_tmr \/ FastVisit \/ FastDone
  \/ SlowRemove \/ SlowKeep \/ SlowDone
  \/ TwRemove \/ TwKeep \/ TwDone

PoolNext ==
  \/ tcp_new \/ tcp_bind \/ tcp_listen \/ tcp_connect \/ tcp_close \/ tcp_abort
  \/ tcp_input \/ tcp_listen_input \/ tcp_timewait_input
  \/ Timer

PoolSpec == PoolInit /\ [][PoolNext]_poolVars

-----------------------------------------------------------------------------
(* Properties *)

(* The types of the blocks, of the lists and of what tcp_tmr remembers. *)
PoolTypeOK ==
  /\ \A b \in Blocks : /\ pcbs[b].state \in ActiveStates \cup {"CLOSED", "TIME_WAIT"}
                       /\ pcbs[b].next \in Blocks \cup {NoBlock}
                       /\ pcbs[b].age \in 0..(TimeWait + 1)
  /\ \A l \in Lists : pcblists[l] \in Blocks \cup {NoBlock}
  /\ ToSet(freepcbs) \cup handles \cup walk.due \subseteq Blocks
  /\ {walk.pcb, walk.prev} \subseteq Blocks \cup {NoBlock}

(* No block is lost and none is in two places: it is free, or on the one list *)
(* that its state says (tcp_pcbs_sane), or known to an application that has   *)
(* not used it yet.                                                           *)
EachBlockHasItsPlace ==
  /\ IsInjective(freepcbs)
  /\ \A b \in Blocks :
       LET places == {l \in Lists : b \in On(Pool, l)}
       IN  CASE b \in ToSet(freepcbs)             -> places = {}
             [] pcbs[b].state \in ActiveStates    -> places = {"active"}
             [] pcbs[b].state = "TIME_WAIT"       -> places = {"tw"}
             [] OTHER -> b \in handles /\ places \subseteq {"bound"}

(* An application knows no block that was freed, and none of a connection it  *)
(* has closed: when a connection is killed for its block, reset or given up,  *)
(* its application is told.                                                   *)
HandlesLive ==
  \A b \in handles : b \notin ToSet(freepcbs) /\ pcbs[b].state \in {"CLOSED", "SYN_SENT", "OPEN"}

(* What the lists and the applications know of the pool is the pool. *)
BlocksAccounted == EachBlockHasItsPlace /\ HandlesLive

(* The assertions of tcp_slowtmr: the block it is about to look at is on the  *)
(* list, and prev is the one before it, whatever the callbacks have done.     *)
WalkOnList ==
  LET l == IF walk.pc = "tw" THEN "tw" ELSE "active"
  IN  walk.pcb # NoBlock =>
        /\ walk.pcb \in On(Pool, l)
        /\ walk.pc \in {"slow", "tw"} =>
             IF walk.prev = NoBlock THEN pcblists[l] = walk.pcb
             ELSE /\ walk.prev \in On(Pool, l)
                  /\ pcbs[walk.prev].next = walk.pcb

(* tcp_slowtmr looks at every active connection once, unless a callback has   *)
(* freed the block it was called for: this ends the walk.                     *)
EachVisitedOnce ==
  walk.pc = "slow" => IF walk.pcb = NoBlock THEN walk.cut \/ walk.due = {} ELSE walk.pcb \in walk.due

(* The walk of a timer survives what its callbacks do to the list. *)
WalkSound == WalkOnList /\ EachVisitedOnce

(* Between the calls of the program and within the walks, the lists and the   *)
(* pool agree with each other and with what the applications were told.       *)
PoolSound == BlocksAccounted /\ WalkSound
=============================================================================
