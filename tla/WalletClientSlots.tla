------------------------- MODULE WalletClientSlots --------------------------
(***************************************************************************)
(* The slots of one client, for any number of calls of any kind: who owns  *)
(* a slot, and that nothing is published without owning it.                *)
(***************************************************************************)
EXTENDS WalletClient, TLAPS

WorkPc == {"sweeping", "waiting", "publish_account", "publish_activity", "finish",
           "publish", "account", "seqno", "emulation", "secret", "signing",
           "committed"}

RestPc == {"idle", "start", "asleep", "done"}

Pc == WorkPc \cup RestPc

\* The constants are what the host and the provider can be: a page has at
\* least two transactions (10 in the code), and logical times are positive.
Configured ==
  /\ Op \in [Calls -> Operation]
  /\ PageSize \in Nat /\ PageSize > 1 /\ NftPageSize \in Nat
  /\ MaxTx \in Nat
  /\ Visible \subseteq Nat \ {0}

\* The family of a call of the operation `op` that stands at `where`.
FamilyAt(op, where) == IF where = "sweeping" THEN "Resolution" ELSE FamilyOf(op)

Holds(c, f) == pc[c] \in WorkPc /\ FamilyAt(Op[c], pc[c]) = f

SlotTypes ==
  /\ pc \in [Calls -> Pc] /\ gen \in [Calls -> Nat]
  /\ active \in [Family -> Nat] /\ generation \in [Family -> Nat]
  /\ revision \in Nat
  /\ resource \in [Resource -> ResourcePhase]

\* Which operations can stand where.
ControlAt(op, where) ==
  /\ where \in {"sweeping", "start"} => op \in Sweeping
  /\ where = "waiting" => op \in {"refresh", "load_more_activity", "refresh_nfts",
                                  "load_more_nfts"}
  /\ where \in {"publish_account", "publish_activity", "finish"} => op = "refresh"
  /\ where = "publish" => op \in {"load_more_activity", "refresh_nfts",
                                  "load_more_nfts"}
  /\ where \in {"account", "seqno", "emulation", "secret"} =>
       op \in {"preview", "prepare_transfer"}
  /\ where \in {"signing", "committed"} => op = "send"

Control == \A c \in Calls : ControlAt(Op[c], pc[c])

\* The generation of a working call is one that its family has given.
Given ==
  /\ \A c \in Calls, f \in Family : Holds(c, f) => 1 <= gen[c] /\ gen[c] <= generation[f]
  /\ \A f \in Family : active[f] <= generation[f]

\* No two working calls of a family have the same generation.
Unique ==
  \A c, d \in Calls, f \in Family :
    Holds(c, f) /\ Holds(d, f) /\ gen[c] = gen[d] => c = d

\* The owner of a slot is a call at work; a preview that met a closing client
\* has left its slot to the shutdown.
Owned ==
  \A f \in Family : active[f] # 0 /\ (closing => f # "Preview") =>
    \E c \in Calls : Holds(c, f) /\ gen[c] = active[f]

\* The slots that exclude each other, and the end of the client.
Exclusion ==
  /\ SendExcludesResolution
  /\ active["Refresh"] = 0 \/ active["Pagination"] = 0
  /\ shutdown => \A f \in Family : active[f] = 0

SlotInv == SlotTypes /\ Control /\ Given /\ Unique /\ Owned /\ Exclusion

-----------------------------------------------------------------------------
(* The ways in which a step moves a call and changes the slots.            *)

\* Another slot than that of f is left alone or emptied.
Emptied(f) == \A g \in Family \ {f} : active'[g] = active[g] \/ active'[g] = 0

\* A call takes the slot of its family with a new generation.
Starts(c, f, where) ==
  /\ pc[c] \in RestPc /\ where \in WorkPc /\ f = FamilyAt(Op[c], where)
  /\ f \in Family /\ ControlAt(Op[c], where)
  /\ running /\ UNCHANGED <<closing, shutdown>>
  /\ pc' = [pc EXCEPT ![c] = where]
  /\ generation' = [generation EXCEPT ![f] = generation[f] + 1]
  /\ gen' = [gen EXCEPT ![c] = generation[f] + 1]
  /\ active' \in [Family -> Nat] /\ active'[f] = generation[f] + 1 /\ Emptied(f)
  /\ f \in {"Send", "Resolution"} => active["Send"] = 0 /\ active["Resolution"] = 0
  /\ f = "Pagination" => active["Refresh"] = 0
  /\ f = "Refresh" => active'["Pagination"] = 0

\* A call goes on with its generation.
Moves(c, where) ==
  /\ pc[c] \in WorkPc /\ where \in WorkPc
  /\ FamilyAt(Op[c], where) = FamilyAt(Op[c], pc[c]) /\ ControlAt(Op[c], where)
  /\ pc' = [pc EXCEPT ![c] = where]
  /\ UNCHANGED <<gen, active, generation, closing, shutdown>>

\* A call stops working: it empties its slot, or the slot was not its own.
Rests(c, where) ==
  /\ where \in RestPc /\ ControlAt(Op[c], where)
  /\ pc' = [pc EXCEPT ![c] = where]
  /\ \E g \in Nat : gen' = [gen EXCEPT ![c] = g]
  /\ UNCHANGED <<generation, shutdown>> /\ closing' \in {closing, TRUE}
  /\ \/ \E f \in Family : Holds(c, f) /\ active' = [active EXCEPT ![f] = 0]
     \/ /\ active' = active
        /\ \A f \in Family : Holds(c, f) =>
             gen[c] # active[f] \/ active[f] = 0 \/ (closing /\ f = "Preview")

\* A slot is emptied from outside, or nothing happens to the slots.
Clears ==
  /\ UNCHANGED <<pc, gen, generation, closing, shutdown>>
  /\ \/ active' = active
     \/ \E f \in Family : active' = [active EXCEPT ![f] = 0]

\* The client shuts down: every slot is emptied.
Shuts(c) ==
  /\ pc[c] \in RestPc /\ pc' = [pc EXCEPT ![c] = "done"]
  /\ gen' = [gen EXCEPT ![c] = 0]
  /\ active' = [f \in Family |-> 0] /\ UNCHANGED generation

SlotStep ==
  \/ Clears
  \/ \E c \in Calls :
       \/ Shuts(c)
       \/ \E where \in Pc : Moves(c, where) \/ Rests(c, where)
       \/ \E where \in Pc, f \in Family : Starts(c, f, where)

-----------------------------------------------------------------------------
(* Each of these ways keeps the invariant.                                 *)

SlotsOnly == Control /\ Given /\ Unique /\ Owned /\ Exclusion

\* A new generation is larger than every one that was given.
LEMMA StartsKeeps ==
  ASSUME SlotInv, NEW c \in Calls, NEW f \in Family, NEW where \in Pc, Starts(c, f, where)
  PROVE  SlotsOnly'
<1>1. /\ pc'[c] = where /\ gen'[c] = generation[f] + 1
      /\ generation'[f] = generation[f] + 1 /\ active'[f] = generation[f] + 1
      /\ \A d \in Calls \ {c} : pc'[d] = pc[d] /\ gen'[d] = gen[d]
      /\ \A g \in Family \ {f} : /\ generation'[g] = generation[g]
                                 /\ active'[g] = active[g] \/ active'[g] = 0
  BY Zenon DEF SlotInv, SlotTypes, Starts, Emptied
<1>2. /\ \A g \in Family : /\ generation[g] \in Nat /\ active[g] \in Nat
                           /\ generation'[g] \in Nat /\ active'[g] \in Nat
      /\ \A d \in Calls : gen[d] \in Nat
  BY <1>1 DEF SlotInv, SlotTypes, Starts
<1>3. /\ \A d \in Calls \ {c}, g \in Family : Holds(d, g)' <=> Holds(d, g)
      /\ \A g \in Family : Holds(c, g)' <=> g = f
  BY <1>1, Zenon DEF Holds, Starts
<1>4. Control'
  BY <1>1, Zenon DEF SlotInv, Control, Starts
<1>5. Given'
  <2>1. ASSUME NEW d \in Calls, NEW g \in Family, Holds(d, g)'
        PROVE  1 <= gen'[d] /\ gen'[d] <= generation'[g]
    <3>1. CASE d = c
      BY <1>1, <1>2, <1>3, <2>1, <3>1
    <3>2. CASE d # c
      <4>1. 1 <= gen[d] /\ gen[d] <= generation[g] /\ gen'[d] = gen[d]
        BY <1>1, <1>3, <2>1, <3>2, Zenon DEF SlotInv, Given
      <4> QED
        BY <1>1, <1>2, <4>1
    <3> QED
      BY <3>1, <3>2
  <2>2. ASSUME NEW g \in Family
        PROVE  active'[g] <= generation'[g]
    <3>1. active[g] <= generation[g]
      BY Zenon DEF SlotInv, Given
    <3> QED
      BY <1>1, <1>2, <3>1
  <2> QED
    BY <2>1, <2>2, Zenon DEF Given
<1>6. Unique'
  <2> SUFFICES ASSUME NEW d \in Calls, NEW e \in Calls, NEW g \in Family,
                      Holds(d, g)', Holds(e, g)', gen'[d] = gen'[e]
               PROVE  d = e
    BY Zenon DEF Unique
  <2>1. \A x \in Calls \ {c} : Holds(x, f) => gen'[x] # generation[f] + 1
    <3> SUFFICES ASSUME NEW x \in Calls \ {c}, Holds(x, f)
                 PROVE  gen'[x] # generation[f] + 1
      OBVIOUS
    <3>1. gen[x] <= generation[f] /\ gen'[x] = gen[x]
      BY <1>1, Zenon DEF SlotInv, Given
    <3> QED
      BY <1>2, <3>1
  <2>2. CASE d # c /\ e # c
    BY <1>1, <1>3, <2>2, Zenon DEF SlotInv, Unique
  <2>3. CASE d = c
    BY <1>1, <1>3, <2>1, <2>3, Zenon
  <2>4. CASE e = c
    BY <1>1, <1>3, <2>1, <2>4, Zenon
  <2> QED
    BY <2>2, <2>3, <2>4
<1>7. Owned'
  <2> SUFFICES ASSUME NEW g \in Family, active'[g] # 0, closing => g # "Preview"
               PROVE  \E d \in Calls : Holds(d, g)' /\ gen'[d] = active'[g]
    BY Zenon DEF Owned, Starts
  <2>1. CASE g = f
    BY <1>1, <1>3, <2>1, Zenon
  <2>2. CASE g # f
    <3>1. PICK d \in Calls : Holds(d, g) /\ gen[d] = active[g]
      BY <1>1, <2>2, Zenon DEF SlotInv, Owned
    <3>2. d # c
      BY <3>1, Zenon DEF Holds, Starts, RestPc, WorkPc
    <3> QED
      BY <1>1, <1>3, <2>2, <3>1, <3>2, Zenon
  <2> QED
    BY <2>1, <2>2
<1>8. Exclusion'
  <2>1. /\ "Send" \in Family /\ "Resolution" \in Family /\ "Refresh" \in Family
        /\ "Pagination" \in Family
    BY Zenon DEF Family
  <2>2. ~shutdown'
    BY Zenon DEF Starts, running
  <2>3. active'["Send"] = 0 \/ active'["Resolution"] = 0
    BY <1>1, <2>1, Zenon DEF Starts, SlotInv, Exclusion, SendExcludesResolution
  <2>4. active'["Refresh"] = 0 \/ active'["Pagination"] = 0
    BY <1>1, <2>1, Zenon DEF Starts, SlotInv, Exclusion
  <2> QED
    BY <2>2, <2>3, <2>4, Zenon DEF Exclusion, SendExcludesResolution
<1> QED
  BY <1>4, <1>5, <1>6, <1>7, <1>8, Zenon DEF SlotsOnly

\* A call that goes on keeps its generation and its family.
LEMMA MovesKeeps ==
  ASSUME SlotInv, NEW c \in Calls, NEW where \in Pc, Moves(c, where)
  PROVE  SlotsOnly'
<1>1. /\ pc'[c] = where /\ \A d \in Calls \ {c} : pc'[d] = pc[d]
      /\ gen' = gen /\ active' = active /\ generation' = generation
      /\ closing' = closing /\ shutdown' = shutdown
  BY Zenon DEF SlotInv, SlotTypes, Moves
<1>2. \A d \in Calls, g \in Family : Holds(d, g)' <=> Holds(d, g)
  BY <1>1, Zenon DEF Holds, Moves
<1>3. Control'
  BY <1>1, Zenon DEF SlotInv, Control, Moves
<1> QED
  BY <1>1, <1>2, <1>3, Zenon DEF SlotsOnly, SlotInv, Given, Unique, Owned, Exclusion,
     SendExcludesResolution

\* A slot that a step empties has no owner to show; the working calls only
\* become fewer.
LEMMA EmptiesKeeps ==
  ASSUME SlotInv, Control', \A d \in Calls, g \in Family :
           Holds(d, g)' => Holds(d, g) /\ gen'[d] = gen[d],
         generation' = generation, active' \in [Family -> Nat],
         \A g \in Family : active'[g] = active[g] \/ active'[g] = 0,
         \A g \in Family : active'[g] # 0 /\ (closing' => g # "Preview") =>
           \E d \in Calls : Holds(d, g)' /\ gen'[d] = active'[g],
         shutdown' => \A g \in Family : active'[g] = 0
  PROVE  SlotsOnly'
<1>1. Given'
  <2>1. ASSUME NEW g \in Family PROVE active'[g] <= generation'[g]
    <3>1. /\ active[g] <= generation[g] /\ generation[g] \in Nat
          /\ active'[g] = active[g] \/ active'[g] = 0
      BY Zenon DEF SlotInv, SlotTypes, Given
    <3> QED
      BY <3>1
  <2> QED
    BY <2>1, Zenon DEF Given, SlotInv
<1>2. Unique'
  BY Zenon DEF Unique, SlotInv
<1>3. Owned'
  BY Zenon DEF Owned
<1>4. Exclusion'
  <2>1. /\ "Send" \in Family /\ "Resolution" \in Family /\ "Refresh" \in Family
        /\ "Pagination" \in Family
    BY Zenon DEF Family
  <2> QED
    BY <2>1, Zenon DEF SlotInv, Exclusion, SendExcludesResolution
<1> QED
  BY <1>1, <1>2, <1>3, <1>4, Zenon DEF SlotsOnly

\* A call that stops working leaves no slot behind.
LEMMA RestsKeeps ==
  ASSUME SlotInv, NEW c \in Calls, NEW where \in Pc, Rests(c, where)
  PROVE  SlotsOnly'
<1>1. /\ pc'[c] = where /\ \A d \in Calls \ {c} : pc'[d] = pc[d] /\ gen'[d] = gen[d]
      /\ generation' = generation /\ shutdown' = shutdown
      /\ closing' \in {closing, TRUE}
  BY Zenon DEF SlotInv, SlotTypes, Rests
<1>2. /\ \A d \in Calls \ {c}, g \in Family : Holds(d, g)' <=> Holds(d, g)
      /\ \A g \in Family : ~Holds(c, g)'
  BY <1>1, Zenon DEF Holds, Rests, RestPc, WorkPc
<1>3. Control'
  BY <1>1, Zenon DEF SlotInv, Control, Rests
<1>4. /\ active' \in [Family -> Nat]
      /\ \A g \in Family : active'[g] = active[g] \/ active'[g] = 0
      /\ \A g \in Family : active'[g] # 0 /\ (closing => g # "Preview") =>
            ~(Holds(c, g) /\ gen[c] = active[g])
  <2>1. ASSUME NEW f \in Family, Holds(c, f), active' = [active EXCEPT ![f] = 0]
        PROVE  <1>4
    <3>1. active'[f] = 0 /\ \A g \in Family \ {f} : active'[g] = active[g]
      BY <2>1, Zenon DEF SlotInv, SlotTypes
    <3>2. active' \in [Family -> Nat]
      BY <2>1 DEF SlotInv, SlotTypes
    <3> QED
      BY <2>1, <3>1, <3>2, Zenon DEF Holds
  <2>2. ASSUME active' = active,
               \A f \in Family : Holds(c, f) =>
                 gen[c] # active[f] \/ active[f] = 0 \/ (closing /\ f = "Preview")
        PROVE  <1>4
    BY <2>2, Zenon DEF SlotInv, SlotTypes
  <2> QED
    BY <2>1, <2>2, Zenon DEF Rests
<1>5. ASSUME NEW g \in Family, active'[g] # 0, closing' => g # "Preview"
      PROVE  \E d \in Calls : Holds(d, g)' /\ gen'[d] = active'[g]
  <2>1. closing => g # "Preview"
    BY <1>1, <1>5, Zenon
  <2>2. PICK d \in Calls : Holds(d, g) /\ gen[d] = active[g]
    BY <1>4, <1>5, <2>1, Zenon DEF SlotInv, Owned
  <2>3. d # c
    BY <1>4, <1>5, <2>1, <2>2, Zenon
  <2> QED
    BY <1>1, <1>2, <1>4, <1>5, <2>2, <2>3, Zenon
<1>6. shutdown' => \A g \in Family : active'[g] = 0
  BY <1>1, <1>4, Zenon DEF SlotInv, Exclusion
<1> QED
  BY <1>1, <1>2, <1>3, <1>4, <1>5, <1>6, EmptiesKeeps, Zenon

\* A cancellation from outside keeps the invariant.
LEMMA ClearsKeeps ==
  ASSUME SlotInv, Clears
  PROVE  SlotsOnly'
<1>1. /\ pc' = pc /\ gen' = gen /\ generation' = generation
      /\ closing' = closing /\ shutdown' = shutdown
  BY Zenon DEF Clears
<1>2. \A d \in Calls, g \in Family : Holds(d, g)' <=> Holds(d, g)
  BY <1>1, Zenon DEF Holds
<1>3. /\ active' \in [Family -> Nat]
      /\ \A g \in Family : active'[g] = active[g] \/ active'[g] = 0
  <2>1. CASE active' = active
    BY <2>1, Zenon DEF SlotInv, SlotTypes
  <2>2. ASSUME NEW f \in Family, active' = [active EXCEPT ![f] = 0] PROVE <1>3
    BY <2>2 DEF SlotInv, SlotTypes
  <2> QED
    BY <2>1, <2>2, Zenon DEF Clears
<1>4. Control'
  BY <1>1, Zenon DEF SlotInv, Control
<1>5. ASSUME NEW g \in Family, active'[g] # 0, closing' => g # "Preview"
      PROVE  \E d \in Calls : Holds(d, g)' /\ gen'[d] = active'[g]
  BY <1>1, <1>2, <1>3, <1>5, Zenon DEF SlotInv, Owned
<1>6. shutdown' => \A g \in Family : active'[g] = 0
  BY <1>1, <1>3, Zenon DEF SlotInv, Exclusion
<1> QED
  BY <1>1, <1>2, <1>3, <1>4, <1>5, <1>6, EmptiesKeeps, Zenon

\* After the shutdown no slot is taken.
LEMMA ShutsKeeps ==
  ASSUME SlotInv, NEW c \in Calls, Shuts(c)
  PROVE  SlotsOnly'
<1>1. /\ pc'[c] = "done" /\ \A d \in Calls \ {c} : pc'[d] = pc[d] /\ gen'[d] = gen[d]
      /\ generation' = generation /\ \A g \in Family : active'[g] = 0
  BY Zenon DEF SlotInv, SlotTypes, Shuts
<1>2. \A d \in Calls, g \in Family : Holds(d, g)' => Holds(d, g) /\ gen'[d] = gen[d]
  BY <1>1, Zenon DEF Holds, WorkPc
<1>3. Control'
  BY <1>1, Zenon DEF SlotInv, Control, ControlAt
<1>4. active' \in [Family -> Nat]
  BY DEF Shuts
<1> QED
  BY <1>1, <1>2, <1>3, <1>4, EmptiesKeeps, Zenon

-----------------------------------------------------------------------------
(* Every action is one of these ways.                                      *)

\* What a step publishes: the snapshot is left alone, or the client is not shut
\* down and the change gets a revision of its own.
PubStep ==
  /\ resource' \in [Resource -> ResourcePhase]
  /\ \/ UNCHANGED <<resource, feed, nfts, send, revision>>
     \/ ~shutdown /\ revision' = revision + 1

\* The call does not own a slot that it would have to empty.
OwnsNothing(c) ==
  \A f \in Family : Holds(c, f) =>
    gen[c] # active[f] \/ active[f] = 0 \/ (closing /\ f = "Preview")

\* A call that is refused or superseded ends without touching the state.
LEMMA RefuseStep ==
  ASSUME SlotInv, NEW c \in Calls, NEW result, refuse(c, result), OwnsNothing(c)
  PROVE  SlotStep /\ PubStep
<1>1. /\ pc' = [pc EXCEPT ![c] = "done"] /\ gen' = [gen EXCEPT ![c] = 0]
      /\ UNCHANGED <<active, generation, closing, shutdown>>
      /\ UNCHANGED <<resource, feed, nfts, send, revision>>
  BY Zenon DEF refuse, return, to, slots, snapshot, observed
<1>2. "done" \in RestPc /\ "done" \in Pc /\ 0 \in Nat /\ ControlAt(Op[c], "done")
  BY DEF RestPc, Pc, ControlAt
<1>3. Rests(c, "done")
  BY <1>1, <1>2, Zenon DEF Rests, OwnsNothing
<1> QED
  BY <1>1, <1>2, <1>3, Zenon DEF SlotStep, PubStep, SlotInv, SlotTypes

\* A call that has not started owns nothing.
LEMMA RestOwnsNothing ==
  ASSUME NEW c \in Calls, pc[c] \in RestPc
  PROVE  OwnsNothing(c)
BY Zenon DEF OwnsNothing, Holds, RestPc, WorkPc

\* A call that takes the slot of its own family and no other.
LEMMA TakeStep ==
  ASSUME SlotInv, NEW c \in Calls, NEW f \in Family, NEW where \in WorkPc,
         pc[c] \in RestPc, f = FamilyAt(Op[c], where), ControlAt(Op[c], where),
         running, UNCHANGED <<closing, shutdown>>, to(c, where), take(c, f),
         active' = [active EXCEPT ![f] = generation'[f]],
         f \in {"Send", "Resolution"} => active["Send"] = 0 /\ active["Resolution"] = 0,
         f = "Pagination" => active["Refresh"] = 0, f # "Refresh"
  PROVE  SlotStep
<1>1. /\ generation' = [generation EXCEPT ![f] = generation[f] + 1]
      /\ generation'[f] = generation[f] + 1 /\ generation[f] + 1 \in Nat
  BY DEF take, SlotInv, SlotTypes
<1>2. /\ gen' = [gen EXCEPT ![c] = generation[f] + 1]
      /\ active' = [active EXCEPT ![f] = generation[f] + 1]
      /\ pc' = [pc EXCEPT ![c] = where]
  BY <1>1, Zenon DEF take, to
<1>3. /\ active' \in [Family -> Nat] /\ active'[f] = generation[f] + 1
      /\ \A g \in Family \ {f} : active'[g] = active[g]
  BY <1>1, <1>2 DEF SlotInv, SlotTypes
<1>4. Starts(c, f, where)
  BY <1>1, <1>2, <1>3, Zenon DEF Starts, Emptied
<1> QED
  BY <1>4, Zenon DEF SlotStep, Pc

\* A call that takes the slot of its own family and empties another one.
LEMMA SupersedeStep ==
  ASSUME SlotInv, NEW c \in Calls, NEW f \in Family, NEW h \in Family \ {f},
         NEW where \in WorkPc,
         pc[c] \in RestPc, f = FamilyAt(Op[c], where), ControlAt(Op[c], where),
         running, UNCHANGED <<closing, shutdown>>, to(c, where), take(c, f),
         active' = [active EXCEPT ![f] = generation'[f], ![h] = 0],
         f \notin {"Send", "Resolution", "Pagination"},
         f = "Refresh" => h = "Pagination"
  PROVE  SlotStep
<1>1. /\ generation' = [generation EXCEPT ![f] = generation[f] + 1]
      /\ generation'[f] = generation[f] + 1 /\ generation[f] + 1 \in Nat
  BY DEF take, SlotInv, SlotTypes
<1>2. /\ gen' = [gen EXCEPT ![c] = generation[f] + 1]
      /\ active' = [active EXCEPT ![f] = generation[f] + 1, ![h] = 0]
      /\ pc' = [pc EXCEPT ![c] = where]
  BY <1>1, Zenon DEF take, to
<1>3. /\ active' \in [Family -> Nat] /\ active'[f] = generation[f] + 1
      /\ active'[h] = 0 /\ \A g \in Family \ {f, h} : active'[g] = active[g]
  BY <1>1, <1>2 DEF SlotInv, SlotTypes
<1>4. Starts(c, f, where)
  BY <1>1, <1>2, <1>3, Zenon DEF Starts, Emptied
<1> QED
  BY <1>4, Zenon DEF SlotStep, Pc

\* One round of the shutdown.
LEMMA ShutdownStep ==
  ASSUME SlotInv, NEW c \in Calls, Shutdown(c)
  PROVE  SlotStep /\ PubStep
<1>1. pc[c] \in RestPc /\ OwnsNothing(c) /\ resource \in [Resource -> ResourcePhase]
  BY RestOwnsNothing, Zenon DEF Shutdown, RestPc, SlotInv, SlotTypes
<1>2. CASE shutdown
  BY <1>1, <1>2, RefuseStep, Zenon DEF Shutdown
<1>3. CASE ~shutdown /\ active["Send"] # 0 /\ commit
  <2>1. /\ to(c, "asleep") /\ closing' = TRUE
        /\ UNCHANGED <<active, generation, shutdown, resource, feed, nfts, send, revision>>
        /\ UNCHANGED gen
    BY <1>3, Zenon DEF Shutdown, locals
  <2>2. /\ "asleep" \in RestPc /\ "asleep" \in Pc /\ ControlAt(Op[c], "asleep")
        /\ gen[c] \in Nat /\ gen = [gen EXCEPT ![c] = gen[c]]
    BY DEF RestPc, Pc, ControlAt, SlotInv, SlotTypes
  <2>3. Rests(c, "asleep")
    BY <1>1, <2>1, <2>2, Zenon DEF Rests, OwnsNothing, to
  <2> QED
    BY <1>1, <2>1, <2>2, <2>3, Zenon DEF SlotStep, PubStep
<1>4. CASE ~shutdown /\ ~(active["Send"] # 0 /\ commit)
  <2>1. prepare_shutdown /\ return(c, "Ok") /\ UNCHANGED <<generation, feed, nfts>>
    BY <1>4, Zenon DEF Shutdown
  <2>2. Shuts(c)
    BY <1>1, <2>1, Zenon DEF Shuts, prepare_shutdown, return, to
  <2>3. resource' = shut_resources /\ shut_resources \in [Resource -> ResourcePhase]
    BY <1>1, <2>1 DEF prepare_shutdown, shut_resources, ResourcePhase
  <2>4. CASE \E f \in Family : active[f] # 0
    BY <1>4, <2>1, <2>2, <2>3, <2>4, Zenon DEF prepare_shutdown, SlotStep, PubStep
  <2>5. CASE \A f \in Family : active[f] = 0
    <3>1. /\ active["Send"] = 0 /\ active["Refresh"] = 0 /\ active["Pagination"] = 0
          /\ active["NftRefresh"] = 0 /\ active["NftPagination"] = 0
      BY <2>5, Zenon DEF Family
    <3>2. send' = send /\ revision' = revision
      BY <2>1, <2>5, <3>1, Zenon DEF prepare_shutdown
    <3>3. shut_resources = [r \in Resource |-> resource[r]]
      BY <3>1, Zenon DEF shut_resources
    <3>4. resource' = resource
      BY <1>1, <2>3, <3>3
    <3> QED
      BY <1>1, <2>1, <2>2, <3>2, <3>4, Zenon DEF SlotStep, PubStep
  <2> QED
    BY <2>4, <2>5
<1> QED
  BY <1>2, <1>3, <1>4

\* The calls that the host makes.
LEMMA BeginStep ==
  ASSUME SlotInv, Configured, NEW c \in Calls, Begin(c)
  PROVE  SlotStep /\ PubStep
<1>1. \A result : pc[c] = "idle" /\ refuse(c, result) => SlotStep /\ PubStep
  BY RefuseStep, RestOwnsNothing, Zenon DEF RestPc
<1>2. "idle" \in RestPc /\ resource \in [Resource -> ResourcePhase]
  BY Zenon DEF RestPc, SlotInv, SlotTypes
<1>3. ASSUME SweepBegin(c) PROVE SlotStep /\ PubStep
  <2>1. pc[c] = "idle" /\ Op[c] \in Sweeping /\ PubStep
    BY <1>2, <1>3, Zenon DEF SweepBegin, snapshot, observed, PubStep
  <2>2. CASE running /\ active["Send"] = 0 /\ active["Resolution"] = 0
    <3>1. /\ take(c, "Resolution") /\ to(c, "sweeping") /\ UNCHANGED <<closing, shutdown>>
          /\ active' = [active EXCEPT !["Resolution"] = generation'["Resolution"]]
      BY <1>3, <2>2, Zenon DEF SweepBegin
    <3>2. /\ "Resolution" \in Family /\ "sweeping" \in WorkPc
          /\ ControlAt(Op[c], "sweeping")
          /\ "Resolution" = FamilyAt(Op[c], "sweeping")
      BY <2>1 DEF Family, WorkPc, ControlAt, FamilyAt
    <3>3. SlotStep
      BY <1>2, <2>1, <2>2, <3>1, <3>2, TakeStep, Zenon
    <3> QED
      BY <2>1, <3>3
  <2>3. CASE ~(running /\ active["Send"] = 0 /\ active["Resolution"] = 0)
    <3>1. /\ to(c, "start") /\ UNCHANGED <<gen, active, generation, closing, shutdown>>
      BY <1>3, <2>3, Zenon DEF SweepBegin
    <3>2. /\ "start" \in RestPc /\ "start" \in Pc /\ ControlAt(Op[c], "start")
          /\ gen[c] \in Nat /\ gen = [gen EXCEPT ![c] = gen[c]]
      BY <2>1 DEF RestPc, Pc, ControlAt, SlotInv, SlotTypes
    <3>3. Rests(c, "start")
      BY <1>2, <2>1, <3>1, <3>2, RestOwnsNothing, Zenon DEF Rests, OwnsNothing, to
    <3> QED
      BY <2>1, <3>2, <3>3, Zenon DEF SlotStep
  <2> QED
    BY <2>2, <2>3
<1>4. ASSUME PageBegin(c) PROVE SlotStep /\ PubStep
  <2>1. pc[c] = "idle" /\ Op[c] = "load_more_activity" /\ running
    BY <1>4, Zenon DEF PageBegin
  <2>2. CASE active["Refresh"] # 0 \/ active["Pagination"] # 0 \/ ~feed.has_more
             \/ feed.cursor = NoCursor
    BY <1>1, <1>4, <2>1, <2>2, Zenon DEF PageBegin
  <2>3. CASE ~(active["Refresh"] # 0 \/ active["Pagination"] # 0 \/ ~feed.has_more
             \/ feed.cursor = NoCursor)
    <3>1. /\ take(c, "Pagination") /\ to(c, "waiting") /\ UNCHANGED <<closing, shutdown>>
          /\ active' = [active EXCEPT !["Pagination"] = generation'["Pagination"]]
          /\ next_revision
          /\ resource' = [resource EXCEPT !["activity_pages"] = "Loading"]
      BY <1>4, <2>3, Zenon DEF PageBegin
    <3>2. /\ "Pagination" \in Family /\ "waiting" \in WorkPc /\ ControlAt(Op[c], "waiting")
          /\ "Pagination" = FamilyAt(Op[c], "waiting")
      BY <2>1 DEF Family, WorkPc, ControlAt, FamilyAt, FamilyOf
    <3>3. SlotStep
      BY <1>2, <2>1, <2>3, <3>1, <3>2, TakeStep, Zenon
    <3>4. PubStep
      <4>1. resource' \in [Resource -> ResourcePhase]
        BY <1>2, <3>1 DEF Resource, ResourcePhase
      <4> QED
        BY <2>1, <3>1, <4>1, Zenon DEF PubStep, next_revision, running
    <3> QED
      BY <3>3, <3>4
  <2> QED
    BY <2>2, <2>3
<1>5. ASSUME NftPageBegin(c) PROVE SlotStep /\ PubStep
  <2>1. pc[c] = "idle" /\ Op[c] = "load_more_nfts" /\ running
    BY <1>5, Zenon DEF NftPageBegin
  <2>2. CASE active["NftRefresh"] # 0 \/ active["NftPagination"] # 0
             \/ ~nfts.has_more
    BY <1>1, <1>5, <2>1, <2>2, Zenon DEF NftPageBegin
  <2>3. CASE ~(active["NftRefresh"] # 0 \/ active["NftPagination"] # 0
             \/ ~nfts.has_more)
    <3>1. /\ take(c, "NftPagination") /\ to(c, "waiting") /\ UNCHANGED <<closing, shutdown>>
          /\ active' = [active EXCEPT !["NftPagination"] = generation'["NftPagination"]]
          /\ next_revision
          /\ resource' = [resource EXCEPT !["nft_pages"] = "Loading"]
      BY <1>5, <2>3, Zenon DEF NftPageBegin
    <3>2. /\ "NftPagination" \in Family /\ "waiting" \in WorkPc /\ ControlAt(Op[c], "waiting")
          /\ "NftPagination" = FamilyAt(Op[c], "waiting")
      BY <2>1 DEF Family, WorkPc, ControlAt, FamilyAt, FamilyOf
    <3>3. SlotStep
      BY <1>2, <2>1, <2>3, <3>1, <3>2, TakeStep, Zenon
    <3>4. PubStep
      <4>1. resource' \in [Resource -> ResourcePhase]
        BY <1>2, <3>1 DEF Resource, ResourcePhase
      <4> QED
        BY <2>1, <3>1, <4>1, Zenon DEF PubStep, next_revision, running
    <3> QED
      BY <3>3, <3>4
  <2> QED
    BY <2>2, <2>3
<1>6. ASSUME PreviewBegin(c) PROVE SlotStep /\ PubStep
  <2>1. pc[c] = "idle" /\ Op[c] = "preview" /\ running
    BY <1>6, Zenon DEF PreviewBegin
  <2>2. CASE active["Send"] # 0 \/ active["Preview"] # 0
    BY <1>1, <1>6, <2>1, <2>2, Zenon DEF PreviewBegin
  <2>3. CASE ~(active["Send"] # 0 \/ active["Preview"] # 0)
    <3>1. /\ take(c, "Preview") /\ to(c, "account") /\ UNCHANGED <<closing, shutdown>>
          /\ active' = [active EXCEPT !["Preview"] = generation'["Preview"]]
      BY <1>6, <2>3, Zenon DEF PreviewBegin
    <3>2. /\ "Preview" \in Family /\ "account" \in WorkPc /\ ControlAt(Op[c], "account")
          /\ "Preview" = FamilyAt(Op[c], "account")
      BY <2>1 DEF Family, WorkPc, ControlAt, FamilyAt, FamilyOf
    <3>3. SlotStep
      BY <1>2, <2>1, <2>3, <3>1, <3>2, TakeStep, Zenon
    <3>4. PubStep
      BY <1>2, <1>6, <2>3, Zenon DEF PreviewBegin, snapshot, observed, PubStep
    <3> QED
      BY <3>3, <3>4
  <2> QED
    BY <2>2, <2>3
<1>7. ASSUME PrepareBegin(c) PROVE SlotStep /\ PubStep
  <2>1. pc[c] = "idle" /\ Op[c] = "prepare_transfer" /\ running
    BY <1>7, Zenon DEF PrepareBegin
  <2>2. CASE active["Send"] # 0 \/ active["Resolution"] # 0
    BY <1>1, <1>7, <2>1, <2>2, Zenon DEF PrepareBegin
  <2>3. CASE ~(active["Send"] # 0 \/ active["Resolution"] # 0)
    <3>1. /\ take(c, "Resolution") /\ to(c, "account") /\ UNCHANGED <<closing, shutdown>>
          /\ active' = [active EXCEPT !["Resolution"] = generation'["Resolution"]]
      BY <1>7, <2>3, Zenon DEF PrepareBegin
    <3>2. /\ "Resolution" \in Family /\ "account" \in WorkPc /\ ControlAt(Op[c], "account")
          /\ "Resolution" = FamilyAt(Op[c], "account")
      BY <2>1 DEF Family, WorkPc, ControlAt, FamilyAt, FamilyOf
    <3>3. SlotStep
      BY <1>2, <2>1, <2>3, <3>1, <3>2, TakeStep, Zenon
    <3>4. PubStep
      BY <1>2, <1>7, <2>3, Zenon DEF PrepareBegin, snapshot, observed, PubStep
    <3> QED
      BY <3>3, <3>4
  <2> QED
    BY <2>2, <2>3
<1>8. ASSUME SendBegin(c) PROVE SlotStep /\ PubStep
  <2>1. pc[c] = "idle" /\ Op[c] = "send" /\ running
    BY <1>8, Zenon DEF SendBegin
  <2>2. CASE active["Send"] # 0 \/ active["Resolution"] # 0
    BY <1>1, <1>8, <2>1, <2>2, Zenon DEF SendBegin
  <2>3. CASE ~(active["Send"] # 0 \/ active["Resolution"] # 0)
    <3>1. /\ take(c, "Send") /\ to(c, "signing") /\ UNCHANGED <<closing, shutdown>>
          /\ active' = [active EXCEPT !["Send"] = generation'["Send"]]
          /\ next_revision
      BY <1>8, <2>3, Zenon DEF SendBegin
    <3>2. /\ "Send" \in Family /\ "signing" \in WorkPc /\ ControlAt(Op[c], "signing")
          /\ "Send" = FamilyAt(Op[c], "signing")
      BY <2>1 DEF Family, WorkPc, ControlAt, FamilyAt, FamilyOf
    <3>3. SlotStep
      BY <1>2, <2>1, <2>3, <3>1, <3>2, TakeStep, Zenon
    <3>4. PubStep
      <4>1. resource' = resource
        BY <1>8, <2>3, Zenon DEF SendBegin
      <4> QED
        BY <1>2, <2>1, <3>1, <4>1, Zenon DEF PubStep, next_revision, running
    <3> QED
      BY <3>3, <3>4
  <2> QED
    BY <2>2, <2>3
<1>9. ASSUME NftRefreshBegin(c) PROVE SlotStep /\ PubStep
  <2>1. pc[c] = "idle" /\ Op[c] = "refresh_nfts" /\ running
    BY <1>9, Zenon DEF NftRefreshBegin
  <2>2. /\ take(c, "NftRefresh") /\ to(c, "waiting") /\ UNCHANGED <<closing, shutdown>>
        /\ active' = [active EXCEPT !["NftRefresh"] = generation'["NftRefresh"],
                                     !["NftPagination"] = 0]
        /\ next_revision
        /\ resource' = [resource EXCEPT !["nfts"] = "Loading", !["nft_pages"] = "Idle"]
    BY <1>9, Zenon DEF NftRefreshBegin
  <2>3. /\ "NftRefresh" \in Family /\ "waiting" \in WorkPc /\ ControlAt(Op[c], "waiting")
        /\ "NftRefresh" = FamilyAt(Op[c], "waiting")
        /\ "NftPagination" \in Family \ {"NftRefresh"}
    BY <2>1 DEF Family, WorkPc, ControlAt, FamilyAt, FamilyOf
  <2>4. SlotStep
    BY <1>2, <2>1, <2>2, <2>3, SupersedeStep, Zenon
  <2>5. resource' \in [Resource -> ResourcePhase]
    BY <1>2, <2>2 DEF Resource, ResourcePhase
  <2> QED
    BY <2>1, <2>2, <2>4, <2>5, Zenon DEF PubStep, next_revision, running
<1>10. ASSUME pc[c] = "idle", EnsureRunning(c) PROVE SlotStep /\ PubStep
  BY <1>1, <1>10, Zenon DEF EnsureRunning
<1> QED
  BY <1>3, <1>4, <1>5, <1>6, <1>7, <1>8, <1>9, <1>10, ShutdownStep, Zenon DEF Begin

\* The owner of a slot works in a client that is not shut down.
LEMMA CurrentOwner ==
  ASSUME SlotInv, NEW c \in Calls, NEW f \in Family, Holds(c, f),
         is_current(f, gen[c])
  PROVE  active[f] # 0 /\ ~shutdown
<1>1. 1 <= gen[c] /\ active[f] = gen[c] /\ gen[c] \in Nat
  BY Zenon DEF SlotInv, Given, is_current, SlotTypes
<1>2. active[f] # 0
  BY <1>1
<1> QED
  BY <1>2, Zenon DEF SlotInv, Exclusion

\* A call whose slot another call has taken owns nothing.
LEMMA LateOwnsNothing ==
  ASSUME NEW c \in Calls, NEW f \in Family, Holds(c, f), ~is_current(f, gen[c])
  PROVE  OwnsNothing(c)
BY Zenon DEF OwnsNothing, Holds, is_current

\* A call goes on.
LEMMA MoveStep ==
  ASSUME SlotInv, NEW c \in Calls, NEW where \in WorkPc, pc[c] \in WorkPc,
         FamilyAt(Op[c], where) = FamilyAt(Op[c], pc[c]), ControlAt(Op[c], where),
         to(c, where), UNCHANGED <<gen, active, generation, closing, shutdown>>
  PROVE  SlotStep
BY Zenon DEF Moves, SlotStep, Pc, to

\* An owner returns and empties its slot.
LEMMA EndStep ==
  ASSUME SlotInv, NEW c \in Calls, NEW f \in Family, Holds(c, f), NEW result,
         return(c, result), active' = [active EXCEPT ![f] = 0],
         UNCHANGED <<generation, closing, shutdown>>
  PROVE  SlotStep
<1>1. "done" \in RestPc /\ "done" \in Pc /\ 0 \in Nat /\ ControlAt(Op[c], "done")
  BY DEF RestPc, Pc, ControlAt
<1>2. Rests(c, "done")
  BY <1>1, Zenon DEF Rests, return, to
<1> QED
  BY <1>1, <1>2, Zenon DEF SlotStep

\* The steps of refresh, and of the sweep before it.
LEMMA RefreshStep ==
  ASSUME SlotInv, Configured, NEW c \in Calls,
         \/ SweepEnd(c) \/ RefreshBegin(c) \/ RefreshAnswer(c)
         \/ PublishAccount(c) \/ PublishActivity(c) \/ RefreshFinish(c)
  PROVE  SlotStep /\ PubStep
<1>1. /\ resource \in [Resource -> ResourcePhase] /\ ControlAt(Op[c], pc[c])
      /\ "Resolution" \in Family /\ "Refresh" \in Family
  BY Zenon DEF SlotInv, SlotTypes, Control, Family
<1>2. ASSUME SweepEnd(c) PROVE SlotStep /\ PubStep
  <2>1. Holds(c, "Resolution")
    BY <1>2 DEF SweepEnd, Holds, WorkPc, FamilyAt
  <2>2. /\ to(c, "start") /\ UNCHANGED <<gen, generation, closing, shutdown>>
        /\ UNCHANGED <<resource, feed, nfts>>
    BY <1>2, Zenon DEF SweepEnd
  <2>3. /\ "start" \in RestPc /\ "start" \in Pc /\ ControlAt(Op[c], "start")
        /\ gen[c] \in Nat /\ gen = [gen EXCEPT ![c] = gen[c]]
    BY <1>1, <1>2
    DEF RestPc, Pc, ControlAt, SlotInv, SlotTypes, SweepEnd
  <2>4. CASE is_current("Resolution", gen[c])
    <3>1. /\ active' = [active EXCEPT !["Resolution"] = 0]
          /\ next_revision \/ UNCHANGED <<send, revision>>
      BY <1>2, <2>4, Zenon DEF SweepEnd, observed
    <3>2. Rests(c, "start")
      BY <1>1, <2>1, <2>2, <2>3, <3>1, Zenon DEF Rests, to
    <3>3. ~shutdown
      BY <1>1, <2>1, <2>4, CurrentOwner, Zenon
    <3> QED
      BY <1>1, <2>2, <2>3, <3>1, <3>2, <3>3, Zenon DEF SlotStep, PubStep, next_revision
  <2>5. CASE ~is_current("Resolution", gen[c])
    <3>1. UNCHANGED <<active, send, revision>>
      BY <1>2, <2>5, Zenon DEF SweepEnd, observed
    <3>2. OwnsNothing(c)
      BY <1>1, <2>1, <2>5, LateOwnsNothing, Zenon
    <3>3. Rests(c, "start")
      BY <2>2, <2>3, <3>1, <3>2, Zenon DEF Rests, to, OwnsNothing
    <3> QED
      BY <1>1, <2>2, <2>3, <3>1, <3>3, Zenon DEF SlotStep, PubStep
  <2> QED
    BY <2>4, <2>5
<1>3. ASSUME RefreshBegin(c) PROVE SlotStep /\ PubStep
  <2>1. pc[c] = "start" /\ Op[c] = "refresh" /\ running
    BY <1>3, Zenon DEF RefreshBegin
  <2>2. /\ take(c, "Refresh") /\ to(c, "waiting") /\ UNCHANGED <<closing, shutdown>>
        /\ active' = [active EXCEPT !["Refresh"] = generation'["Refresh"],
                                     !["Pagination"] = 0]
        /\ next_revision
        /\ resource' = [resource EXCEPT !["account"] = "Loading",
                          !["activity"] = "Loading", !["activity_pages"] = "Idle"]
    BY <1>3, Zenon DEF RefreshBegin
  <2>3. /\ "waiting" \in WorkPc /\ ControlAt(Op[c], "waiting") /\ "start" \in RestPc
        /\ "Refresh" = FamilyAt(Op[c], "waiting")
        /\ "Pagination" \in Family \ {"Refresh"}
    BY <2>1 DEF Family, WorkPc, RestPc, ControlAt, FamilyAt, FamilyOf
  <2>4. SlotStep
    BY <1>1, <2>1, <2>2, <2>3, SupersedeStep, Zenon
  <2>5. resource' \in [Resource -> ResourcePhase]
    BY <1>1, <2>2 DEF Resource, ResourcePhase
  <2> QED
    BY <2>1, <2>2, <2>4, <2>5, Zenon DEF PubStep, next_revision, running
<1>4. ASSUME RefreshAnswer(c) PROVE SlotStep /\ PubStep
  <2>1. /\ pc[c] = "waiting" /\ Op[c] = "refresh" /\ to(c, "publish_account")
        /\ UNCHANGED <<gen, active, generation, closing, shutdown>>
        /\ UNCHANGED <<resource, feed, nfts, send, revision>>
    BY <1>4, Zenon DEF RefreshAnswer, slots, snapshot, observed
  <2>2. /\ pc[c] \in WorkPc /\ "publish_account" \in WorkPc
        /\ FamilyAt(Op[c], "publish_account") = FamilyAt(Op[c], pc[c])
        /\ ControlAt(Op[c], "publish_account")
    BY <2>1 DEF WorkPc, FamilyAt, ControlAt
  <2>3. SlotStep
    BY <2>1, <2>2, MoveStep, Zenon
  <2> QED
    BY <1>1, <2>1, <2>3, Zenon DEF PubStep
<1>5. ASSUME NEW where \in {"publish_activity", "finish"},
             pc[c] \in {"publish_account", "publish_activity"}, to(c, where),
             UNCHANGED <<gen, active, generation, closing, shutdown, nfts, send>>,
             resource' \in [Resource -> ResourcePhase],
             \/ is_current("Refresh", gen[c]) /\ next_revision
             \/ UNCHANGED <<resource, feed, revision>>
      PROVE  SlotStep /\ PubStep
  <2>1. /\ pc[c] \in WorkPc /\ where \in WorkPc /\ Op[c] = "refresh"
        /\ FamilyAt(Op[c], where) = FamilyAt(Op[c], pc[c])
        /\ ControlAt(Op[c], where)
    BY <1>1, <1>5 DEF WorkPc, FamilyAt, ControlAt
  <2>2. Holds(c, "Refresh")
    BY <1>5, <2>1 DEF Holds, FamilyAt, FamilyOf
  <2>3. SlotStep
    BY <1>5, <2>1, MoveStep, Zenon
  <2>4. is_current("Refresh", gen[c]) => ~shutdown
    BY <1>1, <2>2, CurrentOwner, Zenon
  <2> QED
    BY <1>5, <2>3, <2>4, Zenon DEF PubStep, next_revision
<1>6. ASSUME PublishAccount(c) PROVE SlotStep /\ PubStep
  <2>1. /\ pc[c] = "publish_account" /\ to(c, "publish_activity")
        /\ UNCHANGED <<gen, active, generation, closing, shutdown, nfts, send, feed>>
    BY <1>6, Zenon DEF PublishAccount, slots
  <2>2. CASE is_current("Refresh", gen[c])
    <3>1. /\ resource' = [resource EXCEPT !["account"] =
                            IF ans[c].account THEN "Ready" ELSE "Failed"]
          /\ next_revision
      BY <1>6, <2>2, Zenon DEF PublishAccount
    <3>2. resource' \in [Resource -> ResourcePhase]
      BY <1>1, <3>1, Zenon DEF ResourcePhase
    <3> QED
      BY <1>5, <2>1, <2>2, <3>1, <3>2, Zenon
  <2>3. CASE ~is_current("Refresh", gen[c])
    <3>1. UNCHANGED <<resource, revision>>
      BY <1>6, <2>3, Zenon DEF PublishAccount, observed
    <3> QED
      BY <1>1, <1>5, <2>1, <3>1, Zenon
  <2> QED
    BY <2>2, <2>3
<1>7. ASSUME PublishActivity(c) PROVE SlotStep /\ PubStep
  <2>1. /\ pc[c] = "publish_activity" /\ to(c, "finish")
        /\ UNCHANGED <<gen, active, generation, closing, shutdown, nfts, send>>
    BY <1>7, Zenon DEF PublishActivity, slots
  <2>2. CASE is_current("Refresh", gen[c])
    <3>1. /\ resource' = [resource EXCEPT !["activity"] =
                            IF ans[c].status = "ok" THEN "Ready" ELSE "Failed"]
          /\ next_revision
      BY <1>7, <2>2, Zenon DEF PublishActivity
    <3>2. resource' \in [Resource -> ResourcePhase]
      BY <1>1, <3>1, Zenon DEF ResourcePhase
    <3> QED
      BY <1>5, <2>1, <2>2, <3>1, <3>2, Zenon
  <2>3. CASE ~is_current("Refresh", gen[c])
    <3>1. UNCHANGED <<resource, feed, revision>>
      BY <1>7, <2>3, Zenon DEF PublishActivity, observed
    <3> QED
      BY <1>1, <1>5, <2>1, <3>1, Zenon
  <2> QED
    BY <2>2, <2>3
<1>8. ASSUME RefreshFinish(c) PROVE SlotStep /\ PubStep
  <2>1. /\ pc[c] = "finish" /\ UNCHANGED <<generation, closing, shutdown>>
        /\ UNCHANGED <<resource, feed, nfts, send, revision>>
    BY <1>8, Zenon DEF RefreshFinish, snapshot, observed
  <2>2. Holds(c, "Refresh")
    BY <1>1, <2>1 DEF Holds, FamilyAt, FamilyOf, WorkPc, ControlAt
  <2>3. CASE is_current("Refresh", gen[c])
    <3>1. active' = [active EXCEPT !["Refresh"] = 0] /\ \E result : return(c, result)
      BY <1>8, <2>3, Zenon DEF RefreshFinish
    <3> QED
      BY <1>1, <2>1, <2>2, <3>1, EndStep, Zenon DEF PubStep
  <2>4. CASE ~is_current("Refresh", gen[c])
    <3>1. refuse(c, "Superseded")
      BY <1>8, <2>4, Zenon DEF RefreshFinish, refuse, slots
    <3> QED
      BY <1>1, <2>2, <2>4, <3>1, LateOwnsNothing, RefuseStep, Zenon
  <2> QED
    BY <2>3, <2>4
<1> QED
  BY <1>2, <1>3, <1>4, <1>6, <1>7, <1>8

\* The answers and the publications of the page loads.
LEMMA PagesStep ==
  ASSUME SlotInv, Configured, NEW c \in Calls,
         \/ PageAnswer(c) \/ PagePublish(c) \/ NftAnswer(c)
         \/ NftRefreshPublish(c) \/ NftPagePublish(c)
  PROVE  SlotStep /\ PubStep
<1>1. resource \in [Resource -> ResourcePhase] /\ ControlAt(Op[c], pc[c])
  BY Zenon DEF SlotInv, SlotTypes, Control
<1>2. ASSUME pc[c] = "waiting", to(c, "publish"),
             Op[c] \in {"load_more_activity", "refresh_nfts", "load_more_nfts"},
             UNCHANGED <<gen, slots, snapshot, observed>>
      PROVE  SlotStep /\ PubStep
  <2>1. /\ UNCHANGED <<gen, active, generation, closing, shutdown>>
        /\ UNCHANGED <<resource, feed, nfts, send, revision>>
    BY <1>2, Zenon DEF slots, snapshot, observed
  <2>2. /\ pc[c] \in WorkPc /\ "publish" \in WorkPc
        /\ FamilyAt(Op[c], "publish") = FamilyAt(Op[c], pc[c])
        /\ ControlAt(Op[c], "publish")
    BY <1>2 DEF WorkPc, FamilyAt, ControlAt
  <2>3. SlotStep
    BY <1>2, <2>1, <2>2, MoveStep, Zenon
  <2> QED
    BY <1>1, <2>1, <2>3, Zenon DEF PubStep
<1>3. ASSUME NEW f \in Family, NEW r \in Resource, NEW result, NEW state,
             Holds(c, f), is_current(f, gen[c]),
             active' = [active EXCEPT ![f] = 0], return(c, result),
             resource' = [resource EXCEPT ![r] = PageResult(ans[c])[1]],
             next_revision, UNCHANGED <<generation, closing, shutdown>>
      PROVE  SlotStep /\ PubStep
  <2>1. PageResult(ans[c])[1] \in ResourcePhase
    BY DEF PageResult, ResourcePhase
  <2>2. resource' \in [Resource -> ResourcePhase]
    BY <1>1, <1>3, <2>1
  <2>3. ~shutdown
    BY <1>3, CurrentOwner, Zenon
  <2>4. SlotStep
    BY <1>3, EndStep, Zenon
  <2> QED
    BY <1>3, <2>2, <2>3, <2>4, Zenon DEF PubStep, next_revision
<1>4. ASSUME PageAnswer(c) PROVE SlotStep /\ PubStep
  BY <1>2, <1>4, Zenon DEF PageAnswer
<1>5. ASSUME NftAnswer(c) PROVE SlotStep /\ PubStep
  BY <1>2, <1>5, Zenon DEF NftAnswer
<1>6. ASSUME PagePublish(c) PROVE SlotStep /\ PubStep
  <2>1. pc[c] = "publish" /\ Op[c] = "load_more_activity"
    BY <1>6, Zenon DEF PagePublish
  <2>2. Holds(c, "Pagination") /\ "Pagination" \in Family /\ "activity_pages" \in Resource
    BY <2>1 DEF Holds, FamilyAt, FamilyOf, WorkPc, Family, Resource
  <2>3. CASE is_current("Pagination", gen[c])
    <3>1. /\ active' = [active EXCEPT !["Pagination"] = 0]
          /\ return(c, PageResult(ans[c])[2]) /\ next_revision
          /\ resource' = [resource EXCEPT !["activity_pages"] = PageResult(ans[c])[1]]
          /\ UNCHANGED <<generation, closing, shutdown>>
      BY <1>6, <2>3, Zenon DEF PagePublish
    <3> QED
      BY <1>3, <2>2, <2>3, <3>1, Zenon
  <2>4. CASE ~is_current("Pagination", gen[c])
    BY <1>6, <2>2, <2>4, LateOwnsNothing, RefuseStep, Zenon DEF PagePublish
  <2> QED
    BY <2>3, <2>4
<1>7. ASSUME NEW f \in Family, NEW r \in Resource, NEW op, NftPublish(c, op, f, r),
             Holds(c, f)
      PROVE  SlotStep /\ PubStep
  <2>1. CASE is_current(f, gen[c])
    <3>1. /\ active' = [active EXCEPT ![f] = 0]
          /\ return(c, PageResult(ans[c])[2]) /\ next_revision
          /\ resource' = [resource EXCEPT ![r] = PageResult(ans[c])[1]]
          /\ UNCHANGED <<generation, closing, shutdown>>
      BY <1>7, <2>1, Zenon DEF NftPublish
    <3> QED
      BY <1>3, <1>7, <2>1, <3>1, Zenon
  <2>2. CASE ~is_current(f, gen[c])
    BY <1>7, <2>2, LateOwnsNothing, RefuseStep, Zenon DEF NftPublish
  <2> QED
    BY <2>1, <2>2
<1>8. ASSUME NftRefreshPublish(c) PROVE SlotStep /\ PubStep
  <2>1. pc[c] = "publish" /\ Op[c] = "refresh_nfts"
    BY <1>8, Zenon DEF NftRefreshPublish, NftPublish
  <2>2. Holds(c, "NftRefresh") /\ "NftRefresh" \in Family /\ "nfts" \in Resource
    BY <2>1 DEF Holds, FamilyAt, FamilyOf, WorkPc, Family, Resource
  <2> QED
    BY <1>7, <1>8, <2>2, Zenon DEF NftRefreshPublish
<1>9. ASSUME NftPagePublish(c) PROVE SlotStep /\ PubStep
  <2>1. pc[c] = "publish" /\ Op[c] = "load_more_nfts"
    BY <1>9, Zenon DEF NftPagePublish, NftPublish
  <2>2. Holds(c, "NftPagination") /\ "NftPagination" \in Family /\ "nft_pages" \in Resource
    BY <2>1 DEF Holds, FamilyAt, FamilyOf, WorkPc, Family, Resource
  <2> QED
    BY <1>7, <1>9, <2>2, Zenon DEF NftPagePublish
<1> QED
  BY <1>4, <1>5, <1>6, <1>8, <1>9

\* The steps of previews, prepare_transfer, observers and the send.
LEMMA OtherStep ==
  ASSUME SlotInv, Configured, NEW c \in Calls,
         \/ PreviewAnswer(c) \/ PrepareAnswer(c) \/ WaitBegin(c) \/ WaitWake(c)
         \/ SendCommit(c) \/ SendEnd(c) \/ EnsureRunning(c)
  PROVE  SlotStep /\ PubStep
<1>1. resource \in [Resource -> ResourcePhase] /\ ControlAt(Op[c], pc[c])
  BY Zenon DEF SlotInv, SlotTypes, Control
<1>2. /\ "Preview" \in Family /\ "Resolution" \in Family /\ "Send" \in Family
  BY Zenon DEF Family
<1>3. ASSUME NEW f \in Family, Holds(c, f), pc[c] \in {"account", "seqno", "emulation", "secret"},
             UNCHANGED <<generation, closing, shutdown, resource, feed, nfts, send, revision>>,
             \/ \E where \in {"seqno", "emulation", "secret"} :
                  to(c, where) /\ UNCHANGED <<active, gen>>
             \/ active' = [active EXCEPT ![f] = 0] /\ \E result : return(c, result)
      PROVE  SlotStep /\ PubStep
  <2>1. PubStep
    BY <1>1, <1>3, Zenon DEF PubStep
  <2>2. ASSUME NEW where \in {"seqno", "emulation", "secret"},
               to(c, where), UNCHANGED <<active, gen>>
        PROVE  SlotStep
    <3>1. /\ pc[c] \in WorkPc /\ where \in WorkPc
          /\ FamilyAt(Op[c], where) = FamilyAt(Op[c], pc[c])
          /\ ControlAt(Op[c], where)
      BY <1>1, <1>3 DEF WorkPc, FamilyAt, ControlAt
    <3> QED
      BY <1>3, <2>2, <3>1, MoveStep, Zenon
  <2>3. ASSUME active' = [active EXCEPT ![f] = 0], NEW result, return(c, result)
        PROVE  SlotStep
    BY <1>3, <2>3, EndStep, Zenon
  <2> QED
    BY <1>3, <2>1, <2>2, <2>3, Zenon
<1>4. ASSUME PreviewAnswer(c) PROVE SlotStep /\ PubStep
  <2>1. Op[c] = "preview" /\ pc[c] \in {"account", "seqno", "emulation"}
    BY <1>4, Zenon DEF PreviewAnswer
  <2>2. Holds(c, "Preview")
    BY <2>1 DEF Holds, FamilyAt, FamilyOf, WorkPc
  <2>3. CASE ~running
    <3>1. OwnsNothing(c)
      <4> SUFFICES ASSUME NEW f \in Family, Holds(c, f)
                   PROVE  gen[c] # active[f] \/ active[f] = 0 \/ (closing /\ f = "Preview")
        BY Zenon DEF OwnsNothing
      <4>1. f = "Preview"
        BY <2>2, Zenon DEF Holds
      <4> QED
        BY <2>3, <4>1, Zenon DEF running, SlotInv, Exclusion
    <3> QED
      BY <1>4, <2>3, <3>1, RefuseStep, Zenon DEF PreviewAnswer
  <2>4. CASE running /\ ~is_current("Preview", gen[c])
    BY <1>2, <1>4, <2>2, <2>4, LateOwnsNothing, RefuseStep, Zenon DEF PreviewAnswer
  <2>5. CASE running /\ is_current("Preview", gen[c])
    <3>1. /\ UNCHANGED <<generation, closing, shutdown, resource, feed, nfts, send, revision>>
          /\ \/ \E where \in PreviewNext(pc[c]) : to(c, where) /\ UNCHANGED <<active, gen>>
             \/ active' = [active EXCEPT !["Preview"] = 0] /\ \E result : return(c, result)
      BY <1>4, <2>5, Zenon DEF PreviewAnswer, snapshot, observed, locals
    <3>2. PreviewNext(pc[c]) \subseteq {"seqno", "emulation", "secret"}
      BY Zenon DEF PreviewNext
    <3> QED
      BY <1>2, <1>3, <2>1, <2>2, <3>1, <3>2, Zenon
  <2> QED
    BY <2>3, <2>4, <2>5
<1>5. ASSUME PrepareAnswer(c) PROVE SlotStep /\ PubStep
  <2>1. Op[c] = "prepare_transfer" /\ pc[c] \in {"account", "seqno", "secret"}
    BY <1>5, Zenon DEF PrepareAnswer
  <2>2. Holds(c, "Resolution")
    BY <2>1 DEF Holds, FamilyAt, FamilyOf, WorkPc
  <2>3. CASE ~is_current("Resolution", gen[c])
    BY <1>2, <1>5, <2>2, <2>3, LateOwnsNothing, RefuseStep, Zenon DEF PrepareAnswer
  <2>4. CASE is_current("Resolution", gen[c])
    <3>1. /\ UNCHANGED <<generation, closing, shutdown, resource, feed, nfts, send, revision>>
          /\ \/ \E where \in PrepareNext(pc[c]) : to(c, where) /\ UNCHANGED <<active, gen>>
             \/ active' = [active EXCEPT !["Resolution"] = 0]
                /\ \E result : return(c, result)
      BY <1>5, <2>4, Zenon DEF PrepareAnswer, snapshot, observed, locals
    <3>2. PrepareNext(pc[c]) \subseteq {"seqno", "emulation", "secret"}
      BY Zenon DEF PrepareNext
    <3> QED
      BY <1>2, <1>3, <2>1, <2>2, <3>1, <3>2, Zenon
  <2> QED
    BY <2>3, <2>4
<1>6. ASSUME WaitBegin(c) PROVE SlotStep /\ PubStep
  <2>1. /\ pc[c] = "start" /\ UNCHANGED <<active, generation, closing, shutdown>>
        /\ UNCHANGED <<resource, feed, nfts, send, revision>>
        /\ \/ \E result : return(c, result)
           \/ to(c, "asleep") /\ UNCHANGED gen
    BY <1>6, Zenon DEF WaitBegin, slots, snapshot
  <2>2. OwnsNothing(c)
    BY <2>1, RestOwnsNothing, Zenon DEF RestPc
  <2>3. /\ "asleep" \in RestPc /\ "asleep" \in Pc /\ ControlAt(Op[c], "asleep")
        /\ "done" \in RestPc /\ "done" \in Pc /\ ControlAt(Op[c], "done")
        /\ gen[c] \in Nat /\ gen = [gen EXCEPT ![c] = gen[c]] /\ 0 \in Nat
    BY DEF RestPc, Pc, ControlAt, SlotInv, SlotTypes
  <2>4. Rests(c, "done") \/ Rests(c, "asleep")
    BY <2>1, <2>2, <2>3, Zenon DEF Rests, to, return, OwnsNothing
  <2> QED
    BY <1>1, <2>1, <2>3, <2>4, Zenon DEF SlotStep, PubStep
<1>7. ASSUME WaitWake(c) \/ EnsureRunning(c) PROVE SlotStep /\ PubStep
  <2>1. pc[c] \in RestPc /\ \E result : refuse(c, result)
    BY <1>7, Zenon DEF WaitWake, EnsureRunning, RestPc
  <2> QED
    BY <2>1, RestOwnsNothing, RefuseStep, Zenon
<1>8. ASSUME pc[c] \in {"signing", "committed"} PROVE Holds(c, "Send")
  BY <1>1, <1>8 DEF Holds, FamilyAt, FamilyOf, WorkPc, ControlAt
<1>9. ASSUME SendCommit(c) PROVE SlotStep /\ PubStep
  <2>1. pc[c] = "signing" /\ Holds(c, "Send")
    BY <1>8, <1>9, Zenon DEF SendCommit
  <2>2. CASE shutdown \/ ~is_current("Send", gen[c])
    <3>1. OwnsNothing(c)
      BY <1>2, <2>1, <2>2, LateOwnsNothing, Zenon DEF OwnsNothing, SlotInv, Exclusion
    <3> QED
      BY <1>9, <2>2, <3>1, RefuseStep, Zenon DEF SendCommit
  <2>3. CASE ~(shutdown \/ ~is_current("Send", gen[c]))
    <3>1. /\ to(c, "committed") /\ UNCHANGED <<gen, active, generation, closing, shutdown>>
          /\ UNCHANGED <<resource, feed, nfts, send, revision>>
      BY <1>9, <2>3, Zenon DEF SendCommit, snapshot, observed
    <3>2. /\ pc[c] \in WorkPc /\ "committed" \in WorkPc
          /\ FamilyAt(Op[c], "committed") = FamilyAt(Op[c], pc[c])
          /\ ControlAt(Op[c], "committed")
      BY <1>1, <2>1 DEF WorkPc, FamilyAt, ControlAt
    <3>3. SlotStep
      BY <3>1, <3>2, MoveStep, Zenon
    <3> QED
      BY <1>1, <3>1, <3>3, Zenon DEF PubStep
  <2> QED
    BY <2>2, <2>3
<1>10. ASSUME SendEnd(c) PROVE SlotStep /\ PubStep
  <2>1. /\ Holds(c, "Send") /\ is_current("Send", gen[c])
        /\ active' = [active EXCEPT !["Send"] = 0] /\ next_revision
        /\ return(c, send') /\ UNCHANGED <<generation, closing, shutdown, resource>>
    BY <1>8, <1>10, Zenon DEF SendEnd
  <2>2. ~shutdown
    BY <1>2, <2>1, CurrentOwner, Zenon
  <2>3. SlotStep
    BY <1>2, <2>1, EndStep, Zenon
  <2> QED
    BY <1>1, <2>1, <2>2, <2>3, Zenon DEF PubStep, next_revision
<1> QED
  BY <1>4, <1>5, <1>6, <1>7, <1>9, <1>10

\* A cancellation empties the slot of a running operation.
LEMMA CancelStep ==
  ASSUME SlotInv, Cancel
  PROVE  SlotStep /\ PubStep
<1>1. resource \in [Resource -> ResourcePhase] /\ "Idle" \in ResourcePhase
  BY Zenon DEF SlotInv, SlotTypes, ResourcePhase
<1>2. ASSUME NEW f \in Family, active[f] # 0, active' = [active EXCEPT ![f] = 0],
             UNCHANGED call, UNCHANGED <<generation, closing, shutdown>>,
             resource' \in [Resource -> ResourcePhase],
             revision' = revision + 1 \/ UNCHANGED <<resource, feed, nfts, send, revision>>
      PROVE  SlotStep /\ PubStep
  <2>1. ~shutdown
    BY <1>2, Zenon DEF SlotInv, Exclusion
  <2>2. Clears
    BY <1>2, Zenon DEF Clears, call
  <2> QED
    BY <1>2, <2>1, <2>2, Zenon DEF SlotStep, PubStep
<1>3. ASSUME cancel_refresh PROVE SlotStep /\ PubStep
  <2>1. mark_loading_cancelled({"account", "activity"}) \in [Resource -> ResourcePhase]
    BY <1>1 DEF mark_loading_cancelled
  <2> QED
    BY <1>2, <1>3, <2>1, Zenon DEF cancel_refresh, next_revision, Family
<1>4. ASSUME cancel_load_more_activity PROVE SlotStep /\ PubStep
  <2>1. resource' \in [Resource -> ResourcePhase]
    BY <1>1, <1>4, Zenon DEF cancel_load_more_activity
  <2> QED
    BY <1>2, <1>4, <2>1, Zenon DEF cancel_load_more_activity, next_revision, Family
<1>5. ASSUME NEW f \in Family, NEW r \in Resource, cancel_nfts(f, r)
      PROVE  SlotStep /\ PubStep
  <2>1. resource' \in [Resource -> ResourcePhase]
    BY <1>1, <1>5 DEF cancel_nfts
  <2> QED
    BY <1>2, <1>5, <2>1, Zenon DEF cancel_nfts, next_revision
<1>6. ASSUME cancel_send_preview PROVE SlotStep /\ PubStep
  BY <1>1, <1>2, <1>6, Zenon DEF cancel_send_preview, snapshot, observed, Family
<1>7. ASSUME cancel_send PROVE SlotStep /\ PubStep
  BY <1>1, <1>2, <1>7, Zenon DEF cancel_send, next_revision, Family
<1>8. /\ "NftRefresh" \in Family /\ "NftPagination" \in Family
      /\ "nfts" \in Resource /\ "nft_pages" \in Resource
  BY Zenon DEF Family, Resource
<1> QED
  BY <1>3, <1>4, <1>5, <1>6, <1>7, <1>8, Zenon
     DEF Cancel, cancel_refresh_nfts, cancel_load_more_nfts

\* The provider's data and a stuttering step leave the client alone.
LEMMA QuietStep ==
  ASSUME SlotInv, Environment \/ UNCHANGED vars
  PROVE  SlotStep /\ PubStep
<1>1. UNCHANGED <<call, slots, snapshot, observed>>
  BY Zenon DEF Environment, Transact, NftUse, NftLeave, vars
<1>2. /\ UNCHANGED <<pc, gen, active, generation, closing, shutdown>>
      /\ UNCHANGED <<resource, feed, nfts, send, revision>>
  BY <1>1, Zenon DEF call, slots, snapshot, observed
<1> QED
  BY <1>2, Zenon DEF SlotStep, Clears, PubStep, SlotInv, SlotTypes

\* Every step moves the slots in one of the ways above and publishes what it
\* changes.
LEMMA EveryStep ==
  ASSUME SlotInv, Configured, [Next]_vars
  PROVE  SlotStep /\ PubStep
<1>1. ASSUME NEW c \in Calls, Continue(c) PROVE SlotStep /\ PubStep
  BY <1>1, RefreshStep, PagesStep, OtherStep, ShutdownStep, Zenon DEF Continue
<1> QED
  BY <1>1, BeginStep, CancelStep, QuietStep, Zenon DEF Next

\* The types of the slots are kept.
LEMMA TypesKeep ==
  ASSUME SlotInv, SlotStep, PubStep
  PROVE  SlotTypes'
<1>1. SlotTypes
  BY Zenon DEF SlotInv
<1>2. resource' \in [Resource -> ResourcePhase] /\ revision' \in Nat
  BY <1>1 DEF SlotTypes, PubStep
<1>3. ASSUME Clears PROVE SlotTypes'
  BY <1>1, <1>2, <1>3 DEF SlotTypes, Clears
<1>4. "done" \in Pc /\ 0 \in Nat
  BY DEF Pc, RestPc
<1>5. ASSUME NEW c \in Calls, Shuts(c) PROVE SlotTypes'
  BY <1>1, <1>2, <1>4, <1>5 DEF SlotTypes, Shuts
<1>6. ASSUME NEW c \in Calls, NEW where \in Pc, Moves(c, where) PROVE SlotTypes'
  BY <1>1, <1>2, <1>6 DEF SlotTypes, Moves
<1>7. ASSUME NEW c \in Calls, NEW where \in Pc, Rests(c, where) PROVE SlotTypes'
  <2>1. pc' \in [Calls -> Pc] /\ gen' \in [Calls -> Nat] /\ generation' = generation
    BY <1>1, <1>7 DEF SlotTypes, Rests
  <2>2. active' \in [Family -> Nat]
    <3>1. active' = active \/ \E f \in Family : active' = [active EXCEPT ![f] = 0]
      BY <1>7, Zenon DEF Rests
    <3> QED
      BY <1>1, <3>1 DEF SlotTypes
  <2> QED
    BY <1>1, <1>2, <2>1, <2>2, Zenon DEF SlotTypes
<1>8. ASSUME NEW c \in Calls, NEW f \in Family, NEW where \in Pc, Starts(c, f, where)
      PROVE  SlotTypes'
  <2>1. generation[f] + 1 \in Nat
    BY <1>1 DEF SlotTypes
  <2>2. pc' \in [Calls -> Pc] /\ gen' \in [Calls -> Nat] /\ generation' \in [Family -> Nat]
    BY <1>1, <1>8, <2>1 DEF SlotTypes, Starts
  <2> QED
    BY <1>2, <1>8, <2>2, Zenon DEF SlotTypes, Starts
<1> QED
  BY <1>3, <1>5, <1>6, <1>7, <1>8, Zenon DEF SlotStep

\* Every step keeps the invariant of the slots.
LEMMA SlotsKeep ==
  ASSUME SlotInv, Configured, [Next]_vars
  PROVE  SlotInv'
<1>1. SlotStep /\ PubStep
  BY EveryStep, Zenon
<1>2. SlotsOnly'
  BY <1>1, StartsKeeps, MovesKeeps, RestsKeeps, ClearsKeeps, ShutsKeeps, Zenon DEF SlotStep
<1> QED
  BY <1>1, <1>2, TypesKeep, Zenon DEF SlotInv, SlotsOnly

\* A new client has no call at work and no slot taken.
LEMMA SlotsInit ==
  ASSUME Configured, Init
  PROVE  SlotInv
<1>1. SlotTypes
  BY DEF Init, SlotTypes, Pc, RestPc, ResourcePhase
<1>2. /\ \A c \in Calls : pc[c] = "idle"
      /\ \A f \in Family : active[f] = 0 /\ generation[f] = 0
      /\ ~shutdown
  BY Zenon DEF Init
<1>3. \A c \in Calls, f \in Family : ~Holds(c, f)
  BY <1>2, Zenon DEF Holds, WorkPc
<1>4. Control
  BY <1>2 DEF Control, ControlAt
<1>5. Given
  BY <1>2, <1>3 DEF Given
<1>6. Unique /\ Owned
  BY <1>2, <1>3, Zenon DEF Unique, Owned
<1>7. Exclusion
  BY <1>2, Zenon DEF Exclusion, SendExcludesResolution, Family
<1> QED
  BY <1>1, <1>4, <1>5, <1>6, <1>7, Zenon DEF SlotInv

-----------------------------------------------------------------------------
(* What a step of one call leaves alone.                                   *)

\* The locals of the calls are functions of the calls.
Locals ==
  /\ ans = [c \in Calls |-> ans[c]] /\ arg = [c \in Calls |-> arg[c]]
  /\ outcome = [c \in Calls |-> outcome[c]]

\* Only the locals of c change.
OnlyCall(c) ==
  /\ Locals'
  /\ \A d \in Calls \ {c} :
       /\ pc'[d] = pc[d] /\ gen'[d] = gen[d] /\ arg'[d] = arg[d]
       /\ ans'[d] = ans[d] /\ outcome'[d] = outcome[d]

\* Assignments to the locals of one call.
LEMMA Assigned ==
  ASSUME SlotTypes, Locals, NEW c \in Calls,
         \E x : pc' = [pc EXCEPT ![c] = x],
         gen' = gen \/ \E x : gen' = [gen EXCEPT ![c] = x],
         arg' = arg \/ \E x : arg' = [arg EXCEPT ![c] = x],
         ans' = ans \/ \E x : ans' = [ans EXCEPT ![c] = x],
         outcome' = outcome \/ \E x : outcome' = [outcome EXCEPT ![c] = x]
  PROVE  OnlyCall(c)
<1>1. \A d \in Calls \ {c} : pc'[d] = pc[d] /\ gen'[d] = gen[d]
  BY Zenon DEF SlotTypes
<1>2. ASSUME NEW f, f = [d \in Calls |-> f[d]], NEW g,
             g = f \/ \E x : g = [f EXCEPT ![c] = x]
      PROVE  /\ g = [d \in Calls |-> g[d]]
             /\ \A d \in Calls \ {c} : g[d] = f[d]
  <2>1. CASE g = f
    BY <1>2, <2>1, Zenon
  <2>2. ASSUME NEW x, g = [f EXCEPT ![c] = x]
        PROVE  /\ g = [d \in Calls |-> g[d]]
               /\ \A d \in Calls \ {c} : g[d] = f[d]
    <3>1. DOMAIN f = Calls
      BY <1>2, Zenon
    <3> QED
      BY <1>2, <2>2, <3>1, Zenon
  <2> QED
    BY <1>2, <2>1, <2>2, Zenon
<1>3. arg' = [d \in Calls |-> arg'[d]] /\ \A d \in Calls \ {c} : arg'[d] = arg[d]
  BY <1>2, Zenon DEF Locals
<1>4. ans' = [d \in Calls |-> ans'[d]] /\ \A d \in Calls \ {c} : ans'[d] = ans[d]
  BY <1>2, Zenon DEF Locals
<1>5. /\ outcome' = [d \in Calls |-> outcome'[d]]
      /\ \A d \in Calls \ {c} : outcome'[d] = outcome[d]
  BY <1>2, Zenon DEF Locals
<1> QED
  BY <1>1, <1>3, <1>4, <1>5, Zenon DEF OnlyCall, Locals

\* A call that returns assigns its own locals.
LEMMA ReturnFrame ==
  ASSUME SlotTypes, Locals, NEW c \in Calls, NEW result, return(c, result)
  PROVE  OnlyCall(c) /\ pc'[c] = "done"
<1>1. OnlyCall(c)
  BY Assigned, Zenon DEF return, to
<1> QED
  BY <1>1, Zenon DEF return, to, SlotTypes

\* A call that goes on and is given nothing new.
LEMMA ToFrame ==
  ASSUME SlotTypes, Locals, NEW c \in Calls, NEW where, to(c, where),
         UNCHANGED <<gen, arg, ans, outcome>>
  PROVE  OnlyCall(c) /\ pc'[c] = where
<1>1. OnlyCall(c)
  BY Assigned, Zenon DEF to
<1> QED
  BY <1>1, Zenon DEF to, SlotTypes

\* A call that takes a slot.
LEMMA TakeFrame ==
  ASSUME SlotTypes, Locals, NEW c \in Calls, NEW f, NEW where, take(c, f), to(c, where),
         arg' = arg \/ \E x : arg' = [arg EXCEPT ![c] = x], UNCHANGED <<ans, outcome>>
  PROVE  OnlyCall(c) /\ pc'[c] = where
<1>1. OnlyCall(c)
  BY Assigned, Zenon DEF to, take
<1> QED
  BY <1>1, Zenon DEF to, SlotTypes

Same(c) == pc'[c] = pc[c] /\ gen'[c] = gen[c] /\ arg'[c] = arg[c] /\ ans'[c] = ans[c]

\* After a step, a slot that is empty or that another call owns is not one's own.
LEMMA Displaced ==
  ASSUME SlotInv', NEW c \in Calls, NEW f \in Family, Holds(c, f)',
         \/ active'[f] = 0
         \/ \E k \in Calls \ {c} : Holds(k, f)' /\ gen'[k] = active'[f]
  PROVE  ~is_current(f, gen[c])'
<1>1. 1 <= gen'[c] /\ gen'[c] \in Nat
  BY Zenon DEF SlotInv, Given, SlotTypes
<1>2. gen'[c] # 0
  BY <1>1
<1> QED
  BY <1>2, Zenon DEF SlotInv, Unique, is_current
=============================================================================
