----------------------------- MODULE WorkQueue ------------------------------
(***************************************************************************)
(* The story queue: scripts/enqueue.py fills it, scripts/worker.py empties *)
(* it, control/queue_reinterleave.py reorders it, scripts/fleet/dlq.py     *)
(* keeps, returns and clears what failed.                                  *)
(*                                                                         *)
(* A lane is written in the order in which workers pop it: LPUSH appends,  *)
(* RPUSH puts first.  A popped cell exists in its worker's memory only.    *)
(* Admission is armed, and cells carry the budget reserved by their fill.  *)
(* story_status, which every step writes for the views, is left out.       *)
(***************************************************************************)
EXTENDS Naturals, Sequences, FiniteSets, SequencesExt

CONSTANTS
    Cells,        \* cell ids
    Matrix,       \* the fills: sequences of cells as build_cells returns them
    Earlier,      \* what earlier fills have left in the main lane
    Batch,        \* cells with batch_mode
    Unbudgeted,   \* cells whose lease block is invalid: denied every time
    Flaky,        \* cells whose execution may fail or time out
    ProviderOf,   \* cell -> the provider of its model
    Priority,     \* the providers in the order of _spread_order
    Workers,
    FleetCap, ProviderCap,  \* slots
    MaxDenials,   \* MAX_CONSECUTIVE_DENIALS
    MaxLane,      \* bound: lanes for which reinterleave is checked
    MaxCommands,  \* bound: fills, rewrites of the lane, returns and clearances
    MaxFaults     \* bound: kills, failed calls and lost replies

Providers == {ProviderOf[c] : c \in Cells}
Scopes    == {"fleet"} \cup Providers
NoCell    == "none"

ASSUME QueueAssumption ==
    /\ Matrix \subseteq Seq(Cells) /\ Earlier \in Seq(Cells \ Batch) /\ Batch \subseteq Cells /\ Unbudgeted \subseteq Cells /\ Flaky \subseteq Cells
    /\ IsFiniteSet(Workers)
    /\ FleetCap \in Nat /\ ProviderCap \in Nat /\ MaxDenials \in Nat \ {0}
    /\ MaxLane \in Nat /\ MaxCommands \in Nat /\ MaxFaults \in Nat
    /\ "fleet" \notin Providers /\ NoCell \notin Cells
    /\ Priority \in Seq(Providers) /\ Range(Priority) = Providers /\ Len(Priority) = Cardinality(Providers)
    /\ \A plan \in Matrix : Range(plan) \subseteq Batch \/ Range(plan) \cap Batch = {}

VARIABLES
    main, batch,  \* story_jobs and story_jobs_batch
    dead,         \* story_jobs:dead_letter
    results,      \* cells with a saved result
    worker,       \* worker -> where it is, its cell, its denials in a row, its slots
    stray,        \* scope -> slots nobody will release: they expire
    fill,         \* the enqueue command under way
    reorder,      \* the lane the reinterleave under way has read, <<>> when there is none
    inHand,       \* the dead letter requeue_one has popped
    commands, faults,  \* how many there have been
    owed,         \* cells queued that are neither done nor cleared (history)
    overwritten   \* cells a rewrite of the lane dropped unread, or died with (history)

lanes  == <<main, batch>>
tally  == <<commands, faults>>
vars   == <<lanes, dead, results, worker, stray, fill, reorder, inHand, tally, owed, overwritten>>

Points   == {"off", "idle", "popped", "admitted", "denied", "failing", "refiling", "ended"}
\* A worker at one of these is answerable for its cell.
Holding  == {"popped", "admitted", "denied", "failing", "refiling"}
Off      == [at |-> "off", cell |-> NoCell, denials |-> 0, slots |-> {}]
NoFill   == [at |-> "off", weave |-> FALSE, old |-> <<>>, new |-> <<>>, todo |-> <<>>]

TypeOK ==
    /\ Range(main) \cup Range(batch) \cup Range(dead) \cup results \subseteq Cells
    /\ \A w \in Workers :
        /\ worker[w].at \in Points /\ worker[w].slots \subseteq Scopes
        /\ (worker[w].cell = NoCell) = (worker[w].at \in {"off", "idle"})
        /\ worker[w].denials \in 0..MaxDenials
        /\ worker[w].at \in {"off", "idle", "denied"} => worker[w].slots = {}
        /\ worker[w].at \in {"idle", "popped"} => worker[w].denials < MaxDenials
    /\ stray \in [Scopes -> Nat]
    /\ Range(fill.old) \cup Range(fill.new) \cup Range(fill.todo) \subseteq Cells
    /\ (reorder # <<>> => Range(reorder[1]) \subseteq Cells) /\ Range(inHand) \subseteq Cells

Init ==
    /\ main = Earlier /\ batch = <<>> /\ dead = <<>> /\ results = {}
    /\ worker = [w \in Workers |-> Off] /\ stray = [s \in Scopes |-> 0]
    /\ fill = NoFill /\ reorder = <<>> /\ inHand = <<>>
    /\ commands = 0 /\ faults = 0
    /\ owed = Range(main) /\ overwritten = {}

Command == commands < MaxCommands /\ commands' = commands + 1 /\ UNCHANGED faults
Fault   == faults < MaxFaults /\ faults' = faults + 1 /\ UNCHANGED commands
NoFault == UNCHANGED tally
\* A push makes the queue answerable for the cell.
Owe(c)  == owed' = owed \cup {c} /\ overwritten' = overwritten \ {c}
\* The operator wants no more of the cells.
Forfeit(cells) == owed' = owed \ cells /\ UNCHANGED overwritten
\* A rewrite of the lane leaves the cells out.
Overwrite(cells) == overwritten' = overwritten \cup cells /\ UNCHANGED owed
-----------------------------------------------------------------------------
(* Filling the queue.                                                      *)

\* LPUSH onto the lane of the cell.
Push(c) ==
    /\ main'  = IF c \in Batch THEN main ELSE Append(main, c)
    /\ batch' = IF c \in Batch THEN Append(batch, c) ELSE batch

\* A fill with nothing left to push is over.
Pushing(f) == IF f.at \in {"push", "weave"} /\ f.todo = <<>> THEN NoFill ELSE f

\* The cells of s that are in the set, in their order.
Only(s, cells) == FlattenSeq([i \in DOMAIN s |-> IF s[i] \in cells THEN <<s[i]>> ELSE <<>>])

\* build_cells and admit_cells; a refused admission leaves everything as it is.
FillBegin(plan, missingOnly, weave) ==
    /\ fill.at = "off" /\ Command
    /\ weave => Range(plan) \cap Batch = {}
    /\ LET new == IF missingOnly THEN Only(plan, Cells \ results) ELSE plan
       IN  fill' = Pushing([NoFill EXCEPT !.at = IF missingOnly THEN "select" ELSE IF weave THEN "read" ELSE "push",
                                          !.weave = weave, !.new = new, !.todo = new])
    /\ UNCHANGED <<lanes, dead, results, worker, stray, reorder, inHand, owed, overwritten>>

FillOnly == UNCHANGED <<dead, results, worker, stray, reorder, inHand>>

\* select_new_cells: what waits in either lane is not pushed again.
FillSelect ==
    /\ fill.at = "select"
    /\ LET new == Only(fill.new, Cells \ (Range(main) \cup Range(batch)))
       IN  fill' = Pushing([fill EXCEPT !.at = IF fill.weave THEN "read" ELSE "push", !.new = new, !.todo = new])
    /\ FillOnly /\ NoFault /\ UNCHANGED <<lanes, owed, overwritten>>

\* --interleave reads the lane,
FillRead ==
    /\ fill.at = "read"
    /\ fill' = [fill EXCEPT !.at = "delete", !.old = main]
    /\ FillOnly /\ NoFault /\ UNCHANGED <<lanes, owed, overwritten>>

\* interleave_cells: a round takes one cell of every provider that has one left.
InterleaveCells(s) ==
    LET Pool(p)  == Only(s, {c \in Cells : ProviderOf[c] = p})
        Round(k) == FlattenSeq([i \in DOMAIN Priority |->
                        IF k <= Len(Pool(Priority[i])) THEN <<Pool(Priority[i])[k]>> ELSE <<>>])
    IN  FlattenSeq([k \in DOMAIN s |-> Round(k)])

\* deletes it,
FillDelete ==
    /\ fill.at = "delete"
    /\ fill' = Pushing([fill EXCEPT !.at = "weave", !.todo = InterleaveCells(fill.old \o fill.new)])
    /\ main' = <<>>
    /\ Overwrite(Range(main) \ Range(fill.old))
    /\ FillOnly /\ NoFault /\ UNCHANGED batch

\* and pushes the old and the new cells.
FillWeave ==
    /\ fill.at = "weave"
    /\ main' = Append(main, Head(fill.todo)) /\ Owe(Head(fill.todo))
    /\ fill' = Pushing([fill EXCEPT !.todo = Tail(@)])
    /\ FillOnly /\ NoFault /\ UNCHANGED batch

\* push_cells.
FillPush ==
    /\ fill.at = "push"
    /\ Push(Head(fill.todo)) /\ Owe(Head(fill.todo))
    /\ fill' = Pushing([fill EXCEPT !.todo = Tail(@)])
    /\ FillOnly /\ NoFault

\* The command is killed, or a call of it fails.
FillDies ==
    /\ fill.at # "off" /\ Fault
    /\ fill' = NoFill
    /\ Overwrite(IF fill.at = "weave" THEN Range(fill.todo) ELSE {})
    /\ FillOnly /\ UNCHANGED lanes

\* enqueue.py --clear.
Clear ==
    /\ Command
    /\ main' = <<>> /\ batch' = <<>>
    /\ Forfeit(Range(main) \cup Range(batch))
    /\ UNCHANGED <<dead, results, worker, stray, fill, reorder, inHand>>

Fill ==
    \/ \E plan \in Matrix, missingOnly, weave \in BOOLEAN : FillBegin(plan, missingOnly, weave)
    \/ FillSelect \/ FillRead \/ FillDelete \/ FillWeave \/ FillPush \/ FillDies \/ Clear
-----------------------------------------------------------------------------
(* The worker loop.                                                        *)

Elsewhere == UNCHANGED <<fill, reorder, inHand>>
Goto(w, at) == worker' = [worker EXCEPT ![w].at = at]

Start(w) ==
    /\ worker[w].at = "off"
    /\ worker' = [worker EXCEPT ![w] = [Off EXCEPT !.at = "idle"]]
    /\ NoFault /\ Elsewhere /\ UNCHANGED <<lanes, dead, results, stray, owed, overwritten>>

\* BRPOP of the lanes in their order.
Popped == IF main # <<>> THEN Head(main) ELSE Head(batch)
Take ==
    /\ main # <<>> \/ batch # <<>>
    /\ main'  = IF main # <<>> THEN Tail(main) ELSE main
    /\ batch' = IF main # <<>> THEN batch ELSE Tail(batch)

Pop(w) ==
    /\ worker[w].at = "idle" /\ Take
    /\ worker' = [worker EXCEPT ![w].at = "popped", ![w].cell = Popped]
    /\ NoFault /\ Elsewhere /\ UNCHANGED <<dead, results, stray, owed, overwritten>>

\* The reply of a BRPOP is lost; the worker reconnects.
PopLost(w) ==
    /\ worker[w].at = "idle" /\ Take /\ Fault
    /\ Elsewhere /\ UNCHANGED <<dead, results, worker, stray, owed, overwritten>>

\* Twelve empty polls; when the lanes cannot be counted they pass for empty.
Exit(w) ==
    /\ worker[w].at = "idle"
    /\ \/ main = <<>> /\ batch = <<>> /\ NoFault
       \/ Fault
    /\ worker' = [worker EXCEPT ![w] = Off]
    /\ Elsewhere /\ UNCHANGED <<lanes, dead, results, stray, owed, overwritten>>

CapOf(s) == IF s = "fleet" THEN FleetCap ELSE ProviderCap
Used(s)  == Cardinality({w \in Workers : s \in worker[w].slots}) + stray[s]
\* The scope cell_admission reserves next.
Wanted(w) == IF worker[w].slots = {} THEN "fleet" ELSE ProviderOf[worker[w].cell]

\* Mutant: the cap is compared with what was in use before.
FitsAlready(s) == Used(s) <= CapOf(s)

Fits(s) == Used(s) + 1 <= CapOf(s)

Reserve(w) ==
    /\ worker[w].at = "popped" /\ worker[w].cell \notin Unbudgeted /\ Fits(Wanted(w))
    /\ worker' = [worker EXCEPT ![w].slots = @ \cup {Wanted(w)},
                                ![w].at = IF Wanted(w) = "fleet" THEN @ ELSE "admitted",
                                ![w].denials = IF Wanted(w) = "fleet" THEN @ ELSE 0]
    /\ NoFault /\ Elsewhere /\ UNCHANGED <<lanes, dead, results, stray, owed, overwritten>>

\* The slots are released; the failure of a release is suppressed, and the slot
\* is in use until it expires.
Unwind(w) ==
    \/ NoFault /\ UNCHANGED stray
    \/ \E s \in worker[w].slots : Fault /\ stray' = [stray EXCEPT ![s] = @ + 1]

\* LeaseRegistry.from_env cannot reach Redis.  It is called before the attempts
\* that turn into denials: the cell is filed, not queued again.
NoRegistry(w) ==
    /\ worker[w].at = "popped" /\ worker[w].slots = {} /\ worker[w].cell \notin Unbudgeted
    /\ Fault
    /\ Goto(w, "failing")
    /\ Elsewhere /\ UNCHANGED <<lanes, dead, results, stray, owed, overwritten>>

\* No budget, no slot, or no answer to a reservation, which may have been made.
Denied(w) ==
    /\ worker[w].at = "popped"
    /\ \/ (worker[w].cell \in Unbudgeted \/ ~Fits(Wanted(w))) /\ Unwind(w)
       \/ /\ worker[w].cell \notin Unbudgeted /\ Fault
          /\ \/ UNCHANGED stray
             \/ Fits(Wanted(w)) /\ stray' = [stray EXCEPT ![Wanted(w)] = @ + 1]
    /\ worker' = [worker EXCEPT ![w].at = "denied", ![w].slots = {}, ![w].denials = @ + 1]
    /\ Elsewhere /\ UNCHANGED <<lanes, dead, results, owed, overwritten>>

\* The next turn of the loop; ten denials in a row have ended the worker.
Back(w) ==
    worker' = [worker EXCEPT ![w] = IF @.denials = MaxDenials THEN Off
                                    ELSE [@ EXCEPT !.at = "idle", !.cell = NoCell, !.slots = {}]]

\* Mutant: RPUSH, the cell is the next to be popped.
PushFirst(c) ==
    /\ main'  = IF c \in Batch THEN main ELSE <<c>> \o main
    /\ batch' = IF c \in Batch THEN <<c>> \o batch ELSE batch

PushBack(c) == Push(c)

Requeue(w) ==
    /\ worker[w].at = "denied"
    /\ PushBack(worker[w].cell) /\ Back(w)
    /\ NoFault /\ Elsewhere /\ UNCHANGED <<dead, results, stray, owed, overwritten>>

\* The push raises, before or after it took effect: the cell is filed.
RequeueFails(w) ==
    /\ worker[w].at = "denied" /\ Fault
    /\ UNCHANGED lanes \/ PushBack(worker[w].cell)
    /\ Goto(w, "failing")
    /\ Elsewhere /\ UNCHANGED <<dead, results, stray, owed, overwritten>>

\* run_story.py ends or times out.  Whatever becomes of it, it may have saved a result.
Finish(w) ==
    /\ worker[w].at = "admitted"
    /\ \E done, saved \in BOOLEAN :
        /\ worker[w].cell \notin Flaky => done
        /\ done => saved
        /\ Goto(w, IF done THEN "ended" ELSE "failing")
        /\ results' = IF saved THEN results \cup {worker[w].cell} ELSE results
        /\ owed' = IF done THEN owed \ {worker[w].cell} ELSE owed
    /\ NoFault /\ Elsewhere /\ UNCHANGED <<lanes, dead, stray, overwritten>>

\* Mutant: the failure is logged, and that is all.
NotFiled(c) == UNCHANGED dead

Filed(c) == dead' = Append(dead, c)

\* _safe_record_dead: two attempts.
File(w) ==
    /\ worker[w].at \in {"failing", "refiling"}
    /\ Filed(worker[w].cell) /\ Goto(w, "ended")
    /\ NoFault /\ Elsewhere /\ UNCHANGED <<lanes, results, stray, owed, overwritten>>

FileFails(w) ==
    /\ worker[w].at \in {"failing", "refiling"} /\ Fault
    /\ dead' \in {dead, Append(dead, worker[w].cell)}
    /\ Goto(w, IF worker[w].at = "failing" THEN "refiling" ELSE "ended")
    /\ Elsewhere /\ UNCHANGED <<lanes, results, stray, owed, overwritten>>

Release(w) ==
    /\ worker[w].at = "ended"
    /\ Unwind(w) /\ Back(w)
    /\ Elsewhere /\ UNCHANGED <<lanes, dead, results, owed, overwritten>>

Crash(w) ==
    /\ worker[w].at # "off" /\ Fault
    /\ worker' = [worker EXCEPT ![w] = Off]
    /\ stray' = [s \in Scopes |-> IF s \in worker[w].slots THEN stray[s] + 1 ELSE stray[s]]
    /\ Elsewhere /\ UNCHANGED <<lanes, dead, results, owed, overwritten>>

SlotExpires(s) ==
    /\ stray[s] > 0 /\ stray' = [stray EXCEPT ![s] = @ - 1]
    /\ NoFault /\ Elsewhere /\ UNCHANGED <<lanes, dead, results, worker, owed, overwritten>>

Work(w) ==
    \/ Pop(w) \/ Reserve(w) \/ NoRegistry(w) \/ Denied(w) \/ Requeue(w) \/ RequeueFails(w)
    \/ Finish(w) \/ File(w) \/ FileFails(w) \/ Release(w)

-----------------------------------------------------------------------------
(* Reordering the lane, and the dead letters.                              *)

Others == UNCHANGED <<batch, results, worker, stray, fill>>
Count(s, p) == Cardinality({i \in DOMAIN s : ProviderOf[s[i]] = p})
\* Where the first cell of the provider is.
FirstCell(s, p) == SelectInSeq(s, LAMBDA c : ProviderOf[c] = p)
Feasible(s) == \A p \in Providers : 2 * Count(s, p) <= Len(s) + 1

\* Mutant: of the providers that may follow, the one that appeared first.
FirstToAppear(s, rest, candidates) ==
    CHOOSE p \in candidates : \A q \in candidates : FirstCell(s, p) <= FirstCell(s, q)

\* Of the providers that may follow, the one with most left; of those, the
\* one that appeared first.
Pick(s, rest, candidates) ==
    FirstToAppear(s, rest, {p \in candidates : \A q \in candidates : Count(rest, q) <= Count(rest, p)})

\* One turn: the first cell left of the provider picked is put out.
Turn(s, acc) ==
    LET left       == {ProviderOf[c] : c \in Range(acc.rest)}
        last       == IF acc.out = <<>> THEN {} ELSE {ProviderOf[Last(acc.out)]}
        candidates == IF left \ last # {} THEN left \ last ELSE left
        pick       == Pick(s, acc.rest, candidates)
        k          == FirstCell(acc.rest, pick)
    IN  [out |-> Append(acc.out, acc.rest[k]), rest |-> RemoveAt(acc.rest, k)]

ReinterleaveCells(s) ==
    LET turns[n \in 0..Len(s)] ==
            IF n = 0 THEN [out |-> <<>>, rest |-> s] ELSE Turn(s, turns[n - 1])
    IN  turns[Len(s)].out

\* read_queue; an order that cannot be spread is refused.
ReorderRead ==
    /\ reorder = <<>> /\ Command
    /\ Feasible(main)
    /\ reorder' = <<main>>
    /\ Others /\ UNCHANGED <<main, dead, inHand, owed, overwritten>>

\* write_queue: one transaction, which empties the lane also when it was read empty.
ReorderWrite ==
    /\ reorder # <<>>
    /\ main' = ReinterleaveCells(reorder[1]) /\ reorder' = <<>>
    /\ Overwrite(Range(main) \ Range(reorder[1]))
    /\ Others /\ NoFault /\ UNCHANGED <<dead, inHand>>

\* requeue_one: the oldest dead letter becomes the next cell of the main lane.
ReturnPop ==
    /\ inHand = <<>> /\ dead # <<>> /\ Command
    /\ inHand' = <<Head(dead)>> /\ dead' = Tail(dead)
    /\ Others /\ UNCHANGED <<main, reorder, owed, overwritten>>

ReturnPush ==
    /\ inHand # <<>>
    /\ main' = inHand \o main /\ Owe(Head(inHand)) /\ inHand' = <<>>
    /\ Others /\ NoFault /\ UNCHANGED <<dead, reorder>>

ReturnDies ==
    /\ inHand # <<>> /\ Fault
    /\ inHand' = <<>>
    /\ Others /\ UNCHANGED <<main, dead, reorder, owed, overwritten>>

\* triage --apply: a report of what there is, and then the list is deleted.
Triage ==
    /\ dead # <<>> /\ Command
    /\ dead' = <<>> /\ Forfeit(Range(dead))
    /\ Others /\ UNCHANGED <<main, reorder, inHand>>

Next ==
    \/ Fill \/ ReorderRead \/ ReorderWrite \/ ReturnPop \/ ReturnPush \/ ReturnDies \/ Triage
    \/ \E w \in Workers : Start(w) \/ PopLost(w) \/ Exit(w) \/ Work(w) \/ Crash(w)
    \/ \E s \in Scopes : SlotExpires(s)

\* A worker at work goes on, and run_story.py has a timeout.
Spec == Init /\ [][Next]_vars /\ \A w \in Workers : WF_vars(Work(w))

-----------------------------------------------------------------------------
(* Properties.                                                             *)

\* Where a cell may be: in a lane, among the dead letters or in an operator's
\* hands, in those of the fill that weaves it in, or in those of a worker.
Kept  == Range(main) \cup Range(batch) \cup Range(dead) \cup Range(inHand)
Woven == IF fill.at = "weave" THEN Range(fill.todo) ELSE {}
Held  == {worker[w].cell : w \in {v \in Workers : worker[v].at \in Holding}}

\* A cell is queued until it is done or the operator clears it.  A popped cell
\* is in one process's memory, so a failure may lose it: a worker or a return of
\* a dead letter that dies, the lost reply of a pop, the second of two failed
\* attempts to file.  But each failure costs at most one cell, and where nothing
\* fails none is lost: denials, failed and timed out runs, an unreachable lease
\* registry and failed requeues leave the cell in a lane or among the dead
\* letters.  The exception is a rewrite of the lane, which has no lock against
\* pushes: what it drops unread, or holds when it dies, is overwritten.
OneCellPerFailure ==
    Cardinality(owed \ (Kept \cup Woven \cup Held \cup overwritten)) <= faults

\* Cells being executed, with those of dead workers, fit the caps: slots are
\* taken one by one and given back on every path, and a release that fails
\* counts until it expires.
WidthWithinCaps ==
    \A s \in Scopes :
        Cardinality({w \in Workers : worker[w].at = "admitted" /\ s \in {"fleet", ProviderOf[worker[w].cell]}})
            + stray[s] <= CapOf(s)

\* What reinterleave_cells promises for every lane it may find: it is refused
\* exactly if no order keeps the cells of one provider apart, and otherwise
\* the same cells come out in such an order.
Apart(s) == \A i \in 1..Len(s) - 1 : ProviderOf[s[i]] # ProviderOf[s[i + 1]]
ReinterleaveSpreads ==
    commands = 0 /\ faults = 0 /\ results = {} /\ dead = <<>> /\ worker = [w \in Workers |-> Off] =>
        \A s \in BoundedSeq(Cells, MaxLane) :
            IF Feasible(s)
            THEN ToBag(ReinterleaveCells(s)) = ToBag(s) /\ Apart(ReinterleaveCells(s))
            ELSE \A f \in Bijection(DOMAIN s, DOMAIN s) : ~Apart([i \in DOMAIN s |-> s[f[i]]])

\* As long as there are workers, a denied cell does not keep the cells behind
\* it waiting ("so the other jobs get a turn before this one is retried").
WorkersGoOn == []<>(\E w \in Workers : worker[w].at = "idle")
EveryCellIsTaken ==
    WorkersGoOn => \A c \in Cells \ Batch :
        c \in Range(main) ~> c \notin Range(main) \/ \E w \in Workers : worker[w].cell = c
=============================================================================
