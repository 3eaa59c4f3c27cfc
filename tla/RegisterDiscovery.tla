-------------------------- MODULE RegisterDiscovery --------------------------
(***************************************************************************)
(* How the integration finds out which registers the inverter does not     *)
(* have, and stops asking for them: coordinator.py, RefreshDataUseCase,    *)
(* TransactionManagerService, DisabledEntityService and the parts of       *)
(* __init__.py that start a session and hide entities.                     *)
(*                                                                         *)
(* The set of failed registers is kept four times: in the use case (one    *)
(* field for all refreshes), in the coordinator, in the transaction        *)
(* manager (which alone decides what is polled) and on disk.               *)
(*                                                                         *)
(* A refresh is cut at its awaits: ensure_connected, every transport.send, *)
(* store.async_save.  Two may run at once: the one Home Assistant          *)
(* schedules ("polling") and the one clear_failed_registers() starts       *)
(* without taking the scheduler's lock ("forced").                         *)
(***************************************************************************)
EXTENDS Integers, Sequences

CONSTANTS
  Registers,    \* addresses of the readable registers of the configuration
  HasEntity,    \* the registers an entity shows
  Unsupported,  \* the word addresses the device rejects
  Batches,      \* Batches[S]: what BatchBuilder makes of the registers S
  Mapped,       \* Mapped[S]: the registers of S that get a place in those batches; one
                \* that lies inside another of several words gets none
  MaxDepth,     \* MAX_SPLIT_DEPTH
  MaxTrouble    \* bound: refusals, drops, timeouts, failed saves and loads, clears,
                \* toggles, stops, commands of entities and answers taken for another's

ASSUME RegisterAssumption ==
  /\ Registers \subseteq Nat
  /\ HasEntity \subseteq Registers
  /\ Unsupported \subseteq Nat
  /\ Batches \in [SUBSET Registers -> Seq([start: Registers, count: Nat \ {0}])]
  /\ Mapped \in [SUBSET Registers -> SUBSET Registers]
  /\ \A S \in SUBSET Registers : Mapped[S] \subseteq S /\ Batches[Mapped[S]] = Batches[S]
  /\ MaxDepth \in Nat \ {0}
  /\ MaxTrouble \in Nat

VARIABLES
  phase,     \* of the config entry: down, first (refresh), platforms, up
  coord,     \* coordinator._failed_registers
  tm,        \* transaction_manager._failed_registers
  stored,    \* the failed registers on disk ({}: no file)
  disabled,  \* registers whose entity is disabled in the entity registry
  notice,    \* a registry event is on its way to the disabled entity service
  polled,    \* the registers in coordinator._register_batches
  found,     \* use_case._failed_registers
  link,      \* transport.is_connected
  locking,   \* transport.send() takes a lock: TCP and serial do, BLE does not
  late,      \* answers still on their way to commands that are no longer waited for
  run,       \* what each refresh is doing
  budget,    \* troubles left
  crossed    \* history: an answer could have been taken for that to another command

state == <<phase, coord, tm, stored, disabled, notice, polled, found, link, locking, late,
           run, budget>>

vars == <<state, crossed>>

entry == <<phase, coord, tm, stored, disabled, notice, polled>>

Refreshes == {"polling", "forced"}

\* A task is a read that is still to be made, at a depth of splitting: a batch
\* of execute(), a half of a batch, or the last try of a single register.
\* One that is for a single word is for a register.
Tasks == {t \in [kind: {"batch", "half", "single"}, start: Nat, count: Nat \ {0},
                 depth: 0..MaxDepth] : t.count = 1 => t.start \in Registers}

Answers == {"values", "rejection"}

Runs == [pc: {"idle", "connecting", "reading", "saving", "learning", "removing"},
         asked: SUBSET Registers,   \* the registers in the batches it was given
         todo: Seq(Tasks),
         data: SUBSET Registers,    \* the registers it has values for
         clean: BOOLEAN,            \* history: no timeout and no lost link so far
         saving: SUBSET Registers]  \* what it is writing to disk

Idle == [pc |-> "idle", asked |-> {}, todo |-> <<>>, data |-> {}, clean |-> TRUE,
         saving |-> {}]

TypeOK ==
  /\ phase \in {"down", "first", "platforms", "up"}
  /\ coord \subseteq Registers /\ tm \subseteq Registers /\ stored \subseteq Registers
  /\ disabled \subseteq Registers /\ polled \subseteq Registers /\ found \subseteq Registers
  /\ notice \in BOOLEAN
  /\ link \in BOOLEAN
  /\ locking \in BOOLEAN
  /\ late \subseteq Answers
  /\ run \in [Refreshes -> Runs]
  /\ budget \in 0..MaxTrouble
  /\ crossed \in BOOLEAN

Init ==
  /\ phase = "down"
  /\ coord = {} /\ tm = {} /\ stored = {} /\ disabled = {} /\ polled = {} /\ found = {}
  /\ notice = FALSE /\ link = FALSE /\ late = {}
  /\ locking \in BOOLEAN
  /\ run = [i \in Refreshes |-> Idle]
  /\ budget = MaxTrouble
  /\ crossed = FALSE

Trouble == budget > 0 /\ budget' = budget - 1

-----------------------------------------------------------------------------
(* Operators *)

\* _rebuild_batches(): what is polled once `failed' and `off' are excluded.
Polled(failed, off) == Registers \ (failed \cup off)

\* The batches execute() loops over.
BatchTasks(S) ==
  [n \in DOMAIN Batches[S] |->
     [kind |-> "batch", start |-> Batches[S][n].start, count |-> Batches[S][n].count,
      depth |-> 0]]

MutantHalf(S, a, n, d) == <<[kind |-> "half", start |-> a, count |-> n, depth |-> d]>>

\* A half in which no register of the batch (they are in S) lies is not read.
Half(S, a, n, d) ==
  IF S \cap a..(a + n - 1) = {} THEN <<>>
  ELSE <<[kind |-> "half", start |-> a, count |-> n, depth |-> d]>>

MutantSplitShallow(S, t) ==
  IF t.kind = "single" \/ t.depth + 1 >= MaxDepth THEN <<>>
  ELSE IF t.count = 1 THEN <<[t EXCEPT !.kind = "single"]>>
  ELSE Half(S, t.start, t.count \div 2, t.depth + 1)
       \o Half(S, t.start + t.count \div 2, t.count - t.count \div 2, t.depth + 1)

\* _split_and_retry_batch() for a read that failed: the reads it makes instead.
Split(S, t) ==
  IF t.kind = "single" \/ t.depth >= MaxDepth THEN <<>>
  ELSE IF t.count = 1 THEN <<[t EXCEPT !.kind = "single"]>>
  ELSE Half(S, t.start, t.count \div 2, t.depth + 1)
       \o Half(S, t.start + t.count \div 2, t.count - t.count \div 2, t.depth + 1)

IsBatch(t) == t.kind = "batch"

WordsOf(t) == t.start..(t.start + t.count - 1)

MutantBlameAll(t) == found \cup (WordsOf(t) \cap Registers)

\* A rejected read marks its register only when it asked for one word.
Blame(t) == IF t.count = 1 THEN found \cup {t.start} ELSE found

Current == Polled(tm, disabled)

\* A refresh that starts keeps the list of batches of this moment, and which
\* registers are in them.
Started(S) == [Idle EXCEPT !.pc = "connecting", !.asked = Mapped[S]]

\* UpdateFailed: the first refresh of a session takes the set-up down with it.
GiveUp(i) ==
  /\ run' = [run EXCEPT ![i] = Idle]
  /\ phase' = IF phase = "first" THEN "down" ELSE phase
  /\ UNCHANGED <<coord, tm, stored, disabled, notice, polled, found, locking, late>>

\* The refresh returned data; the first one lets the platforms be set up.
Succeed(i) ==
  /\ run' = [run EXCEPT ![i] = Idle]
  /\ phase' = IF phase = "first" THEN "platforms" ELSE phase

\* _save_storage() up to its await: what it writes is the set of this moment.
Write(i, why, failed) ==
  /\ run' = [run EXCEPT ![i].pc = why, ![i].saving = failed]
  /\ UNCHANGED phase

Writing(i) == run[i].pc \in {"saving", "learning"}

\* The tenth refresh of a session, the twentieth... also saves the timeouts it
\* learned, and with them the failed registers; the first one never does.
Conclude(i) ==
  \/ Succeed(i)
  \/ phase # "first" /\ Write(i, "learning", coord)

Asking(i) == Head(run[i].todo)

Reading(i) == run[i].pc = "reading" /\ run[i].todo # <<>>

Sending(i) ==
  /\ Reading(i)
  /\ link
  /\ ~(Asking(i).count = 1 /\ Asking(i).start \in found)

\* What the device answers to the read refresh i is waiting for.
OwnAnswer(i) == IF WordsOf(Asking(i)) \cap Unsupported = {} THEN "values" ELSE "rejection"

\* Answers that read may be given though they are to another command: late ones,
\* and without a lock that to the other refresh's read.
ForeignAnswers(i) ==
  late \cup {OwnAnswer(j) : j \in {k \in Refreshes \ {i} : ~locking /\ Sending(k)}}

Crossing == late # {} \/ (~locking /\ \A i \in Refreshes : Sending(i))

-----------------------------------------------------------------------------
(* The life of a config entry *)

\* async_setup_entry up to the first refresh: a new container, _load_storage().
Setup ==
  /\ phase = "down"
  /\ \/ coord' = stored /\ UNCHANGED budget
     \/ coord' = {} /\ Trouble
  /\ tm' = coord'
  /\ polled' = Polled(tm', disabled)
  /\ run' = [run EXCEPT !["polling"] = Started(polled')]
  /\ phase' = "first"
  /\ found' = {} /\ notice' = FALSE /\ link' = FALSE /\ late' = {}
  /\ UNCHANGED <<stored, disabled, locking>>

\* _hide_failed_entities(): at the end of the set-up, and as a service.
Hide ==
  /\ phase \in {"platforms", "up"}
  /\ disabled' = disabled \cup (coord \cap HasEntity)
  /\ notice' = (notice \/ disabled' # disabled)
  /\ phase' = "up"
  /\ UNCHANGED <<coord, tm, stored, polled, found, link, locking, late, run, budget>>

\* The user enables or disables an entity.
Toggle ==
  /\ Trouble
  /\ \E x \in HasEntity :
       disabled' = IF x \in disabled THEN disabled \ {x} ELSE disabled \cup {x}
  /\ notice' = (phase # "down")
  /\ UNCHANGED <<phase, coord, tm, stored, polled, found, link, locking, late, run>>

MutantNoticeKeepsBatches ==
  /\ notice
  /\ notice' = FALSE
  /\ UNCHANGED <<phase, coord, tm, stored, disabled, polled, found, link, locking, late, run, budget>>

\* _handle_registry_event() and _handle_disabled_entity_change().
HandleNotice ==
  /\ notice
  /\ notice' = FALSE
  /\ polled' = Current
  /\ UNCHANGED <<phase, coord, tm, stored, disabled, found, link, locking, late, run, budget>>

\* Home Assistant stops or crashes, or the entry is unloaded: a write to disk
\* that was under way is there or is not.
Stop ==
  /\ phase # "down"
  /\ Trouble
  /\ stored' \in {stored} \cup {run[i].saving : i \in {j \in Refreshes : Writing(j)}}
                 \cup (IF run["forced"].pc = "removing" THEN {{}} ELSE {})
  /\ phase' = "down"
  /\ run' = [i \in Refreshes |-> Idle]
  /\ notice' = FALSE /\ link' = FALSE /\ late' = {}
  /\ UNCHANGED <<coord, tm, disabled, polled, found, locking>>

-----------------------------------------------------------------------------
(* A refresh *)

Begin ==
  /\ phase \in {"platforms", "up"}
  /\ run["polling"].pc = "idle"
  /\ run' = [run EXCEPT !["polling"] = Started(polled)]
  /\ UNCHANGED <<entry, found, link, locking, late, budget>>

\* ensure_connected() returned True: execute() forgets what was found before.
Connected(i) ==
  /\ run[i].pc = "connecting"
  /\ run' = [run EXCEPT ![i].pc = "reading", ![i].todo = BatchTasks(run[i].asked)]
  /\ found' = {}
  /\ link' = TRUE
  /\ late' = IF link THEN late ELSE {}
  /\ UNCHANGED <<entry, locking, budget>>

Refused(i) ==
  /\ run[i].pc = "connecting"
  /\ Trouble
  /\ GiveUp(i)
  /\ UNCHANGED link

\* Before every batch the link is looked at, and its loss ends the refresh.
LostBeforeBatch(i) ==
  /\ Reading(i) /\ ~link
  /\ IsBatch(Asking(i))
  /\ GiveUp(i)
  /\ UNCHANGED <<link, budget>>

\* Inside a split a lost link only ends the split: the batch counts as read.
LostInSplit(i) ==
  /\ Reading(i) /\ ~link
  /\ ~IsBatch(Asking(i))
  /\ \E k \in 2..(Len(run[i].todo) + 1) :
       /\ \A j \in 1..(k - 1) : ~IsBatch(run[i].todo[j])
       /\ k <= Len(run[i].todo) => IsBatch(run[i].todo[k])
       /\ run' = [run EXCEPT ![i].todo = SubSeq(@, k, Len(@)), ![i].clean = FALSE]
  /\ UNCHANGED <<entry, found, link, locking, late, budget>>

\* A single register already known to fail is not asked for.
SkipKnown(i) ==
  /\ Reading(i) /\ link
  /\ Asking(i).count = 1 /\ Asking(i).start \in found
  /\ run' = [run EXCEPT ![i].todo = Split(run[i].asked, Head(@)) \o Tail(@)]
  /\ UNCHANGED <<entry, found, link, locking, late, budget>>

TakeValues(i) ==
  run' = [run EXCEPT ![i].data = @ \cup (run[i].asked \cap WordsOf(Asking(i))),
                     ![i].todo = Tail(@)]

\* ILLEGAL_DATA_ADDRESS or a frame of dashes.
TakeRejection(i) ==
  /\ found' = Blame(Asking(i))
  /\ run' = [run EXCEPT ![i].todo = Split(run[i].asked, Head(@)) \o Tail(@)]

Answered(i) ==
  /\ Sending(i)
  /\ OwnAnswer(i) = "values"
  /\ TakeValues(i)
  /\ UNCHANGED <<entry, found, link, locking, late, budget>>

Rejected(i) ==
  /\ Sending(i)
  /\ OwnAnswer(i) = "rejection"
  /\ TakeRejection(i)
  /\ UNCHANGED <<entry, link, locking, late, budget>>

\* The read is given the answer to another command, which nothing tells from its
\* own: a rejection counts as above, values for the whole read (an answer of fewer
\* words gives values for the first ones only; which is not kept track of).  How many
\* answers are late is not counted: another of the same kind, and its own, may still
\* come.  (The model lets the other refresh's read have the answer too.)
Misled(i) ==
  /\ Sending(i)
  /\ Trouble
  /\ \E answer \in ForeignAnswers(i) :
       /\ late' \in {late \ {answer}, late \cup {OwnAnswer(i)}}
       /\ \/ answer = "values" /\ TakeValues(i) /\ UNCHANGED found
          \/ answer = "rejection" /\ TakeRejection(i)
  /\ UNCHANGED <<entry, link, locking>>

\* No answer in time, or one that cannot be decoded: treated like a bad batch.
\* The answer is lost, or late.
TimesOut(i) ==
  /\ Sending(i)
  /\ Trouble
  /\ late' \in {late, late \cup {OwnAnswer(i)}}
  /\ run' = [run EXCEPT ![i].todo = Split(run[i].asked, Head(@)) \o Tail(@), ![i].clean = FALSE]
  /\ UNCHANGED <<entry, found, link, locking>>

\* An entity's own read or write times out, or is under way without a lock: its
\* answer may come to a refresh.
OtherCommand ==
  /\ link
  /\ Trouble
  /\ \E answer \in Answers : late' = late \cup {answer}
  /\ UNCHANGED <<entry, found, link, locking, run>>

\* send() raised RuntimeError or ConnectionError.
SendFails(i) ==
  /\ Sending(i)
  /\ Trouble
  /\ link' = FALSE
  /\ GiveUp(i)

LinkDrops ==
  /\ link
  /\ Trouble
  /\ link' = FALSE
  /\ UNCHANGED <<entry, found, locking, late, run>>

MutantForgets(i) ==
  /\ run[i].pc = "reading" /\ run[i].todo = <<>>
  /\ Succeed(i)
  /\ UNCHANGED <<coord, tm, stored, disabled, notice, polled, found, link, locking, late, budget>>

\* All batches are through.  What is new goes to the coordinator and to disk.
Finish(i) ==
  /\ run[i].pc = "reading" /\ run[i].todo = <<>>
  /\ coord' = coord \cup found
  /\ IF found \subseteq coord THEN Conclude(i) ELSE Write(i, "saving", coord')
  /\ UNCHANGED <<tm, stored, disabled, notice, polled, found, link, locking, late, budget>>

\* _save_storage() after its await.
Saved(i) ==
  /\ Writing(i)
  /\ stored' = run[i].saving
  /\ polled' = Current
  /\ IF run[i].pc = "saving" THEN Conclude(i) ELSE Succeed(i)
  /\ UNCHANGED <<coord, tm, disabled, notice, found, link, locking, late, budget>>

SaveFails(i) ==
  /\ Writing(i)
  /\ Trouble
  /\ IF run[i].pc = "saving" THEN Conclude(i) ELSE Succeed(i)
  /\ UNCHANGED <<coord, tm, stored, disabled, notice, polled, found, link, locking, late>>

\* clear_failed_registers(), up to and after `await store.async_remove()'.
Clear ==
  /\ phase = "up"
  /\ run["forced"].pc = "idle"
  /\ Trouble
  /\ run' = [run EXCEPT !["forced"].pc = "removing"]
  /\ UNCHANGED <<entry, found, link, locking, late>>

Cleared ==
  /\ run["forced"].pc = "removing"
  /\ stored' = {}
  /\ coord' = {}
  /\ polled' = Current
  /\ run' = [run EXCEPT !["forced"] = Started(polled')]
  /\ UNCHANGED <<phase, tm, disabled, notice, found, link, locking, late, budget>>

\* What refresh i does when nothing goes wrong.
Proceed(i) ==
  \/ Connected(i) \/ LostBeforeBatch(i) \/ LostInSplit(i) \/ SkipKnown(i)
  \/ Answered(i) \/ Rejected(i) \/ Finish(i) \/ Saved(i)

Steps ==
  \/ Setup \/ Hide \/ Toggle \/ HandleNotice \/ Stop
  \/ Begin \/ LinkDrops \/ OtherCommand \/ Clear \/ Cleared
  \/ \E i \in Refreshes :
       Proceed(i) \/ Refused(i) \/ Misled(i) \/ TimesOut(i) \/ SendFails(i) \/ SaveFails(i)

Next == Steps /\ crossed' = (crossed \/ Crossing')

Spec == Init /\ [][Next]_vars

(* Home Assistant retries a set-up that failed and polls again and again;    *)
(* every await ends, and the event loop runs what is ready.                  *)
Fairness ==
  /\ WF_state(Setup \/ (phase = "platforms" /\ Hide))
  /\ WF_state(HandleNotice)
  /\ WF_state(Begin)
  /\ \A i \in Refreshes : WF_state(Proceed(i) \/ (i = "forced" /\ Cleared))

FairSpec == Spec /\ Fairness

-----------------------------------------------------------------------------
(* Properties *)

\* Only registers the device does not have are held to have failed, in any of
\* the four places: what hides a register for good is never a working one.
FailedAreUnsupported ==
  coord \cup tm \cup stored \cup found \subseteq Unsupported

\* That is kept through timeouts whose answers are lost, through lost links,
\* splits, failed saves, crashes, and refreshes that run at the same time, as long
\* as no answer can have been taken for that to another command: none came late,
\* and without a lock in send() no two commands were ever under way at once.
OnlyUnsupportedFail == ~crossed => FailedAreUnsupported

\* Once the registry events have been handled, the batches are those of the
\* transaction manager's set and the disabled entities: no save, clear or
\* change of an entity leaves an older list behind.
BatchesCurrent == phase # "down" /\ ~notice => polled = Current

\* On the same condition, a refresh that saw no timeout and no lost link hands over
\* every supported register in its batches, and nothing else, wherever the
\* unsupported ones are.
CleanRefreshComplete ==
  ~crossed => \A i \in Refreshes :
    run[i].pc = "reading" /\ run[i].todo = <<>> /\ run[i].clean
      => run[i].data = run[i].asked \ Unsupported

\* In the end every unsupported register that is still read is known, unless
\* answers could be taken for one another.
EventuallyKnown ==
  <>[](phase = "up" /\ Mapped[polled] \cap Unsupported \subseteq coord) \/ <>crossed

\* A register that was found and saved is no longer in the batches.
SavedMeansExcluded ==
  [][\A i \in Refreshes : Saved(i) => polled' \cap coord' = {}]_vars

\* After clear_failed_registers() every register of an enabled entity is read again.
ClearAsksAll ==
  [][Cleared => polled' = Registers \ disabled]_vars
=============================================================================
