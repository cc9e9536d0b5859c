----------------------------- MODULE KeepAwake -----------------------------
(***************************************************************************)
(* The idle-sleep assertion of the Desktop process (keep_awake.rs): one    *)
(* operating-system object, a count of holders, and a delayed release that *)
(* a generation counter cancels.                                           *)
(*                                                                         *)
(* The specification has names of its own, so that a module can extend     *)
(* this one beside ChatTurn, whose turns are workers here.                 *)
(***************************************************************************)
EXTENDS FiniteSets, Naturals

CONSTANTS Worker,   \* recordings, offline passes and chat turns
          MaxHolds  \* bound: how often a hold is taken

ASSUME KeepAwakeAssumption == IsFiniteSet(Worker) /\ MaxHolds \in Nat

VARIABLES
  held,        \* the workers that own a Hold
  holders,     \* State.holders
  generation,  \* State.generation
  enabled,     \* State.enabled: read from the config at the first hold
  assertion,   \* State.assertion is Some
  graces,      \* the generations keep-awake-release threads sleep for
  stored,      \* ui.keep_awake in the user config
  saving,      \* the value set_keep_awake stored and has not applied yet
  exiting      \* release_on_exit ran

awakeVars == <<held, holders, generation, enabled, assertion, graces, stored, saving, exiting>>

Switch == {"on", "off"}

AwakeTypeOK ==
  /\ held \in SUBSET Worker
  /\ holders \in Nat
  /\ generation \in 0..MaxHolds
  /\ enabled \in Switch \cup {"unset"}
  /\ assertion \in BOOLEAN
  /\ graces \in SUBSET (0..MaxHolds)
  /\ stored \in Switch
  /\ saving \in Switch \cup {"none"}
  /\ exiting \in BOOLEAN

AwakeInit ==
  /\ held = {}
  /\ holders = 0
  /\ generation = 0
  /\ enabled = "unset"
  /\ assertion = FALSE
  /\ graces = {}
  /\ stored \in Switch
  /\ saving = "none"
  /\ exiting = FALSE

(* ensure_assertion: an assertion already held is kept, and the operating  *)
(* system may refuse a new one.                                            *)
Ensured(on) == IF on = "on" /\ ~assertion THEN BOOLEAN ELSE {assertion}

(* A config that cannot be read means on.                                  *)
Setting == IF enabled = "unset" THEN {stored, "on"} ELSE {enabled}

Hold(w) ==
  /\ w \notin held
  /\ generation < MaxHolds
  /\ held' = held \cup {w}
  /\ holders' = holders + 1
  /\ generation' = generation + 1
  /\ enabled' \in Setting
  /\ assertion' \in Ensured(enabled')
  /\ UNCHANGED <<graces, stored, saving, exiting>>

(* Two mutants of Release: the grace of the generation before, and a hold  *)
(* released twice by a count that wraps.                                   *)
ReleaseEarlierGeneration(w) ==
  /\ w \in held
  /\ held' = held \ {w}
  /\ holders' = holders - 1
  /\ graces' = IF holders' = 0 /\ assertion THEN graces \cup {generation - 1} ELSE graces
  /\ UNCHANGED <<generation, enabled, assertion, stored, saving, exiting>>

ReleaseTwice(w) ==
  /\ w \in held
  /\ held' = held \ {w}
  /\ holders' = holders - 2
  /\ graces' = IF holders' = 0 /\ assertion THEN graces \cup {generation} ELSE graces
  /\ UNCHANGED <<generation, enabled, assertion, stored, saving, exiting>>

(* Hold::drop. A release thread that cannot be spawned is a grace that is  *)
(* over at once.                                                           *)
Release(w) ==
  /\ w \in held
  /\ held' = held \ {w}
  /\ holders' = IF holders = 0 THEN 0 ELSE holders - 1
  /\ graces' = IF holders' = 0 /\ assertion THEN graces \cup {generation} ELSE graces
  /\ UNCHANGED <<generation, enabled, assertion, stored, saving, exiting>>

(* A mutant of ReleaseIfIdle: the grace of an earlier release counts.      *)
ReleaseWhenIdle(g) ==
  /\ g \in graces
  /\ graces' = graces \ {g}
  /\ assertion' = (assertion /\ holders # 0)
  /\ UNCHANGED <<held, holders, generation, enabled, stored, saving, exiting>>

ReleaseIfIdle(g) ==
  /\ g \in graces
  /\ graces' = graces \ {g}
  /\ assertion' = (assertion /\ ~(holders = 0 /\ generation = g))
  /\ UNCHANGED <<held, holders, generation, enabled, stored, saving, exiting>>

(* set_keep_awake stores the switch under the config lock (the Sleep       *)
(* section queues its saves, so one is in flight) ...                      *)
Store(s) ==
  /\ saving = "none"
  /\ stored' = s
  /\ saving' = s
  /\ UNCHANGED <<held, holders, generation, enabled, assertion, graces, exiting>>

(* set_enabled *)
SetEnabled(s) ==
  /\ enabled' = s
  /\ assertion' \in IF s = "off" THEN {FALSE}
                    ELSE IF holders > 0 THEN Ensured(s) ELSE {assertion}

(* ... and then applies it.                                                *)
Apply ==
  /\ saving # "none"
  /\ SetEnabled(saving)
  /\ saving' = "none"
  /\ UNCHANGED <<held, holders, generation, graces, stored, exiting>>

(* A mutant of Renew: with nothing running, too.                           *)
RenewAlways ==
  /\ enabled = "on"
  /\ assertion' = TRUE
  /\ UNCHANGED <<held, holders, generation, enabled, graces, stored, saving, exiting>>

(* renew, when the display of a Windows machine comes back on.             *)
Renew ==
  /\ holders > 0
  /\ enabled = "on"
  /\ assertion' \in {assertion, TRUE}
  /\ UNCHANGED <<held, holders, generation, enabled, graces, stored, saving, exiting>>

(* release_on_exit, once, from run_exit_cleanup; the workers' threads run  *)
(* on while the containers are torn down.                                  *)
Exit ==
  /\ ~exiting
  /\ exiting' = TRUE
  /\ SetEnabled("off")
  /\ UNCHANGED <<held, holders, generation, graces, stored, saving>>

AwakeNext ==
  \/ \E w \in Worker : Hold(w) \/ Release(w)
  \/ \E g \in graces : ReleaseIfIdle(g)
  \/ \E s \in Switch : Store(s)
  \/ Apply \/ Renew \/ Exit

AwakeSpec == AwakeInit /\ [][AwakeNext]_awakeVars

(* A release thread that sleeps its 30 seconds runs on.                    *)
AwakeFairSpec == AwakeSpec /\ \A g \in 0..MaxHolds : WF_awakeVars(ReleaseIfIdle(g))

-----------------------------------------------------------------------------
(* Properties.                                                             *)

(* The count is the holds that exist, and an assertion nobody holds has a  *)
(* release thread of its own generation on the way: no order of holds,     *)
(* releases, switches and renewals leaves the computer awake for good.     *)
NeverLeaked ==
  /\ holders = Cardinality(held)
  /\ assertion /\ held = {} => generation \in graces

(* Unless the switch turns it off, the assertion goes only when nothing    *)
(* runs and the grace of the last release is over: a release thread left   *)
(* from before never cuts short new work or its grace.                     *)
DroppedOnlyIdle ==
  [][assertion /\ ~assertion' =>
       \/ enabled' = "off"
       \/ held' = {} /\ generation' \notin graces']_awakeVars

(* With nothing running the computer may sleep again, or work started.     *)
SleepsAgain == [](held = {} => <>(~assertion \/ held # {}))
=============================================================================
