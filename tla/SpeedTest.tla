----------------------------- MODULE SpeedTest -----------------------------
(***************************************************************************)
(* The speedtest commands that add records: run, watch and record-manual   *)
(* (src/src/speedtest.rs, run_speedtest_command in src/src/main.rs).  Each *)
(* is a process of its own; all of them append to the file of History.     *)
(***************************************************************************)
EXTENDS History

CONSTANTS Command,   \* bound: commands at once; each starts again when it has
                     \* ended by itself, but for a watch
          Minutes    \* bound: values of --interval-minutes

ASSUME SpeedTestAssumption ==
    /\ Command \subseteq Writer
    /\ Minutes \subseteq Nat

VARIABLES
    mode,     \* which command it is
    interval, \* --interval-minutes of a watch
    doing,    \* what it does; "ended" when it does not run, for a watch that had
              \* started "killed" or "panicked"
    agreed    \* history: its user has agreed, with --yes or by an answer

commandVars == <<mode, interval, doing, agreed>>

Mode == {"run", "watch", "manual"}

\* default_value_t.
DefaultMinutes == 60

SpeedTestTypeOK ==
    /\ mode \in [Command -> Mode]
    /\ interval \in [Command -> Nat]
    /\ doing \in [Command -> {"ended", "killed", "panicked", "asking", "starting",
                             "waiting", "measuring", "appending"}]
    /\ agreed \in [Command -> BOOLEAN]
    /\ \A c \in Command : (doing[c] = "appending") <=> (stage[c] # "idle")

SpeedTestInit ==
    /\ mode = [c \in Command |-> "run"]
    /\ interval = [c \in Command |-> DefaultMinutes]
    /\ doing = [c \in Command |-> "ended"]
    /\ agreed = [c \in Command |-> FALSE]

\* It is over: what it was does not matter any more.
Over(c, how) ==
    /\ mode' = [mode EXCEPT ![c] = "run"]
    /\ interval' = [interval EXCEPT ![c] = DefaultMinutes]
    /\ doing' = [doing EXCEPT ![c] = how]
    /\ agreed' = [agreed EXCEPT ![c] = FALSE]

Does(c, next) ==
    /\ doing' = [doing EXCEPT ![c] = next]
    /\ UNCHANGED <<mode, interval, agreed>>

\* run goes on to its only measurement, watch to make its ticker.
FirstStep(m) == IF m = "watch" THEN "starting" ELSE "measuring"

\* run and watch ask for consent, run not with --yes; confirm_mlab_consent.
Launch(c) ==
    /\ doing[c] = "ended"
    /\ \E m \in {"run", "watch"}, yes \in BOOLEAN :
          /\ m = "watch" => ~yes
          /\ mode' = [mode EXCEPT ![c] = m]
          /\ IF m = "watch"
             THEN \E n \in Minutes : interval' = [interval EXCEPT ![c] = n]
             ELSE UNCHANGED interval
          /\ agreed' = [agreed EXCEPT ![c] = yes]
          /\ doing' = [doing EXCEPT ![c] = IF yes THEN FirstStep(m) ELSE "asking"]
    /\ UNCHANGED fileVars

\* record_manual contacts nobody and appends at once.
Manual(c) ==
    /\ doing[c] = "ended"
    /\ Open(c)
    /\ mode' = [mode EXCEPT ![c] = "manual"]
    /\ doing' = [doing EXCEPT ![c] = "appending"]
    /\ UNCHANGED <<interval, agreed>>

Agree(c) ==
    /\ doing[c] = "asking"
    /\ agreed' = [agreed EXCEPT ![c] = TRUE]
    /\ doing' = [doing EXCEPT ![c] = FirstStep(mode[c])]
    /\ UNCHANGED <<mode, interval, fileVars>>

\* Mutant: the answer is only logged.
DeclineGoesOn(c) ==
    /\ doing[c] = "asking"
    /\ Does(c, FirstStep(mode[c]))
    /\ UNCHANGED fileVars

\* Any other answer, or a standard input that cannot be read, is an error.
Decline(c) ==
    /\ doing[c] = "asking"
    /\ Over(c, "ended")
    /\ UNCHANGED fileVars

\* watch makes its ticker: tokio::time::interval panics if the period is zero.
StartTicker(c) ==
    /\ doing[c] = "starting"
    /\ IF interval[c] = 0 THEN Over(c, "panicked") ELSE Does(c, "waiting")
    /\ UNCHANGED fileVars

\* The ticker of watch.
WatchTick(c) ==
    /\ doing[c] = "waiting"
    /\ Does(c, "measuring")
    /\ UNCHANGED fileVars

\* Mutant: the error leaves the loop.
AlwaysOver(c) == Over(c, "ended")

\* The command has its record or its error: only watch goes on.
AfterMeasurement(c) ==
    IF mode[c] = "watch" THEN Does(c, "waiting") ELSE Over(c, "ended")

\* run_mlab_measurement has its results and opens the file.
CommandMeasures(c) ==
    /\ doing[c] = "measuring"
    /\ Open(c)
    /\ Does(c, "appending")

\* It fails before that.
CommandFails(c) ==
    /\ doing[c] = "measuring"
    /\ AfterMeasurement(c)
    /\ UNCHANGED fileVars

\* The two writes of append_history.
CommandAppends(c) ==
    /\ doing[c] = "appending"
    /\ AppendStep(c)
    /\ IF stage'[c] = "idle" THEN AfterMeasurement(c) ELSE UNCHANGED commandVars

\* One of them fails.
CommandAppendErr(c) ==
    /\ doing[c] = "appending"
    /\ AppendCut(c)
    /\ AfterMeasurement(c)

\* The process is killed (Ctrl+C).
Kill(c) ==
    /\ doing[c] \notin {"ended", "killed", "panicked"}
    /\ IF doing[c] = "appending" THEN AppendCut(c) ELSE UNCHANGED fileVars
    /\ Over(c, IF mode[c] = "watch" THEN "killed" ELSE "ended")

CommandNext(c) ==
    \/ Launch(c)
    \/ Manual(c)
    \/ Agree(c)
    \/ Decline(c)
    \/ StartTicker(c)
    \/ WatchTick(c)
    \/ CommandMeasures(c)
    \/ CommandFails(c)
    \/ CommandAppends(c)
    \/ CommandAppendErr(c)
    \/ Kill(c)

-----------------------------------------------------------------------------
(***************************************************************************)
(* Properties.                                                             *)
(***************************************************************************)

\* A command contacts M-Lab, and gets to appending what it measured, only if its
\* own user has agreed, also in the measurements that watch makes unattended
\* (confirm_mlab_consent).
ConsentFirst ==
    \A c \in Command :
        doing[c] \in {"starting", "waiting", "measuring", "appending"} /\ mode[c] # "manual"
            => agreed[c]

\* A watch whose user has agreed does not end by itself, whatever fails in its
\* measurements and appends: none does once it has its ticker, and of those that
\* are about to make it only one with an interval of 0, which panics (watch).
WatchGoesOn ==
    [][\A c \in Command :
          mode[c] = "watch" /\ agreed[c] /\ doing'[c] \in {"ended", "panicked"}
              => doing[c] = "starting" /\ interval[c] = 0]_commandVars
=============================================================================
