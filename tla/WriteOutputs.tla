---------------------------- MODULE WriteOutputs ----------------------------
(***************************************************************************)
(* `moult plan --out-dir` over one directory of outputs: the four files    *)
(* are written one after another (write_outputs in src/serializers.cpp),   *)
(* each may fail, tear or be cut off by a crash; a slice that leaves       *)
(* nothing out may be written over the plan.json, and moult apply          *)
(* (ApplyPlan.tla) may run at any time.                                    *)
(***************************************************************************)
EXTENDS ApplyPlan, PlanErrors

CONSTANTS
  Outputs,          \* the names of the outputs in the order they are written
  LossyOutputs,     \* those where a write error can surface only at close
  Made,             \* the plans an analysis may end with
  MaxCalls          \* bound: invocations of moult plan and moult apply together

\* Four different files, plan.json among them.
ASSUME OutputsAssumption ==
  /\ Outputs \in Seq(ToSet(Outputs)) /\ "plan.json" \in ToSet(Outputs)
  /\ \A m, n \in DOMAIN Outputs : Outputs[m] = Outputs[n] => m = n

VARIABLES
  made,             \* the plans of the invocations so far
  outputs,          \* outputs[o]: [part, by, form]
  step,             \* where moult plan or moult slice is
  at,               \* the output moult plan is to write next
  ok,               \* WriteOutputsResult::ok
  told              \* the exit code of moult plan, if it is what ran last

writing == <<made, outputs, step, at, ok, told>>

(* An output is "absent", "torn" or "whole", of run `by`; plan.json has    *)
(* the form that plan or that slice writes.                                *)
Output(part, by, form) == [part |-> part, by |-> by, form |-> form]

WriteInit ==
  /\ Init
  /\ made = <<>>
  /\ outputs = [o \in ToSet(Outputs) |-> Output("absent", 0, "plan")]
  /\ step = "idle" /\ at = 1 /\ ok = TRUE /\ told = NoExit

-----------------------------------------------------------------------------
(* moult plan *)

MayCall == Len(made) + runs < MaxCalls

\* The analysis has ended, and the directory can be used.
PlanWrites(m) ==
  /\ step = "idle" /\ MayCall
  /\ made' = Append(made, m)
  /\ step' = "next" /\ at' = 1 /\ ok' = TRUE /\ told' = NoExit
  /\ UNCHANGED <<vars, outputs>>

\* create_directories fails.
NoDirectory(m) ==
  /\ step = "idle" /\ MayCall
  /\ made' = Append(made, m)
  /\ told' = 1
  /\ UNCHANGED <<vars, outputs, step, at, ok>>

Put(part) == outputs' = [outputs EXCEPT ![Outputs[at]] = Output(part, Len(made), "plan")]

\* write_file: the std::ofstream truncates.
OutputOpens ==
  /\ step = "next" /\ at <= Len(Outputs)
  /\ Put("torn")
  /\ step' = "open"
  /\ UNCHANGED <<vars, made, at, ok, told>>

\* On to the next output, whatever became of this one.
Onward(fine) ==
  /\ at' = at + 1
  /\ ok' = (ok /\ fine)
  /\ step' = "next"
  /\ UNCHANGED <<vars, made, told>>

OutputWritten == step = "open" /\ Put("whole") /\ Onward(TRUE)

OutputRefused == step = "next" /\ at <= Len(Outputs) /\ UNCHANGED outputs /\ Onward(FALSE)

OutputBreaks == step = "open" /\ UNCHANGED outputs /\ Onward(FALSE)

\* The stream is looked at before it is flushed and closed.
OutputLost == step = "open" /\ Outputs[at] \in LossyOutputs /\ UNCHANGED outputs /\ Onward(TRUE)

\* Mutation: only the plan's errors count.
ExitCodeOfPlan == IF HasErrors(Last(made)) THEN 1 ELSE 0

ExitCode == IF ok /\ ~HasErrors(Last(made)) THEN 0 ELSE 1

PlanEnds ==
  /\ step = "next" /\ at > Len(Outputs)
  /\ told' = ExitCode
  /\ step' = "idle" /\ at' = 1 /\ ok' = TRUE
  /\ UNCHANGED <<vars, made, outputs>>

\* moult plan or moult slice is killed.
Killed ==
  /\ step # "idle"
  /\ step' = "idle" /\ at' = 1 /\ ok' = TRUE
  /\ UNCHANGED <<vars, made, outputs, told>>

-----------------------------------------------------------------------------
(* moult slice --out plan.json, with filters that everything passes.  A    *)
(* bound: not of a slice.                                                  *)
SliceOpens ==
  /\ step = "idle"
  /\ outputs["plan.json"].part = "whole" /\ outputs["plan.json"].form = "plan"
  /\ outputs' = [outputs EXCEPT !["plan.json"].part = "torn", !["plan.json"].form = "slice"]
  /\ step' = "slicing" /\ told' = NoExit
  /\ UNCHANGED <<vars, made, at, ok>>

SliceWritten ==
  /\ step = "slicing"
  /\ outputs' = [outputs EXCEPT !["plan.json"].part = "whole"]
  /\ step' = "idle"
  /\ UNCHANGED <<vars, made, at, ok, told>>

PlanOrSlice ==
  \/ \E m \in Made : PlanWrites(m) \/ NoDirectory(m)
  \/ OutputOpens \/ OutputWritten \/ OutputRefused \/ OutputBreaks \/ OutputLost
  \/ PlanEnds \/ Killed
  \/ SliceOpens \/ SliceWritten

-----------------------------------------------------------------------------
(* moult apply, of whatever it takes plan.json for *)

InvokeWith(file, dry_run, backup) ==
  /\ MayCall
  /\ Invoke(file, dry_run, backup)
  /\ told' = NoExit
  /\ UNCHANGED <<made, outputs, step, at, ok>>

(* Once apply has read its plan it shares nothing with a moult plan that   *)
(* runs beside it: the order of their steps does not matter, and those of  *)
(* apply come first.                                                       *)
WriteNext ==
  \/ pc = "idle" /\ PlanOrSlice
  \/ \E file \in Plans, dry_run, backup \in BOOLEAN : InvokeWith(file, dry_run, backup)
  \/ Step /\ UNCHANGED writing

WriteSpec == WriteInit /\ [][WriteNext]_<<vars, writing>>

-----------------------------------------------------------------------------
(* "`Plan` is the central artifact.  It can be serialized to" four files   *)
(* (README): once moult plan has said with exit code 0 that it went well,  *)
(* every one of them is the whole one of that run, whatever earlier runs   *)
(* left in the directory, except where write errors stay hidden.           *)
ExitZeroMeansWritten ==
  told = 0 =>
    /\ ~HasErrors(Last(made))
    /\ \A o \in ToSet(Outputs) \ LossyOutputs :
         outputs[o].part = "whole" /\ outputs[o].by = Len(made)
=============================================================================
