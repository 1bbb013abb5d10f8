------------------------------ MODULE Adapters ------------------------------
(***************************************************************************)
(* The two adapters of moult plan: main gives the engine the textual one   *)
(* if it is asked for and the libclang one otherwise.  The textual pass    *)
(* over one source is TextScanner.tla, the libclang one over the store is  *)
(* ClangAdapter.tla.                                                       *)
(***************************************************************************)
EXTENDS TextScanner, ClangAdapter

VARIABLE adapter    \* cli.adapter

bothVars == <<vars, clangVars, adapter>>

AdapterInit ==
  \/ adapter = "textual" /\ Init
       /\ stored = <<>> /\ onDisk = <<>> /\ units = Sources /\ unit = <<>>
       /\ noted = {} /\ sites = {} /\ reports = {} /\ resaved = {}
  \/ adapter = "clang" /\ ClangInit /\ text = <<>> /\ pos = 0 /\ facts = {}

Textual == adapter = "textual" /\ Next /\ UNCHANGED <<clangVars, adapter>>

Clang == adapter = "clang" /\ Analyze /\ UNCHANGED <<vars, adapter>>

Saved == adapter = "clang" /\ (\E f \in AllFiles : \E t \in Versions[f] : FileSaved(f, t)) /\ UNCHANGED <<vars, adapter>>

AdapterNext == Textual \/ Clang \/ Saved

\* Both loops run on by themselves.
AdapterSpec == AdapterInit /\ [][AdapterNext]_bothVars /\ WF_bothVars(Textual) /\ WF_bothVars(Clang)

-----------------------------------------------------------------------------
\* Whichever adapter runs, the analysis ends.
AnalysisEnds == <>(IF adapter = "textual" THEN pos = Len(text) ELSE units = {} /\ unit = <<>>)
=============================================================================
