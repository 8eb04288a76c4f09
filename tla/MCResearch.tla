----------------------------- MODULE MCResearch -----------------------------
(***************************************************************************)
(* Reflections, what a run calls and MemoryReader, for TLC.  A behaviour   *)
(* takes one part, its focus: the run with a memory that gives any answer, *)
(* or a memory with whoever uses it, or one of the tools.  The state       *)
(* spaces are added, not multiplied.                                       *)
(*                                                                         *)
(* The fairness is that of the run; a behaviour with another focus is not  *)
(* fair to it, and EveryRunEnds says nothing of such a behaviour.          *)
(***************************************************************************)
EXTENDS Reflections, MemoryReader, MCTools

CONSTANTS
    Foci,   \* the parts that the behaviours of this run may be about
    Few     \* the facts and claims that the focus on the reader keeps to

VARIABLE focus

\* Addresses: some to keep, and each way not to be kept, below two encodings at most.
Component(layers, shows) == [layers |-> layers, shows |-> shows]
Address(origin, path, query) == [origin |-> origin, path |-> path, query |-> query]
Plain == Component(0, "nothing")
MCEvidenceUrls ==
    {Address("public", Plain, Plain), Address("public", Component(2, "nothing"), Plain),
     Address("public", Component(2, "secret"), Plain), Address("public", Plain, Component(1, "name")),
     Address("public", Plain, Component(1, "undecodable")), Address("denied", Plain, Plain)}

MCInit ==
    /\ focus \in Foci
    /\ RunInit /\ MemoryInit /\ ToolsInit(focus)
    /\ focus # "run" => ledger.valid

\* The reader meets few facts, none that ends early and none reopened or rejected: those
\* have a focus of their own.
FewRecords ==
    /\ KeptFacts' \subseteq Few
    /\ reopening' = reopening
    /\ \A f \in KeptFacts' : /\ facts'[f].payload.state # "rejected"
                             /\ facts'[f].payload.claim \in Few
                             /\ facts'[f].payload.expires = LastInstant
    /\ \A k \in Keys : versions'[k] # NoVersion => versions'[k].state # "rejected"

\* The facts are alike, so one of them may keep to one claim and the last expiry.
OneIsPlain ==
    \A f \in KeptFacts' \cap Few : /\ facts'[f].payload.claim \in Few
                                  /\ facts'[f].payload.expires = LastInstant

Memory ==
    \/ focus = "facts" /\ FactNext /\ OneIsPlain /\ UNCHANGED <<procedureVars, readerVars>>
    \/ focus = "procedures" /\ ProcedureNext /\ UNCHANGED <<factVars, readerVars>>
    \/ focus = "reader" /\ MemoryNext /\ reader'.at \in 0..1 /\ FewRecords

MCNext ==
    /\ UNCHANGED focus
    /\ \/ focus = "run" /\ RunNext /\ UNCHANGED <<memoryVars, toolVars>>
       \/ Memory /\ UNCHANGED <<runVars, toolVars>>
       \/ ToolsNext(focus) /\ UNCHANGED <<runVars, memoryVars>>

MCSpec == MCInit /\ [][MCNext]_<<runVars, memoryVars, toolVars, focus>> /\ RunFairness
=============================================================================
