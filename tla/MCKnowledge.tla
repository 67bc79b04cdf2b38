---------------------------- MODULE MCKnowledge -----------------------------
(***************************************************************************)
(* Instances for TLC of the components that make, review and annotate what *)
(* is known. The components share no state here: `part' says which of them *)
(* moves in a behaviour, so that one run explores each of them and not     *)
(* their product.                                                          *)
(***************************************************************************)
EXTENDS Knowledge, Golden, Commentary, WikiReview, TextDiffs, Autolearn,
        Annotations, Sources, Topics, TLC

CONSTANTS a1, a2, b1, b2, e1, e2,   \* interchangeable actors, documents, requests
          other3,                   \* one more of them
          long, other, empty,       \* Knowledge's payloads
          m1,                       \* Sources' document
          u1, u2                    \* Topics' people

\* A payload of two chunks, one of a single chunk and one without text.
MCPieces == (long :> 2) @@ (other :> 1) @@ (empty :> 0)
\* Two documents of one kind.
MCKindOf == [d \in Docs |-> "m"]
\* One document with a catalog of two venues.
MCCatalogOf == m1 :> {e1, e2}

VARIABLE part  \* the component that moves in this behaviour

knowledgeVars == <<part,
    vars, goldenVars, commentaryVars, reviewVars, gateVars, diffVars,
    udVars, autoVars, noteVars, sourceVars, topicsVars>>

KnowledgeInit ==
  /\ part \in {"ingestion", "golden", "commentary", "review", "gate", "diff",
            "unified", "autolearn", "notes", "sources", "topics"}
  /\ Init
  /\ GoldenInit
  /\ CommentaryInit
  /\ ReviewInit
  /\ GateInit
  /\ DiffInit
  /\ UdInit
  /\ AutoInit
  /\ AnnotationsInit
  /\ SourcesInit
  /\ TopicsInit

KnowledgeNext ==
  \/ /\ part = "ingestion" /\ Next
     /\ UNCHANGED <<part, goldenVars, commentaryVars, reviewVars, gateVars, diffVars,
                    udVars, autoVars, noteVars, sourceVars, topicsVars>>
  \/ /\ part = "golden" /\ GoldenNext
     /\ UNCHANGED <<part, vars, commentaryVars, reviewVars, gateVars, diffVars, udVars,
                    autoVars, noteVars, sourceVars, topicsVars>>
  \/ /\ part = "commentary" /\ CommentaryNext
     /\ UNCHANGED <<part, vars, goldenVars, reviewVars, gateVars, diffVars, udVars,
                    autoVars, noteVars, sourceVars, topicsVars>>
  \/ /\ part = "review" /\ ReviewNext
     /\ UNCHANGED <<part, vars, goldenVars, commentaryVars, gateVars, diffVars, udVars,
                    autoVars, noteVars, sourceVars, topicsVars>>
  \/ /\ part = "gate" /\ GateNext
     /\ UNCHANGED <<part, vars, goldenVars, commentaryVars, reviewVars, diffVars, udVars,
                    autoVars, noteVars, sourceVars, topicsVars>>
  \/ /\ part = "diff" /\ DiffNext
     /\ UNCHANGED <<part, vars, goldenVars, commentaryVars, reviewVars, gateVars, udVars,
                    autoVars, noteVars, sourceVars, topicsVars>>
  \/ /\ part = "unified" /\ UdNext
     /\ UNCHANGED <<part, vars, goldenVars, commentaryVars, reviewVars, gateVars, diffVars,
                    autoVars, noteVars, sourceVars, topicsVars>>
  \/ /\ part = "autolearn" /\ AutoNext
     /\ UNCHANGED <<part, vars, goldenVars, commentaryVars, reviewVars, gateVars, diffVars,
                    udVars, noteVars, sourceVars, topicsVars>>
  \/ /\ part = "notes" /\ AnnotationsNext
     /\ UNCHANGED <<part, vars, goldenVars, commentaryVars, reviewVars, gateVars, diffVars,
                    udVars, autoVars, sourceVars, topicsVars>>
  \/ /\ part = "sources" /\ SourcesNext
     /\ UNCHANGED <<part, vars, goldenVars, commentaryVars, reviewVars, gateVars, diffVars,
                    udVars, autoVars, noteVars, topicsVars>>
  \/ /\ part = "topics" /\ TopicsNext
     /\ UNCHANGED <<part, vars, goldenVars, commentaryVars, reviewVars, gateVars, diffVars,
                    udVars, autoVars, noteVars, sourceVars>>

KnowledgeSpec == KnowledgeInit /\ [][KnowledgeNext]_knowledgeVars

\* Interchangeable model values; no property of the runs is a liveness property.
Symmetry ==
  Permutations({a1, a2}) \cup Permutations({b1, b2}) \cup Permutations({e1, e2})

\* Every variable of the components keeps to its type.
KnowledgeTypeOK ==
  /\ TypeOK /\ GoldenTypeOK /\ CommentaryTypeOK /\ ReviewTypeOK /\ GateTypeOK
  /\ AutoTypeOK /\ AnnotationsTypeOK /\ SourcesTypeOK /\ TopicsTypeOK

\* An ingested finding is whole, and the chain of facts it led to is in order.
IngestionSound == IngestedComplete /\ ChainSound

\* Both diffs of the wiki, the one the review modal shows and the one the agent's tool
\* prints: what is left out of one is announced, and either turns the old text into the new.
DiffsSound == DiffSound /\ UnifiedSound

\* The two gates a draft passes before readers see it: one reviewer's approval publishes
\* one draft, and no draft is let through on a coverage it does not have.
PublicationSound == ReviewSound /\ GateHolds

\* What researchers write beside the text, in the chat and in the margin.
RemarksSound == CommentarySound /\ AnnotationsSound
=============================================================================
