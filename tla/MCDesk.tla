------------------------------- MODULE MCDesk -------------------------------
(***************************************************************************)
(* Three modules of a tenant's own business for TLC: the numbers of quotes *)
(* and orders (Numbers), the images of quotes (Quotes) and the teams       *)
(* (Teams). They share no state, so in a behaviour one of them moves, and  *)
(* the others stay where they started.                                     *)
(***************************************************************************)
EXTENDS Numbers

CONSTANTS QuoteIds, Images, Callers, MaxAttachments, MaxServices,
          TeamIds, Names, Colors, Members, Together

VARIABLES part, documents, cloud, calls, tasks, uploaded, stray, removed, cancelling, failed,
          teams, gone, members, teamCalls, repeated

Img   == INSTANCE Quotes WITH quotes <- documents
Group == INSTANCE Teams WITH Callers <- Requests, calls <- teamCalls

\* None is no value of theirs, members and colours are finitely many, and a quote has two
\* IT Support services at most.
ASSUME DeskConstants ==
    /\ None \notin Images \cup TeamIds \cup Names \cup Colors \cup Group!Kinds
    /\ IsFiniteSet(Members) /\ IsFiniteSet(Colors)
    /\ MaxAttachments \in Nat /\ MaxServices \in 0 .. 2

imageVars == <<documents, cloud, calls, tasks, uploaded, stray, removed, cancelling, failed>>
groupVars == <<teams, gone, members, teamCalls, repeated>>
all       == <<part, vars, imageVars, groupVars>>

NumbersStep     == part = "numbers" /\ Next /\ UNCHANGED <<part, imageVars, groupVars>>
ImageStep(Step) == part = "images" /\ Step /\ UNCHANGED <<part, vars, groupVars>>
GroupStep       == part = "teams" /\ Group!Next /\ UNCHANGED <<part, vars, imageVars>>

PartInit == part \in {"numbers", "images", "teams"} /\ Init /\ Img!Init /\ Group!Init
PartNext == NumbersStep \/ ImageStep(Img!Next) \/ GroupStep

\* The fairness of Quotes.
PartFair ==
    /\ \A q \in QuoteIds : WF_all(ImageStep(Img!CleanLook(q)))
    /\ \A i \in Images : WF_all(ImageStep(Img!CleanOne(i)))

PartSpec == PartInit /\ [][PartNext]_all /\ PartFair

\* Quotes and the images in the cloud fit together (see Quotes).
ImagesFit == Img!ImagesFit

\* The images of a cancelled quote are deleted in the end (see Quotes).
CancelledIsClean == Img!CancelledIsClean

\* Teams and members fit together, and an import ends (see Teams).
TeamsFit == Group!TeamsFit

=============================================================================
