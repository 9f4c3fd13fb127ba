---------------------------- MODULE MCDistiller -----------------------------
(***************************************************************************)
(* What happens around one model call of the distiller and to its answer:  *)
(* hosting, the event stream of Codex, the storing of an output, and the   *)
(* advice for the review.  The four share no state, so a behaviour belongs *)
(* to one of them, `part`, and one run checks them all.  The module builds *)
(* on Hosting; the others are instances.                                   *)
(***************************************************************************)
EXTENDS Hosting, Sequences, TLC

CONSTANTS Observations, Digits, Marks, Stops, Ids

VARIABLES
  part,
  content, log,
  seen, permitted, phase, items, final,
  source, size, item, reply, stored, changes

advice  == <<content, log>>
stream  == <<seen, permitted, phase, items, final>>
output  == <<source, size, item, reply, stored, changes>>
everything == <<part, advice, vars, stream, output>>

Parsed == INSTANCE CodexEvents WITH MaxEvents <- 7
Filed  == INSTANCE Output WITH Blocks <- 2, Length <- 2, Narrow <- 1, Wide <- 2, MaxChanges <- 1

\* "retain upload logs 1.5 gigabytes"; the same with other white space; that from another source; a document's
\* other spelling of it; the same words with "1-5", as a constraint and as a correction; one that states 14 too.
Said == INSTANCE Wording
Saying(pieces) == <<"retain", " ", "upload", " ", "logs", " ">> \o pieces
Limit == Saying(<<"1", ".", "5", " ", "gigabytes">>)
Loose == Saying(<<"1", ".", "5", "  ", "gigabytes">>)
Span  == Saying(<<"1", "-", "5", " ", "gigabytes">>)
Base  == [kind |-> "constraint", source |-> "s1", lane |-> "transcript", tone |-> "plain", resolved |-> TRUE,
          text |-> Said!Read(Limit)]
MCList ==
  <<Base,
    [Base EXCEPT !.text = Said!Read(Loose)],
    [Base EXCEPT !.text = Said!Read(Loose), !.source = "s2"],
    [Base EXCEPT !.text = Said!Read(Limit \o <<"!">>), !.lane = "document", !.source = None],
    [Base EXCEPT !.text = Said!Read(Span)],
    [Base EXCEPT !.text = Said!Read(Span), !.kind = "correction"],
    [Base EXCEPT !.text = Said!Read(Saying(<<"1", ".", "5", " ", "or", " ", "14", " ", "gigabytes">>))]>>
MCContents == {MCList[i] : i \in DOMAIN MCList}

Advised == INSTANCE Advice WITH Contents <- MCContents, MaxDecisions <- 4

\* One observation is the base.  The others are interchangeable, so they are taken in the order of the list.
\* What a part may begin with is open only in its own behaviours.
AllInit ==
  /\ part \in {"advice", "hosting", "stream", "output"}
  /\ log = <<>>
  /\ \E pick \in [Observations -> IF part = "advice" THEN DOMAIN MCList ELSE {1}] :
       /\ pick[1] = 1 /\ \A o, p \in Observations : o < p => pick[o] <= pick[p]
       /\ content = [o \in Observations |-> MCList[pick[o]]]
  /\ Init
  /\ Parsed!Init /\ (part # "stream" => permitted)
  /\ Filed!Init /\ (part # "output" => source = [lengths |-> <<1>>, edition |-> 0] /\ size = 1)

HostingNext == part = "hosting" /\ Next /\ UNCHANGED <<part, advice, stream, output>>

AllNext ==
  \/ part = "advice" /\ Advised!Next /\ UNCHANGED <<part, vars, stream, output>>
  \/ HostingNext
  \/ part = "stream" /\ Parsed!Next /\ UNCHANGED <<part, advice, vars, output>>
  \/ part = "output" /\ Filed!Next /\ UNCHANGED <<part, advice, vars, stream>>

\* The fairness of Hosting, for its behaviours.
AllSpec ==
  /\ AllInit /\ [][AllNext]_everything
  /\ WF_everything(HostingNext /\ HostStep)
  /\ WF_everything(HostingNext /\ Kill)
  /\ WF_everything(HostingNext /\ Break("time"))
  /\ WF_everything(HostingNext /\ LeaderEnds)

-----------------------------------------------------------------------------
(* Properties, each stated in the module of its part; HostingTellsTheTruth is that of Hosting *)

\* Whatever the rule accepted, a reviewer had accepted before, and what is suggested to be dropped as a
\* repetition repeats something accepted: the text but for its marks, or its numbers.
AdviceHolds == Advised!RuleTracesToAPress /\ Advised!RepetitionsRepeat

\* A model call ends or its host dies, whatever its processes do.
HostedCallsEnd == part = "hosting" ~> host \in {"end", "dead"}

\* The parser of Codex's events accepts exactly the streams of one finished turn.
AcceptsOneTurn == Parsed!AcceptsOneTurn

\* Every reference of a stored finding can be looked up in the source, in the slice it is filed under.
FindingsCanBeLookedUp == Filed!FindingsCanBeLookedUp
=============================================================================
