-------------------------------- MODULE Listing --------------------------------
(***************************************************************************)
(* The listing of a form's submissions (list_submissions of                *)
(* src/app/sources/os2forms.py): numbered pages, asked for one at a time   *)
(* while the form is filled in and purged. The poll loop is promised that  *)
(* nothing still in OS2forms is missed.                                    *)
(***************************************************************************)
EXTENDS Naturals, SequencesExt

CONSTANTS
  Submissions,
  Unusable,      \* those whose entry carries no usable URL
  Endpoints,     \* the endpoints considered ...
  Purging,       \* ... and those purged while they are listed
  PageSize,
  MaxArrivals    \* bound: new submissions during one listing

\* The order of the pages is OS2forms' business; "whole" ignores the page.
Orders == {"oldest", "newest", "whole"}

ASSUME ListingAssumption ==
  /\ IsFiniteSet(Submissions)
  /\ Unusable \subseteq Submissions
  /\ Endpoints \subseteq Orders /\ Purging \subseteq Endpoints
  /\ PageSize \in Nat \ {0}
  /\ MaxArrivals \in Nat

VARIABLES
  endpoint,
  form,      \* the submissions on the form, in the order of its pages
  pass,      \* of the caller: "idle", "asking", "listed" or "failed"
  page,      \* the page to ask for
  seen,      \* uuids
  refs,      \* the listing so far
  stayed,    \* history: submissions on the form ever since the listing began
  arrivals   \* history: those that came since

vars == <<endpoint, form, pass, page, seen, refs, stayed, arrivals>>

TypeOK ==
  /\ endpoint \in Endpoints
  /\ form \in Seq(Submissions)
  /\ pass \in {"idle", "asking", "listed", "failed"}
  /\ page \in 0 .. Cardinality(Submissions)
  /\ seen \in SUBSET (Submissions \ Unusable)
  /\ refs \in Seq(Submissions)
  /\ stayed \in SUBSET Submissions
  /\ arrivals \in Nat

Init ==
  /\ endpoint \in Endpoints
  /\ form = <<>>
  /\ pass = "idle" /\ page = 0
  /\ seen = {} /\ refs = <<>>
  /\ stayed = {} /\ arrivals = 0

-------------------------------------------------------------------------------
(* OS2forms.                                                               *)

Arrive(s) ==
  /\ s \notin Range(form)
  /\ pass = "asking" => arrivals < MaxArrivals
  /\ form' = IF endpoint = "newest" THEN <<s>> \o form ELSE Append(form, s)
  /\ arrivals' = IF pass = "asking" THEN arrivals + 1 ELSE arrivals
  /\ UNCHANGED <<endpoint, pass, page, seen, refs, stayed>>

\* Between listings a purge does no harm that this module is about.
Purge(i) ==
  /\ pass = "asking" => endpoint \in Purging
  /\ form' = RemoveAt(form, i)
  /\ stayed' = stayed \ {form[i]}
  /\ UNCHANGED <<endpoint, pass, page, seen, refs, arrivals>>

\* What a request for the page is answered with.
Answer ==
  IF endpoint = "whole" THEN form
  ELSE SubSeq(form, page * PageSize + 1,
              IF Len(form) < (page + 1) * PageSize THEN Len(form) ELSE (page + 1) * PageSize)

-------------------------------------------------------------------------------
(* The adapter.                                                            *)

\* Mutant: the first page is page 1.
Begin_FromOne ==
  /\ pass # "asking"
  /\ pass' = "asking" /\ page' = 1
  /\ seen' = {} /\ refs' = <<>>
  /\ stayed' = Range(form) /\ arrivals' = 0
  /\ UNCHANGED <<endpoint, form>>

Begin ==
  /\ pass # "asking"
  /\ pass' = "asking" /\ page' = 0
  /\ seen' = {} /\ refs' = <<>>
  /\ stayed' = Range(form) /\ arrivals' = 0
  /\ UNCHANGED <<endpoint, form>>

\* Mutant: nothing is known from an earlier page.
NewOnPage_Forgets == Range(Answer) \ Unusable

\* Entries without a usable URL are passed over, and those of earlier pages.
NewOnPage == (Range(Answer) \ Unusable) \ seen

\* The place of the k-th from the left.
Nth(places, k) == CHOOSE i \in places : Cardinality({j \in places : j <= i}) = k

\* They are appended in the order of the page.
NewInOrder ==
  LET places == {i \in DOMAIN Answer : Answer[i] \in NewOnPage}
  IN  [k \in 1 .. Cardinality(places) |-> Answer[Nth(places, k)]]

\* Mutant: only an empty page is the last.
LastPage_Empty == Answer = <<>>

\* The last page is empty or adds nothing new.
LastPage == NewOnPage = {}

\* One request and what is made of its reply.
AskPage ==
  /\ pass = "asking"
  /\ seen' = seen \cup NewOnPage
  /\ refs' = refs \o NewInOrder
  /\ IF LastPage THEN pass' = "listed" /\ UNCHANGED page
                 ELSE page' = page + 1 /\ UNCHANGED pass
  /\ UNCHANGED <<endpoint, form, stayed, arrivals>>

\* A request that fails for good, or a reply of an unexpected shape: what was
\* listed so far is lost with the exception.
Fail ==
  /\ pass = "asking"
  /\ pass' = "failed"
  /\ UNCHANGED <<endpoint, form, page, seen, refs, stayed, arrivals>>

Next ==
  \/ Begin \/ AskPage \/ Fail
  \/ \E s \in Submissions : Arrive(s)
  \/ \E i \in DOMAIN form : Purge(i)

Spec == Init /\ [][Next]_vars

-------------------------------------------------------------------------------
\* "The source re-lists every submission on every poll, so nothing still in
\* OS2forms can be missed": a submission that was there from the first request
\* of a listing to its last is in the listing.
ListsWhatStays == pass = "listed" => stayed \ Unusable \subseteq seen

\* Whatever moves between the pages, no submission is in a listing twice, and
\* the listing is what was seen.
ListedOnce == Range(refs) = seen /\ IsInjective(refs)

\* Every page asked for but the last has brought a submission not seen before:
\* the requests of a listing end with the form, on any endpoint.
PagesAddSomething == page <= Cardinality(seen)
===============================================================================
