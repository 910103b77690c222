---------------------------- MODULE FolderListing ----------------------------
(***************************************************************************)
(* How a folder is listed for a sync (ListAllEmails in                     *)
(* mail/commands/listemails.go): page after page by position, while a      *)
(* client's removal and a submission are under way in other goroutines     *)
(* (ApiRetry), and mail is removed by other clients of the account.  A     *)
(* page is a call that returns or fails as a whole, as ApiCall promises,   *)
(* its answer being of one moment in between.  The API lists the newest    *)
(* email first.                                                            *)
(***************************************************************************)
EXTENDS ApiRetry, Sequences, SequencesExt

CONSTANTS
  Emails,     \* what is in the folder at first, the newest in front
  Limit,      \* the size of a page
  Discard,    \* the call that removes an email, and that email
  Discarded,
  Send,       \* the call that puts one into the folder, and that email
  Sent

ASSUME FolderListingAssumption ==
  /\ Limit \in Nat \ {0} /\ Discarded \in ToSet(Emails)
  /\ Emails \in Seq(ToSet(Emails)) /\ IsInjective(Emails) /\ Sent \notin ToSet(Emails)
  /\ Call = {Discard, Send}
  /\ Method[Discard] = "DELETE" /\ Method[Send] = "POST"

VARIABLES
  folder,     \* what is in the folder
  position,   \* opts.Position
  answer,     \* the page last read: its emails, and whether there are more
  all,        \* what was listed
  listing,    \* where the listing is
  arrived,    \* history: an email came into the folder since the listing began
  shifted     \* history: one left that it had already been answered

listingVars == <<folder, position, answer, all, listing, arrived, shifted>>

NoAnswer == [emails |-> <<>>, more |-> FALSE]

ListingInit ==
  /\ Init
  /\ folder = Emails /\ position = 0 /\ answer = NoAnswer /\ all = <<>>
  /\ listing = "none" /\ arrived = FALSE /\ shifted = FALSE

Listing == listing \in {"asked", "answered"}

-----------------------------------------------------------------------------
(* The folder.                                                             *)

Place(email) == SelectInSeq(folder, LAMBDA e : e = email)

FolderWithout(email) ==
  /\ folder' = RemoveAt(folder, Place(email))
  /\ shifted' = (shifted \/ (Listing /\ email \in ToSet(all \o answer.emails)))
  /\ UNCHANGED arrived

FolderWith(email) ==
  /\ folder' = <<email>> \o folder
  /\ arrived' = (arrived \/ Listing)
  /\ UNCHANGED shifted

PageAt == SubSeq(folder, position + 1, Min({position + Limit, Len(folder)}))

\* The API may say that there is more where there is not.
PageAnswered ==
  /\ listing = "asked"
  /\ \E more \in {TRUE, position + Limit < Len(folder)} :
       answer' = [emails |-> PageAt, more |-> more]
  /\ listing' = "answered"
  /\ UNCHANGED <<vars, folder, position, all, arrived, shifted>>

\* An attempt of another call, with what the API does where it carries it out.
Request(c) ==
  /\ Attempt(c)
  /\ CASE hits'[c] > hits[c] /\ c = Discard -> FolderWithout(Discarded)
       [] hits'[c] > hits[c] /\ c = Send    -> FolderWith(Sent)
       [] OTHER -> UNCHANGED <<folder, arrived, shifted>>
  /\ UNCHANGED <<position, answer, all, listing>>

RemovedByOthers ==
  /\ RemovedElsewhere(Discard)
  /\ FolderWithout(Discarded)
  /\ UNCHANGED <<position, answer, all, listing>>

-----------------------------------------------------------------------------
(* ListAllEmails.                                                          *)

BeginListing ==
  /\ listing = "none"
  /\ listing' = "asked"
  /\ UNCHANGED <<vars, folder, position, answer, all, arrived, shifted>>

\* Bugs: an email is skipped; the position stays; an empty page is not the last.
OneTooFar == Len(answer.emails) + 1
StaysThere == 0
NoMoreSaid == ~answer.more

Advance == Len(answer.emails)
LastPage == ~answer.more \/ answer.emails = <<>>

TakePage ==
  /\ listing = "answered"
  /\ all' = all \o answer.emails
  /\ IF LastPage
     THEN listing' = "listed" /\ UNCHANGED position
     ELSE listing' = "asked" /\ position' = position + Advance
  /\ UNCHANGED <<vars, folder, answer, arrived, shifted>>

\* An answer that does not come, or is not read, ends the listing with an error.
ListingFails ==
  /\ Listing
  /\ listing' = "failed"
  /\ UNCHANGED <<vars, folder, position, answer, all, arrived, shifted>>

CallStep(c) ==
  \/ Request(c)
  \/ (Answered(c) \/ GivesUp(c) \/ TriesAgain(c) \/ Sleep(c))
       /\ UNCHANGED listingVars

Clients ==
  \/ \E c \in Call : (Start(c) \/ Cancel(c)) /\ UNCHANGED listingVars
  \/ RemovedByOthers

ListingNext ==
  \/ BeginListing \/ PageAnswered \/ TakePage \/ ListingFails
  \/ \E c \in Call : CallStep(c)
  \/ Clients

\* Each call returns, with an answer or an error (ApiRetry!EveryCallReturns).
ListingSpec ==
  /\ ListingInit /\ [][ListingNext]_<<vars, listingVars>>
  /\ WF_<<vars, listingVars>>(PageAnswered \/ TakePage)
  /\ \A c \in Call : WF_<<vars, listingVars>>(CallStep(c))

-----------------------------------------------------------------------------
(* Properties.                                                             *)

\* A listing that ends has every email that was in the folder throughout, unless
\* one it had listed left the folder in between and shifted the rest, and has it
\* once, unless one arrived (listemails.go:26-46): the sync takes what is missing
\* for deleted, and announces what is there twice.
ListingComplete ==
  /\ listing = "listed" /\ ~shifted =>
       ToSet(Emails) \cap ToSet(folder) \subseteq ToSet(all)
  /\ ~arrived => IsInjective(all)

\* A listing ends, even if the API keeps saying that there is more
\* (listemails.go:40-44).
ListingEnds == Listing ~> ~Listing

-----------------------------------------------------------------------------
(* What a comment says, and the code does not do.                          *)

\* "ListAllEmails returns every email in a folder, paging through the API"
\* (mail.go:110): whatever is removed meanwhile.
EveryEmailListed ==
  listing = "listed" => ToSet(Emails) \cap ToSet(folder) \subseteq ToSet(all)

=============================================================================
