---------------------------- MODULE KeyPublication ----------------------------
(***************************************************************************)
(* _write_plaintext_file: the secret of a new API key goes to a file that  *)
(* did not exist before, and only then is the key stored.  Any call of the *)
(* operating system may fail, and other programs may move, put back or     *)
(* replace what stands at the name, and the directory itself, between any  *)
(* two calls.                                                              *)
(*                                                                         *)
(* There are two files, the one that this program creates and one of       *)
(* somebody else; where they stand is what the others change.  Modes and   *)
(* the empty marker of an output that was gone in time are left out, and a *)
(* write that fails may have written.                                      *)
(***************************************************************************)
EXTENDS Naturals, Sequences

CONSTANTS
    Meddlings,  \* bound on what the others do
    Rounds      \* bound on quarantine names that are tried; 32 in the code

ASSUME PublicationAssumption == Meddlings \in Nat /\ Rounds \in Nat \ {0}

OutputFiles == {"ours", "theirs"}

VARIABLES
    call,       \* the call that comes next
    confirmed,  \* how many confirmations have passed
    rounds,     \* quarantine names tried
    held,       \* descriptors of the output
    known,      \* expected is not None
    place,      \* where each file stands: "name", "aside", "away", or "nowhere" yet
    parent,     \* path.parent is still the directory that was opened
    content,    \* what our file holds
    intact,     \* theirs still holds what it held
    spoiled,    \* history: a call failed that would have emptied our file
    stored,     \* the key is in the repository
    meddled     \* what the others have done

publicationVars == <<call, confirmed, rounds, held, known, place, parent, content, intact, spoiled,
                     stored, meddled>>

PublicationInit ==
    /\ call = "open" /\ confirmed = 0 /\ rounds = 0
    /\ held = {} /\ known = FALSE
    /\ place \in [ours : {"nowhere"}, theirs : {"name", "away"}]
    /\ parent = TRUE
    /\ content = "empty" /\ intact = TRUE /\ spoiled = FALSE
    /\ stored = FALSE /\ meddled = 0

\* After the output is written: the directory and the entry, in the order they are asked.
Confirmations == <<"parent", "entry", "parent", "entry", "parent">>
-----------------------------------------------------------------------------
\* os.open of the directory, and _same_directory
OpenDirectory ==
    /\ call = "open"
    /\ call' \in IF parent THEN {"create", "scrub"} ELSE {"scrub"}
    /\ UNCHANGED <<confirmed, rounds, held, known, place, parent, content, intact, spoiled, stored, meddled>>

\* O_CREAT with O_EXCL: only where there is nothing.
CreateOutput ==
    /\ call = "create"
    /\ \/ /\ "name" \notin {place[f] : f \in OutputFiles}
          /\ place' = [place EXCEPT !.ours = "name"]
          /\ held' = {"descriptor"}
          /\ call' = "identify"
       \/ call' = "scrub" /\ UNCHANGED <<place, held>>
    /\ UNCHANGED <<confirmed, rounds, known, parent, content, intact, spoiled, stored, meddled>>

Identify ==
    /\ call = "identify"
    /\ \/ known' = TRUE /\ call' = "write"
       \/ call' = "scrub" /\ UNCHANGED known
    /\ UNCHANGED <<confirmed, rounds, held, place, parent, content, intact, spoiled, stored, meddled>>

WriteOutput ==
    /\ call = "write"
    /\ \/ content' = "secret" /\ call' \in {"confirm", "scrub"}
       \/ call' = "scrub" /\ UNCHANGED content
    /\ UNCHANGED <<confirmed, rounds, held, known, place, parent, intact, spoiled, stored, meddled>>

Confirmed(what) == IF what = "parent" THEN parent ELSE place.ours = "name"

Confirm ==
    /\ call = "confirm"
    /\ \/ /\ Confirmed(Confirmations[confirmed + 1])
          /\ confirmed' = confirmed + 1
          /\ call' = IF confirmed' = Len(Confirmations) THEN "duplicate" ELSE "confirm"
       \/ call' = "scrub" /\ UNCHANGED confirmed
    /\ UNCHANGED <<rounds, held, known, place, parent, content, intact, spoiled, stored, meddled>>

\* A second descriptor, for when closing the first reports an error.
Duplicate ==
    /\ call = "duplicate"
    /\ \/ held' = held \cup {"recovery"} /\ call' = "close"
       \/ call' = "scrub" /\ UNCHANGED held
    /\ UNCHANGED <<confirmed, rounds, known, place, parent, content, intact, spoiled, stored, meddled>>

CloseOutput ==
    /\ call = "close"
    /\ \/ held' = {} /\ call' = "store"
       \/ held' = {"recovery"} /\ call' = "scrub"
    /\ UNCHANGED <<confirmed, rounds, known, place, parent, content, intact, spoiled, stored, meddled>>

\* ApiKeyManager.create, once the sink has returned.
StoreKey ==
    /\ call = "store"
    /\ stored' \in BOOLEAN
    /\ call' = "over"
    /\ UNCHANGED <<confirmed, rounds, held, known, place, parent, content, intact, spoiled, meddled>>
-----------------------------------------------------------------------------
\* An output that was made and not published is emptied through whichever descriptor is
\* left, wherever it has got to ...
Scrub ==
    /\ call = "scrub"
    /\ \/ held # {} /\ content' = "empty" /\ known' = TRUE /\ UNCHANGED spoiled
       \/ held # {} /\ spoiled' = TRUE /\ known' \in {known, TRUE} /\ UNCHANGED content
       \/ held = {} /\ UNCHANGED <<content, known, spoiled>>
    /\ call' = IF held # {} /\ known' THEN "look" ELSE "failed"
    /\ UNCHANGED <<confirmed, rounds, held, place, parent, intact, stored, meddled>>

\* ... and, if it is still at its name, moved out of the way.
Look ==
    /\ call = "look"
    /\ call' \in IF place.ours = "name" THEN {"reserve", "failed"} ELSE {"failed"}
    /\ UNCHANGED <<confirmed, rounds, held, known, place, parent, content, intact, spoiled, stored, meddled>>

\* The last look before the move.
Reserve ==
    /\ call = "reserve"
    /\ call' \in IF place.ours = "name" THEN {"rename", "failed"} ELSE {"failed"}
    /\ UNCHANGED <<confirmed, rounds, held, known, place, parent, content, intact, spoiled, stored, meddled>>

\* The move takes whatever stands at the name; a name that is taken costs a round.
Rename ==
    /\ call = "rename"
    /\ \/ \E f \in OutputFiles :
            /\ place[f] = "name"
            /\ place' = [place EXCEPT ![f] = "aside"]
            /\ call' = "inspect"
            /\ UNCHANGED rounds
       \/ /\ rounds' = rounds + 1
          /\ call' = IF rounds' = Rounds THEN "failed" ELSE "reserve"
          /\ UNCHANGED place
       \/ call' = "failed" /\ UNCHANGED <<place, rounds>>
    /\ UNCHANGED <<confirmed, held, known, parent, content, intact, spoiled, stored, meddled>>

\* Mutant of Emptied: what was moved is emptied, whoever's it is.
EmptiedUnseen(f) == TRUE

\* Only the file that this program made is emptied.
Emptied(f) == f = "ours"

Inspect ==
    /\ call = "inspect"
    /\ \/ \E f \in OutputFiles :
            /\ place[f] = "aside" /\ Emptied(f)
            /\ IF f = "ours" THEN content' = "empty" /\ UNCHANGED intact
                             ELSE intact' = FALSE /\ UNCHANGED content
            /\ UNCHANGED spoiled
       \/ \E f \in OutputFiles :
            /\ place[f] = "aside"
            /\ spoiled' = (spoiled \/ f = "ours")
            /\ UNCHANGED <<content, intact>>
       \/ "aside" \notin {place[f] : f \in OutputFiles} /\ UNCHANGED <<content, intact, spoiled>>
    /\ call' = "failed"
    /\ UNCHANGED <<confirmed, rounds, held, known, place, parent, stored, meddled>>
-----------------------------------------------------------------------------
\* Others, as long as the publication goes on.
Meddle ==
    /\ call \notin {"over", "failed"}
    /\ meddled < Meddlings
    /\ meddled' = meddled + 1
    /\ \/ parent' = ~parent /\ UNCHANGED place
       \/ /\ \E f \in OutputFiles : \E p \in {"name", "away"} :
                /\ place[f] \notin {"nowhere", p}
                /\ place' = [g \in OutputFiles |->
                                IF g = f THEN p ELSE IF place[g] = p THEN "away" ELSE place[g]]
          /\ UNCHANGED parent
    /\ UNCHANGED <<call, confirmed, rounds, held, known, content, intact, spoiled, stored>>

PublicationNext ==
    \/ OpenDirectory \/ CreateOutput \/ Identify \/ WriteOutput \/ Confirm \/ Duplicate
    \/ CloseOutput \/ StoreKey \/ Scrub \/ Look \/ Reserve \/ Rename \/ Inspect \/ Meddle

PublicationSpec == PublicationInit /\ [][PublicationNext]_publicationVars
-----------------------------------------------------------------------------
\* Whatever fails and whatever others move in the meantime: no file of somebody else is
\* emptied; a key is stored only when its secret was written out; and once publication has
\* failed its secret is nowhere on the disk, also when closing the file failed or the file
\* had been moved before it could be cleaned up, unless a call that would have emptied it
\* failed too (_write_plaintext_file, _quarantine_owned_output, key_admin.py).
OutputIsSafe ==
    /\ intact
    /\ stored => content = "secret"
    /\ call = "failed" /\ content = "secret" => spoiled
=============================================================================
