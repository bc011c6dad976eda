--------------------------- MODULE SessionPromise ---------------------------
(***************************************************************************)
(* What a SIP session promises its user and its peer (the handlers of      *)
(* re/include/re_sipsess.h), with nothing of how it keeps the promise:     *)
(* the user hears at most once that the session is up and at most once     *)
(* that it is closed, in that order, and nothing after that or after he    *)
(* let go of it; the session goes away only without its user, and never    *)
(* behind the back of a peer who was accepted and still believes in it.    *)
(***************************************************************************)
VARIABLES
    user,       \* "none", then "holds" a reference, then "gone"
    news,       \* what the user was told, in order: "up", "closed"
    dialog,     \* "none", "up" once the invitation was accepted, "over"
    released    \* the session has gone away

vars == <<user, news, dialog, released>>

Init == user = "none" /\ news = <<>> /\ dialog = "none" /\ ~released

Open ==
    /\ user = "none"
    /\ user' = "holds"
    /\ dialog' \in {"none", "up"}       \* accepted at once or later
    /\ UNCHANGED <<news, released>>

\* only a user who holds the session hears of it
TellUser ==
    \/ news' = news
    \/ user = "holds" /\ news = <<>> /\ news' \in {<<"up">>, <<"closed">>}
    \/ user = "holds" /\ news = <<"up">> /\ news' = <<"up", "closed">>

LetGo == user' = user \/ (user = "holds" /\ user' = "gone")

\* accepted, ended by a BYE of either side, or ended before it was accepted
DialogMoves ==
    \/ dialog' = dialog
    \/ dialog = "none" /\ dialog' \in {"up", "over"}
    \/ dialog = "up" /\ dialog' = "over"

Release == released' => user' = "gone" /\ dialog' # "up"

\* one event may do several of these things at once
Event ==
    /\ user # "none" /\ ~released
    /\ TellUser /\ LetGo /\ DialogMoves /\ Release

Spec == Init /\ [][Open \/ Event]_vars

\* a session whose user let go of it does go away
Goes == (user = "gone") ~> released
=============================================================================
