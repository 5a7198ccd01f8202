------------------------------ MODULE Sessions ------------------------------
(***************************************************************************)
(* Signing in and out, and authorising the service at the repository.      *)
(*                                                                         *)
(* A session is an entry of sessions.json, a delegation one of             *)
(* delegations.json.  Both files are read, changed and written back whole, *)
(* through one .tmp beside each, by threads and processes that take no     *)
(* lock.  Opening the .tmp truncates it; a writer keeps the file it opened *)
(* even when another has renamed it meanwhile.                             *)
(***************************************************************************)
EXTENDS Callers, Naturals, FiniteSets

CONSTANTS
    Ids,            \* session identifiers, each minted once
    States,         \* state parameters, each issued once
    Nobody, None,   \* no person, and no file or entry
    Torn,           \* a file truncated, half written or overlaid: it reads as
                    \* one with no entries
    Ways            \* of those configured: "orcid", "local", "operator"

Files == {"sessions", "delegations"}

ASSUME SessionsAssumption ==
    /\ Nobody \notin People /\ Ids \cap People = {}
    /\ None \notin Ids \cup People \cup States /\ None # Torn
    /\ \A k \in SUBSET (Ids \cup People) : k # None /\ k # Torn
    /\ Ways \subseteq {"orcid", "local", "operator"}

VARIABLES
    file, tmp,      \* the entries of each file and of its .tmp
    state,          \* the state parameters, in the memory of the service
    issued,         \* whose session each identifier is, if anyone's
    expired,        \* the sessions that are past their lifetime
    req,
    given, ended,   \* history: the entries answered for, the sessions revoked
    exchanged,      \* history: how often each state was exchanged
    overlap         \* history: two requests were on one file at once

vars == <<file, tmp, state, issued, expired, req, given, ended, exchanged, overlap>>

Unread(s) == IF s = Torn THEN {} ELSE s     \* _load

Quiet == [pc |-> "idle", of |-> "sessions", change |-> "read", key |-> None,
          data |-> {}, at |-> "none", who |-> Nobody, stage |-> "none", st |-> None]

Fresh == [status |-> "fresh", for |-> Nobody]

Init ==
    /\ file = [f \in Files |-> {}] /\ tmp = [f \in Files |-> None]
    /\ state = [s \in States |-> Fresh]
    /\ issued = [i \in Ids |-> Nobody]
    /\ expired = {} /\ req = [c \in Requests |-> Quiet]
    /\ given = {} /\ ended = {} /\ exchanged = [s \in States |-> 0]
    /\ overlap = FALSE
-----------------------------------------------------------------------------
(* A change of a file: read it, open the .tmp, write it, put it in place.  *)

InWindow(r, f) == r.of = f /\ r.pc \in {"opening", "writing", "replacing"}

Begin(r, f, change, key) == [r EXCEPT !.pc = "loading", !.of = f, !.change = change,
                                      !.key = key]
Answer(c) == req' = [req EXCEPT ![c] = Quiet]

Resolves(key, entries) == key \in entries /\ key \notin expired

\* A plausible bug: the entry is written and not the others.
ChangedToOne(r, entries) == IF r.change = "add" THEN {r.key} ELSE entries \ {r.key}

\* A plausible bug: what is written back is what was read.
ChangedNotAtAll(r, entries) == IF r.change = "add" THEN entries \cup {r.key} ELSE entries

Changed(r, entries) == IF r.change = "add" THEN entries \cup {r.key} ELSE entries \ {r.key}

(* What is read decides: an entry to add or one to take out is written     *)
(* back; a session that has expired is revoked, which reads once more; one *)
(* that is none identifies nobody, or gives its bearer no roles.           *)
Load(c) ==
    LET r == req[c]
        entries == Unread(file[r.of])
    IN  /\ r.pc = "loading"
        /\ \/ /\ r.change = "add" \/ (r.change = "remove" /\ r.key \in entries)
              /\ req' = [req EXCEPT ![c].pc = "opening",
                                      ![c].data = Changed(r, entries)]
              /\ overlap' = (overlap \/ \E d \in Requests : InWindow(req[d], r.of))
              /\ UNCHANGED ended
           \/ /\ r.change = "remove" /\ r.key \notin entries
              /\ req' = [req EXCEPT ![c] =
                    IF r.stage = "roles" THEN [Quiet EXCEPT !.pc = "serving", !.who = r.who]
                    ELSE Quiet]
              /\ ended' = ended \cup {r.key}
              /\ UNCHANGED overlap
           \/ /\ r.change = "read"
              /\ req' = [req EXCEPT ![c] =
                    IF Resolves(r.key, entries)
                    THEN IF r.stage = "who"
                         THEN [r EXCEPT !.stage = "roles", !.who = issued[r.key]]
                         ELSE [Quiet EXCEPT !.pc = "serving", !.who = r.who]
                    ELSE IF r.key \in entries THEN Begin(r, "sessions", "remove", r.key)
                    ELSE IF r.stage = "roles"
                         THEN [Quiet EXCEPT !.pc = "serving", !.who = r.who]
                         ELSE Quiet]
              /\ UNCHANGED <<overlap, ended>>
        /\ UNCHANGED <<file, tmp, state, issued, expired, given, exchanged>>

OpenTmp(c) ==
    /\ req[c].pc = "opening"
    /\ tmp' = [tmp EXCEPT ![req[c].of] = Torn]
    /\ req' = [req EXCEPT ![c].pc = "writing", ![c].at = "tmp"]
    /\ UNCHANGED <<file, state, issued, expired, given, ended, exchanged, overlap>>

(* Over what another wrote meanwhile, the text is whole only if it is the  *)
(* longer.                                                                 *)
Written(there, data) == IF there = Torn THEN {data} ELSE {data, Torn}

WriteTmp(c) ==
    LET r == req[c] IN
    /\ r.pc = "writing"
    /\ CASE r.at = "tmp" ->
               /\ \E text \in Written(tmp[r.of], r.data) : tmp' = [tmp EXCEPT ![r.of] = text]
               /\ UNCHANGED file
         [] r.at = "path" ->
               /\ \E text \in Written(file[r.of], r.data) : file' = [file EXCEPT ![r.of] = text]
               /\ UNCHANGED tmp
         [] OTHER -> UNCHANGED <<file, tmp>>
    /\ req' = [req EXCEPT ![c].pc = "replacing"]
    /\ UNCHANGED <<state, issued, expired, given, ended, exchanged, overlap>>

\* The file another writer has open, when the .tmp takes the place of f.
Moved(r, f) ==
    IF r.of # f \/ r.pc # "writing" THEN r
    ELSE [r EXCEPT !.at = IF @ = "tmp" THEN "path" ELSE "gone"]

(* The answer: the cookie is set, the session is over, the delegation is   *)
(* held.  With no .tmp to rename, the request ends in an error.            *)
Replace(c) ==
    LET r == req[c]
        others == [d \in Requests |-> Moved(req[d], r.of)]
        after == IF r.stage = "roles" THEN [Quiet EXCEPT !.pc = "serving", !.who = r.who]
                 ELSE Quiet
    IN  /\ r.pc = "replacing"
        /\ IF tmp[r.of] = None
           THEN /\ Answer(c)
                /\ UNCHANGED <<file, tmp, given, ended>>
           ELSE /\ file' = [file EXCEPT ![r.of] = tmp[r.of]]
                /\ tmp' = [tmp EXCEPT ![r.of] = None]
                /\ req' = [others EXCEPT ![c] = after]
                /\ given' = IF r.change = "add" THEN given \cup {r.key} ELSE given
                /\ ended' = IF r.change = "remove" THEN ended \cup {r.key} ELSE ended
        /\ UNCHANGED <<state, issued, expired, exchanged, overlap>>
-----------------------------------------------------------------------------
(* Signing in. *)

Mint(c, i, p, way) ==
    /\ issued[i] = Nobody
    /\ issued' = [issued EXCEPT ![i] = p]
    /\ req' = [req EXCEPT ![c] = [Begin(Quiet, "sessions", "add", i) EXCEPT !.stage = way]]

\* What a session says of how it came about: ORCID, when it is not told.
Says(way) == IF way = "local" THEN "local-accounts" ELSE "orcid"

Login(s) ==
    /\ "orcid" \in Ways /\ state[s] = Fresh
    /\ state' = [state EXCEPT ![s].status = "out"]
    /\ UNCHANGED <<file, tmp, issued, expired, req, given, ended, exchanged, overlap>>

\* A plausible bug: a state that was issued once is good for ever.
Unspent(s) == state[s].status \in {"out", "spent"} /\ state[s].for = Nobody

Pending(s) == state[s].status = "out" /\ state[s].for = Nobody

(* A state that was not issued, or was used, is refused: nothing changes.  *)
Callback(c, s) ==
    /\ req[c].pc = "idle" /\ Pending(s)
    /\ req' = [req EXCEPT ![c].pc = "discarding", ![c].st = s]
    /\ UNCHANGED <<file, tmp, state, issued, expired, given, ended, exchanged, overlap>>

Discard(c) ==
    LET s == req[c].st IN
    /\ req[c].pc = "discarding"
    /\ state' = [state EXCEPT ![s].status = "spent"]
    /\ exchanged' = [exchanged EXCEPT ![s] = @ + 1]
    /\ req' = [req EXCEPT ![c].pc = "exchanging"]
    /\ UNCHANGED <<file, tmp, issued, expired, given, ended, overlap>>

(* The identity provider names who came back from it, or refuses the code, *)
(* or cannot be reached.                                                   *)
Exchange(c) ==
    /\ req[c].pc = "exchanging"
    /\ \/ Answer(c) /\ UNCHANGED issued
       \/ \E i \in Ids, p \in People : Mint(c, i, p, "orcid")
    /\ UNCHANGED <<file, tmp, state, expired, given, ended, exchanged, overlap>>

\* The password of an account in the accounts file; a wrong one changes nothing.
SignInLocally(c) ==
    /\ req[c].pc = "idle" /\ "local" \in Ways
    /\ \E i \in Ids, p \in People : Mint(c, i, p, "local")
    /\ UNCHANGED <<file, tmp, state, expired, given, ended, exchanged, overlap>>

\* The command of an operator, who says who it is.
IssueSession(c) ==
    /\ req[c].pc = "idle" /\ "operator" \in Ways
    /\ \E i \in Ids, p \in People : Mint(c, i, p, "operator")
    /\ UNCHANGED <<file, tmp, state, expired, given, ended, exchanged, overlap>>

\* An identifier is known to a browser once the answer has set its cookie.
Logout(c, i) ==
    /\ req[c].pc = "idle" /\ i \in given
    /\ req' = [req EXCEPT ![c] = Begin(Quiet, "sessions", "remove", i)]
    /\ UNCHANGED <<file, tmp, state, issued, expired, given, ended, exchanged, overlap>>

(* Any request with a cookie: who it is from is read, then with what       *)
(* roles.                                                                  *)
Visit(c, i) ==
    /\ req[c].pc = "idle" /\ i \in given
    /\ req' = [req EXCEPT ![c] = [Begin(Quiet, "sessions", "read", i) EXCEPT !.stage = "who"]]
    /\ UNCHANGED <<file, tmp, state, issued, expired, given, ended, exchanged, overlap>>

Serve(c) ==
    /\ req[c].pc = "serving"
    /\ Answer(c)
    /\ UNCHANGED <<file, tmp, state, issued, expired, given, ended, exchanged, overlap>>

AuthoriseRepository(c, s) ==
    /\ req[c].pc = "serving" /\ "orcid" \in Ways /\ state[s] = Fresh
    /\ state' = [state EXCEPT ![s] = [status |-> "out", for |-> req[c].who]]
    /\ Answer(c)
    /\ UNCHANGED <<file, tmp, issued, expired, given, ended, exchanged, overlap>>

PendingFor(s) == state[s].status = "out" /\ state[s].for # Nobody

(* The state is taken out in one step; the repository gives a token or     *)
(* not, and the token is kept for whom the state was issued.               *)
RepositoryCallback(c, s) ==
    /\ req[c].pc = "idle" /\ PendingFor(s)
    /\ state' = [state EXCEPT ![s].status = "spent"]
    /\ exchanged' = [exchanged EXCEPT ![s] = @ + 1]
    /\ \/ req' = [req EXCEPT ![c] = Begin(Quiet, "delegations", "add", state[s].for)]
       \/ UNCHANGED req
    /\ UNCHANGED <<file, tmp, issued, expired, given, ended, overlap>>
-----------------------------------------------------------------------------
Expire(i) ==
    /\ issued[i] # Nobody /\ i \notin expired
    /\ expired' = expired \cup {i}
    /\ UNCHANGED <<file, tmp, state, issued, req, given, ended, exchanged, overlap>>

\* A thread or a command ends anywhere, its .tmp left behind.
Die(c) ==
    /\ req[c].pc # "idle"
    /\ Answer(c)
    /\ UNCHANGED <<file, tmp, state, issued, expired, given, ended, exchanged, overlap>>

(* The states that are out are lost with the process; the files are not.   *)
Restart ==
    /\ req' = [c \in Requests |-> Quiet]
    /\ state' = [s \in States |->
          IF state[s].status = "out" THEN [state[s] EXCEPT !.status = "lost"] ELSE state[s]]
    /\ UNCHANGED <<file, tmp, issued, expired, given, ended, exchanged, overlap>>

Next ==
    \/ \E c \in Requests :
          \/ Load(c) \/ OpenTmp(c) \/ WriteTmp(c) \/ Replace(c)
          \/ Discard(c) \/ Exchange(c) \/ SignInLocally(c) \/ IssueSession(c) \/ Serve(c) \/ Die(c)
          \/ \E s \in States :
                Callback(c, s) \/ AuthoriseRepository(c, s) \/ RepositoryCallback(c, s)
          \/ \E i \in Ids : Logout(c, i) \/ Visit(c, i)
    \/ \E s \in States : Login(s)
    \/ \E i \in Ids : Expire(i)
    \/ Restart

Spec == Init /\ [][Next]_vars
-----------------------------------------------------------------------------
Keys(f) == IF f = "sessions" THEN {i \in Ids : issued[i] # Nobody} ELSE People

RequestOK(r) ==
    /\ r.pc \in {"idle", "loading", "opening", "writing", "replacing", "serving",
                 "discarding", "exchanging"}
    /\ r.of \in Files /\ r.change \in {"read", "add", "remove"}
    /\ r.pc = "loading" => r.key \in Keys(r.of)
    /\ r.pc \in {"opening", "writing", "replacing"} =>
          r.data \subseteq Keys(r.of) /\ r.change # "read" /\ r.key \in Keys(r.of)
    /\ r.pc = "writing" => r.at \in {"tmp", "path", "gone"}
    /\ r.pc \in {"discarding", "exchanging"} => r.st \in States
    /\ r.pc = "serving" => r.who \in People
    /\ r.change \in {"read", "remove"} => r.of = "sessions"
    /\ r.stage \in {"none", "who", "roles", "orcid", "local", "operator"} /\ (r.stage = "roles" => r.who \in People)

TypeOK ==
    /\ \A f \in Files :
          /\ file[f] = Torn \/ file[f] \subseteq Keys(f)
          /\ tmp[f] \in {None, Torn} \/ tmp[f] \subseteq Keys(f)
    /\ \A s \in States :
          state[s].status \in {"fresh", "out", "spent", "lost"} /\
          state[s].for \in People \cup {Nobody}
    /\ \A i \in Ids : issued[i] \in People \cup {Nobody}
    /\ \A c \in Requests : RequestOK(req[c])
    /\ overlap \in BOOLEAN

(* "An expired or unknown identifier resolves to nothing, never to a       *)
(* default user": whoever a request is taken to be from was given the      *)
(* session it names, and that one had not expired.  (identity/session.py)  *)
NeverADefaultUser ==
    [][\A c \in Requests :
          req'[c].stage = "roles" /\ req[c].stage = "who" =>
              /\ req[c].key \notin expired /\ issued[req[c].key] = req'[c].who
              /\ req[c].key \in Unread(file["sessions"])]_vars

(* What a request was answered for is kept, crashes and restarts included, *)
(* as long as no two requests were on one file at once: who was told they  *)
(* are signed in is, until they sign out or the session expires.           *)
AnsweredIsKept ==
    overlap \/ \A k \in given :
        IF k \in Ids THEN k \in Unread(file["sessions"]) \cup ended \cup expired
        ELSE k \in Unread(file["delegations"])

(* "End a session immediately": as long as no two requests were on one     *)
(* file at once, who was told they are signed out is.  (session.py:revoke) *)
EndedStaysEnded ==
    overlap \/ \A i \in ended \cap given : i \notin Unread(file["sessions"])

(* "A single-use CSRF state parameter": one that was used, and that no     *)
(* request found while it was out and has still to use, is never used      *)
(* again, however many bring it, at once or later.  (identity/orcid.py)    *)
Over(s) ==
    /\ state[s].status \in {"spent", "lost"}
    /\ \A c \in Requests : ~(req[c].pc = "discarding" /\ req[c].st = s)

NeverUsedAgain ==
    [][\A s \in States : Over(s) => Over(s)' /\ exchanged'[s] = exchanged[s]]_vars

\* What it asks of requests at once as well.
UsedOnce == \A s \in States : exchanged[s] <= 1

(* A state that is bound to a person is used once whatever happens at      *)
(* once.  (credentials/oauth.py)                                           *)
DelegatedOnce == \A s \in States : state[s].for # Nobody => exchanged[s] <= 1

(* The first two, with no proviso.                                          *)
KeptWhateverElse ==
    \A i \in given \cap Ids : i \in Unread(file["sessions"]) \cup ended \cup expired
EndedWhateverElse == \A i \in ended \cap given : i \notin Unread(file["sessions"])

(* "no development mode that mints a session without an ORCID exchange":   *)
(* a session that says it came from ORCID did.  (identity/session.py)      *)
SaysHow ==
    \A c \in Requests : req[c].stage \in {"orcid", "local", "operator"} =>
        (Says(req[c].stage) = "orcid" => req[c].stage = "orcid")
=============================================================================
