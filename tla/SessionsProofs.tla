--------------------------- MODULE SessionsProofs ---------------------------
(***************************************************************************)
(* What holds of signing in and out for any number of people, requests,    *)
(* session identifiers and state parameters, in whatever order the         *)
(* requests read, write and replace the files, and wherever they die; and, *)
(* at the end, of what those who are signed in may see and do (Access):    *)
(* who acts on a job owned it, who reads it without owning it is on its    *)
(* log, and nothing is done for strangers.                                 *)
(***************************************************************************)
EXTENDS Sessions, Access, SequenceTheorems, TLAPS

Contents == SUBSET (Ids \cup People)

Requested ==
  [pc : {"idle", "loading", "opening", "writing", "replacing", "serving",
         "discarding", "exchanging"},
   of : Files, change : {"read", "add", "remove"}, key : Ids \cup People \cup {None},
   data : Contents, at : {"none", "tmp", "path", "gone"}, who : People \cup {Nobody},
   stage : {"none", "who", "roles", "orcid", "local", "operator"},
   st : States \cup {None}]

Stated == [status : {"fresh", "out", "spent", "lost"}, for : People \cup {Nobody}]

\* The shape of the variables.
Shape ==
  /\ file \in [Files -> Contents \cup {Torn}]
  /\ tmp \in [Files -> Contents \cup {None, Torn}]
  /\ state \in [States -> Stated]
  /\ issued \in [Ids -> People \cup {Nobody}] /\ expired \subseteq Ids
  /\ req \in [Requests -> Requested]
  /\ given \subseteq Ids \cup People /\ ended \subseteq Ids
  /\ exchanged \in [States -> Nat] /\ overlap \in BOOLEAN

LEMMA Basics ==
  /\ "sessions" \in Files /\ "delegations" \in Files
  /\ \A k \in Contents : k # Torn /\ k # None
  /\ None # Torn /\ None \notin Ids \cup People \cup States
  /\ Nobody \notin People /\ Ids \cap People = {}
  /\ Quiet \in Requested
BY SessionsAssumption DEF Files, Contents, Quiet, Requested

LEMMA KeysTypes ==
  ASSUME Shape
  PROVE  /\ Keys("sessions") = {i \in Ids : issued[i] # Nobody}
         /\ Keys("delegations") = People
         /\ \A f \in Files : Keys(f) \subseteq Ids \cup People
BY DEF Keys, Files

\* What a request is about has been minted, or is a person; one that has read
\* for whom it is goes on to read the roles.
Good(d) ==
  /\ RequestOK(req[d])
  /\ req[d].pc = "loading" /\ req[d].change = "read" =>
        req[d].stage \in {"who", "roles"}

\* An answered sign-in was for an identifier that is somebody's.
GivenIssued == \A i \in given \cap Ids : issued[i] # Nobody

\* What the files say is somebody's identifier, or a person.
FilesOK ==
  \A f \in Files : /\ file[f] = Torn \/ file[f] \subseteq Keys(f)
                   /\ tmp[f] \in {None, Torn} \/ tmp[f] \subseteq Keys(f)

Types == Shape /\ (\A d \in Requests : Good(d)) /\ GivenIssued /\ FilesOK

\* Every identifier that is somebody's stays so.
LEMMA KeysGrow ==
  ASSUME Shape, Shape', issued' = issued \/ \E i \in Ids, p \in People :
                   issued[i] = Nobody /\ issued' = [issued EXCEPT ![i] = p]
  PROVE  /\ Keys("sessions") \subseteq Keys("sessions")'
         /\ Keys("delegations")' = Keys("delegations")
  BY Basics DEF Keys, Files, Shape

\* A request that is as it was is as good as it was.
LEMMA GoodStays ==
  ASSUME Shape, Shape', NEW d \in Requests, Good(d), req'[d] = req[d],
         issued' = issued \/ \E i \in Ids, p \in People :
                   issued[i] = Nobody /\ issued' = [issued EXCEPT ![i] = p]
  PROVE  Good(d)'
<1>1. \A f \in Files : Keys(f) \subseteq Keys(f)'
  BY KeysGrow DEF Files
<1>2. req[d] \in Requested  BY DEF Shape
<1>3. req[d].of \in Files  BY <1>2 DEF Requested
<1> QED  BY <1>1, <1>3 DEF Good, RequestOK

LEMMA QuietIsGood ==
  ASSUME NEW d \in Requests, req'[d] = Quiet
  PROVE  Good(d)'
BY DEF Good, RequestOK, Quiet, Files
-----------------------------------------------------------------------------
(* What each step does to the requests.                                     *)

IsReq == req' = [d \in Requests |-> req'[d]]
OthersStay(c) == IsReq /\ \A d \in Requests \ {c} : req'[d] = req[d]

Active == {"loading", "opening", "writing", "replacing"}

\* One request reads the file.
Reads(c) ==
  LET r == req[c]
      entries == Unread(file[r.of])
  IN  /\ r.pc = "loading" /\ OthersStay(c)
      /\ UNCHANGED <<file, tmp, state, issued, expired, given, exchanged>>
      /\ \/ /\ r.change = "add" \/ (r.change = "remove" /\ r.key \in entries)
            /\ req'[c] = [r EXCEPT !.pc = "opening", !.data = Changed(r, entries)]
            /\ overlap' = (overlap \/ \E d \in Requests : InWindow(req[d], r.of))
            /\ UNCHANGED ended
         \/ /\ r.change = "remove" /\ r.key \notin entries
            /\ \/ req'[c] = Quiet
               \/ /\ r.stage = "roles"
                  /\ req'[c] = [Quiet EXCEPT !.pc = "serving", !.who = r.who]
            /\ ended' = ended \cup {r.key} /\ UNCHANGED overlap
         \/ /\ r.change = "read" /\ UNCHANGED <<overlap, ended>>
            /\ \/ req'[c] = Quiet
               \/ /\ r.stage = "who"
                  /\ req'[c] = [r EXCEPT !.stage = "roles", !.who = issued[r.key]]
               \/ /\ r.stage # "who"
                  /\ req'[c] = [Quiet EXCEPT !.pc = "serving", !.who = r.who]
               \/ req'[c] = [r EXCEPT !.pc = "loading", !.of = "sessions",
                                      !.change = "remove", !.key = r.key]

LEMMA LoadEffect ==
  ASSUME Shape, NEW c \in Requests, Load(c) PROVE Reads(c)
<1>1. req \in [Requests -> Requested]  BY DEF Shape
<1> QED  BY <1>1 DEF Load, Reads, Begin, Resolves, OthersStay, IsReq

\* One request opens the .tmp, or writes it, or another file if it was moved.
Opens(c) ==
  /\ req[c].pc = "opening" /\ OthersStay(c)
  /\ req'[c] = [req[c] EXCEPT !.pc = "writing", !.at = "tmp"]
  /\ tmp' = [tmp EXCEPT ![req[c].of] = Torn]
  /\ UNCHANGED <<file, state, issued, expired, given, ended, exchanged, overlap>>

Writes(c) ==
  /\ req[c].pc = "writing" /\ OthersStay(c)
  /\ req'[c] = [req[c] EXCEPT !.pc = "replacing"]
  /\ \/ /\ req[c].at = "tmp" /\ UNCHANGED file
        /\ \E text \in Written(tmp[req[c].of], req[c].data) :
              tmp' = [tmp EXCEPT ![req[c].of] = text]
     \/ /\ req[c].at = "path" /\ UNCHANGED tmp
        /\ \E text \in Written(file[req[c].of], req[c].data) :
              file' = [file EXCEPT ![req[c].of] = text]
     \/ req[c].at = "gone" /\ UNCHANGED <<file, tmp>>
  /\ UNCHANGED <<state, issued, expired, given, ended, exchanged, overlap>>

LEMMA WriteEffect ==
  ASSUME Shape, NEW c \in Requests, Good(c)
  PROVE  (OpenTmp(c) => Opens(c)) /\ (WriteTmp(c) => Writes(c))
<1>1. req \in [Requests -> Requested]  BY DEF Shape
<1>2. req[c].pc = "writing" => req[c].at \in {"tmp", "path", "gone"}
  BY DEF Good, RequestOK
<1>3. OpenTmp(c) => Opens(c)  BY <1>1 DEF OpenTmp, Opens, OthersStay, IsReq
<1>4. ASSUME WriteTmp(c) PROVE Writes(c)
  BY <1>1, <1>2, <1>4 DEF WriteTmp, Writes, OthersStay, IsReq
<1> QED  BY <1>3, <1>4

\* One request puts the .tmp in the place of the file, and answers.
Replaces(c) ==
  LET r == req[c] IN
  /\ r.pc = "replacing" /\ tmp[r.of] # None
  /\ file' = [file EXCEPT ![r.of] = tmp[r.of]]
  /\ tmp' = [tmp EXCEPT ![r.of] = None]
  /\ IsReq /\ \A d \in Requests \ {c} : req'[d] = Moved(req[d], r.of)
  /\ \/ req'[c] = Quiet
     \/ /\ r.stage = "roles"
        /\ req'[c] = [Quiet EXCEPT !.pc = "serving", !.who = r.who]
  /\ given' = IF r.change = "add" THEN given \cup {r.key} ELSE given
  /\ ended' = IF r.change = "remove" THEN ended \cup {r.key} ELSE ended
  /\ UNCHANGED <<state, issued, expired, exchanged, overlap>>

LEMMA ReplaceEffect ==
  ASSUME Shape, NEW c \in Requests, Replace(c)
  PROVE  \/ Replaces(c)
         \/ /\ OthersStay(c) /\ req'[c] = Quiet
            /\ UNCHANGED <<file, tmp, state, issued, expired, given, ended, exchanged, overlap>>
<1>1. req \in [Requests -> Requested]  BY DEF Shape
<1>2. CASE tmp[req[c].of] = None
  BY <1>1, <1>2 DEF Replace, Answer, OthersStay, IsReq
<1>3. CASE tmp[req[c].of] # None
  BY <1>1, <1>3 DEF Replace, Replaces, IsReq
<1> QED  BY <1>2, <1>3

\* A session is minted, and is to be added to the file.
Mints(c) ==
  \E i \in Ids, p \in People, way \in {"orcid", "local", "operator"} :
     /\ issued[i] = Nobody /\ issued' = [issued EXCEPT ![i] = p]
     /\ req'[c] = [Quiet EXCEPT !.pc = "loading", !.of = "sessions",
                                !.change = "add", !.key = i, !.stage = way]
     /\ OthersStay(c) /\ req[c].pc \notin Active
     /\ UNCHANGED <<file, tmp, state, expired, given, ended, exchanged, overlap>>

LEMMA MintEffect ==
  ASSUME Shape, NEW c \in Requests
  PROVE  /\ Exchange(c) => Mints(c) \/ (req'[c] = Quiet /\ OthersStay(c) /\
               UNCHANGED <<file, tmp, state, issued, expired, given, ended, exchanged, overlap>>)
         /\ SignInLocally(c) => Mints(c)
         /\ IssueSession(c) => Mints(c)
<1>1. req \in [Requests -> Requested]  BY DEF Shape
<1>2. ASSUME NEW i \in Ids, NEW p \in People, NEW way \in {"orcid", "local", "operator"},
             Mint(c, i, p, way)
      PROVE  /\ issued[i] = Nobody /\ issued' = [issued EXCEPT ![i] = p]
             /\ req'[c] = [Quiet EXCEPT !.pc = "loading", !.of = "sessions",
                                !.change = "add", !.key = i, !.stage = way]
             /\ OthersStay(c)
  BY <1>1, <1>2 DEF Mint, Begin, OthersStay, IsReq, Quiet
<1>3. ASSUME Exchange(c)
      PROVE  Mints(c) \/ (req'[c] = Quiet /\ OthersStay(c) /\
               UNCHANGED <<file, tmp, state, issued, expired, given, ended, exchanged, overlap>>)
  <2>1. CASE Answer(c) /\ UNCHANGED issued
    BY <1>1, <1>3, <2>1 DEF Exchange, Answer, OthersStay, IsReq
  <2>2. CASE \E i \in Ids, p \in People : Mint(c, i, p, "orcid")
    BY <1>2, <1>3, <2>2 DEF Exchange, Mints, Active
  <2> QED  BY <1>3, <2>1, <2>2 DEF Exchange
<1>4. SignInLocally(c) => Mints(c)  BY <1>2 DEF SignInLocally, Mints, Active
<1>5. IssueSession(c) => Mints(c)  BY <1>2 DEF IssueSession, Mints, Active
<1> QED  BY <1>3, <1>4, <1>5

\* A request with a session begins: to read it, or to end it.
Names(c) ==
  \E i \in given \cap Ids :
     /\ \/ req'[c] = [Quiet EXCEPT !.pc = "loading", !.of = "sessions",
                                   !.change = "remove", !.key = i]
        \/ req'[c] = [Quiet EXCEPT !.pc = "loading", !.of = "sessions",
                                   !.change = "read", !.key = i, !.stage = "who"]
     /\ OthersStay(c) /\ req[c].pc = "idle"
     /\ UNCHANGED <<file, tmp, state, issued, expired, given, ended, exchanged, overlap>>

LEMMA NameEffect ==
  ASSUME Shape, NEW c \in Requests, NEW i \in Ids, Logout(c, i) \/ Visit(c, i)
  PROVE  Names(c)
<1>1. req \in [Requests -> Requested]  BY DEF Shape
<1>2. i \in given \cap Ids /\ req[c].pc = "idle"  BY DEF Logout, Visit
<1>3. CASE Logout(c, i)
  BY <1>1, <1>2, <1>3 DEF Logout, Names, Begin, Quiet, OthersStay, IsReq
<1>4. CASE Visit(c, i)
  BY <1>1, <1>2, <1>4 DEF Visit, Names, Begin, Quiet, OthersStay, IsReq
<1> QED  BY <1>3, <1>4

\* The repository's answer about a person is to be kept, or there is none.
Brings(c, s) ==
  /\ req[c].pc = "idle" /\ state[s].status = "out" /\ state[s].for \in People
  /\ state' = [state EXCEPT ![s].status = "spent"]
  /\ exchanged' = [exchanged EXCEPT ![s] = @ + 1]
  /\ \/ req'[c] = [Quiet EXCEPT !.pc = "loading", !.of = "delegations",
                                !.change = "add", !.key = state[s].for]
     \/ req'[c] = req[c]
  /\ OthersStay(c)
  /\ UNCHANGED <<file, tmp, issued, expired, given, ended, overlap>>

LEMMA BringEffect ==
  ASSUME Shape, NEW c \in Requests, NEW s \in States, RepositoryCallback(c, s)
  PROVE  Brings(c, s)
<1>1. req \in [Requests -> Requested] /\ state[s] \in Stated  BY DEF Shape
<1>2. state[s].for \in People /\ state[s].status = "out"
  BY <1>1 DEF RepositoryCallback, PendingFor, Stated
<1>3. [Quiet EXCEPT !.pc = "loading", !.of = "delegations",
                    !.change = "add", !.key = state[s].for] \in Requested
  BY <1>2, Basics DEF Quiet, Requested
<1>4. Begin(Quiet, "delegations", "add", state[s].for)
        = [Quiet EXCEPT !.pc = "loading", !.of = "delegations",
                        !.change = "add", !.key = state[s].for]
  BY DEF Begin, Quiet
<1>5. CASE req' = [req EXCEPT ![c] = Begin(Quiet, "delegations", "add", state[s].for)]
  BY <1>1, <1>2, <1>3, <1>4, <1>5 DEF RepositoryCallback, Brings, OthersStay, IsReq
<1>6. CASE UNCHANGED req
  BY <1>1, <1>2, <1>6 DEF RepositoryCallback, Brings, OthersStay, IsReq
<1> QED  BY <1>5, <1>6 DEF RepositoryCallback

\* The steps about a state parameter that comes back from the identity
\* provider, and those that change no file and no request but end some.
Takes(c, s) ==
  /\ req[c].pc = "idle" /\ state[s].status = "out" /\ state[s].for = Nobody
  /\ req'[c] = [req[c] EXCEPT !.pc = "discarding", !.st = s] /\ OthersStay(c)
  /\ UNCHANGED <<file, tmp, state, issued, expired, given, ended, exchanged, overlap>>

Spends(c) ==
  LET s == req[c].st IN
  /\ req[c].pc = "discarding"
  /\ state' = [state EXCEPT ![s].status = "spent"]
  /\ exchanged' = [exchanged EXCEPT ![s] = @ + 1]
  /\ req'[c] = [req[c] EXCEPT !.pc = "exchanging"] /\ OthersStay(c)
  /\ UNCHANGED <<file, tmp, issued, expired, given, ended, overlap>>

LEMMA CallbackEffect ==
  ASSUME Shape, NEW c \in Requests
  PROVE  /\ \A s \in States : Callback(c, s) => Takes(c, s)
         /\ Discard(c) => Spends(c)
<1>1. req \in [Requests -> Requested]  BY DEF Shape
<1>2. \A s \in States : Callback(c, s) => Takes(c, s)
  BY <1>1 DEF Callback, Pending, Takes, OthersStay, IsReq
<1>3. Discard(c) => Spends(c)
  BY <1>1 DEF Discard, Spends, OthersStay, IsReq
<1> QED  BY <1>2, <1>3

Ends ==
  /\ \A d \in Requests : req'[d] = req[d] \/ req'[d] = Quiet
  /\ req' \in [Requests -> Requested]
  /\ UNCHANGED <<file, tmp, issued, given, ended, exchanged, overlap>>

LEMMA EndEffect ==
  ASSUME Shape, NEW c \in Requests, NEW s \in States, NEW i \in Ids,
         Serve(c) \/ Die(c) \/ AuthoriseRepository(c, s) \/ Login(s) \/ Expire(i) \/ Restart
  PROVE  Ends
<1>1. req \in [Requests -> Requested] /\ Quiet \in Requested  BY Basics DEF Shape
<1>2. CASE Serve(c) \/ Die(c) \/ AuthoriseRepository(c, s)
  BY <1>1, <1>2 DEF Serve, Die, AuthoriseRepository, Answer, Ends
<1>3. CASE Login(s) \/ Expire(i)
  BY <1>1, <1>3 DEF Login, Expire, Ends
<1>4. CASE Restart  BY <1>1, <1>4 DEF Restart, Ends
<1> QED  BY <1>2, <1>3, <1>4

-----------------------------------------------------------------------------
(* Type correctness.                                                        *)

\* What a step of one request does to the types, given its own part.
LEMMA OneMoves ==
  ASSUME Types, Shape', NEW c \in Requests, OthersStay(c), Good(c)',
         issued' = issued \/ \E i \in Ids, p \in People :
                   issued[i] = Nobody /\ issued' = [issued EXCEPT ![i] = p]
  PROVE  \A d \in Requests : Good(d)'
<1> TAKE d \in Requests
<1>1. CASE d = c  BY <1>1
<1>2. CASE d # c
  BY <1>2, GoodStays DEF OthersStay, IsReq, Types
<1> QED  BY <1>1, <1>2

LEMMA IssuedStays ==
  ASSUME Types, given' = given, issued' = issued PROVE GivenIssued'
BY DEF Types, GivenIssued

LEMMA ReqShape ==
  ASSUME Shape, NEW c \in Requests, OthersStay(c), req'[c] \in Requested
  PROVE  req' \in [Requests -> Requested]
BY DEF Shape, OthersStay, IsReq

LEMMA KeysStay ==
  ASSUME issued' = issued
  PROVE  Keys("sessions")' = Keys("sessions") /\ Keys("delegations")' = Keys("delegations")
BY DEF Keys

\* What a request knows about the entry it is about.
LEMMA KeyTypes ==
  ASSUME Types, NEW c \in Requests, req[c].pc \in Active
  PROVE  /\ req[c] \in Requested /\ req[c].of \in Files
         /\ req[c].key \in Keys(req[c].of) /\ req[c].key \in Ids \cup People
         /\ req[c].change # "add" =>
               /\ req[c].of = "sessions"
               /\ req[c].key \in Ids /\ issued[req[c].key] \in People
         /\ req[c].of = "sessions" => req[c].key \in Ids
         /\ req[c].of = "delegations" => req[c].key \in People
<1>1. /\ Shape /\ Good(c) /\ req[c] \in Requested  BY DEF Types, Shape
<1>2. /\ req[c].key \in Keys(req[c].of) /\ req[c].of \in Files
      /\ req[c].change \in {"read", "add", "remove"}
      /\ (req[c].change # "add" => req[c].of = "sessions")
  BY <1>1 DEF Good, RequestOK, Active
<1>3. /\ Keys("sessions") = {i \in Ids : issued[i] # Nobody}
      /\ Keys("delegations") = People
      /\ Keys(req[c].of) \subseteq Ids \cup People
  BY <1>1, <1>2, KeysTypes
<1>4. \A i \in Ids : issued[i] \in People \cup {Nobody}  BY <1>1 DEF Shape
<1> QED  BY <1>1, <1>2, <1>3, <1>4

LEMMA ChangedTypes ==
  ASSUME Types, NEW c \in Requests, req[c].pc = "loading", req[c].change # "read"
  PROVE  /\ Changed(req[c], Unread(file[req[c].of])) \subseteq Keys(req[c].of)
         /\ Changed(req[c], Unread(file[req[c].of])) \in Contents
<1>1. /\ req[c].of \in Files /\ req[c].key \in Keys(req[c].of)
  BY KeyTypes DEF Active
<1>2. Unread(file[req[c].of]) \subseteq Keys(req[c].of)
  BY <1>1 DEF Types, FilesOK, Unread
<1>3. Keys(req[c].of) \subseteq Ids \cup People
  BY <1>1, KeysTypes DEF Types
<1> QED  BY <1>1, <1>2, <1>3 DEF Changed, Contents

LEMMA ServingTypes ==
  ASSUME NEW c \in Requests, NEW p \in People,
         req'[c] = [Quiet EXCEPT !.pc = "serving", !.who = p]
  PROVE  req'[c] \in Requested /\ Good(c)'
<1>1. PICK r : r = [Quiet EXCEPT !.pc = "serving", !.who = p]  OBVIOUS
<1>2. /\ r.pc = "serving" /\ r.of = "sessions" /\ r.change = "read"
      /\ r.stage = "none" /\ r.who = p
  BY <1>1 DEF Quiet
<1>3. r \in Requested  BY <1>1, Basics DEF Requested
<1>4. Good(c)'  BY <1>1, <1>2 DEF Good, RequestOK, Files
<1> QED  BY <1>1, <1>3, <1>4

LEMMA LoadTypes ==
  ASSUME Types, NEW c \in Requests, Reads(c) PROVE Types'
<1>1. /\ Shape /\ Good(c) /\ req[c] \in Requested
      /\ UNCHANGED <<issued, given, file, tmp>>
      /\ OthersStay(c) /\ req[c].pc = "loading"
  BY DEF Types, Shape, Reads
<1>2. /\ req[c].key \in Keys(req[c].of) /\ req[c].of \in Files
      /\ req[c].change # "add" =>
            /\ req[c].of = "sessions"
            /\ req[c].key \in Ids /\ issued[req[c].key] \in People
      /\ req[c].key \in Ids \cup People
  BY <1>1, KeyTypes DEF Active
<1>3. /\ (req[c].stage = "roles" => req[c].who \in People)
      /\ (req[c].change = "read" => req[c].stage \in {"who", "roles"})
      /\ req[c].stage \in {"none", "who", "roles", "orcid", "local", "operator"}
      /\ req[c].change \in {"read", "add", "remove"}
  BY <1>1 DEF Good, RequestOK
<1>4. Keys("sessions")' = Keys("sessions") /\ Keys("delegations")' = Keys("delegations")
  BY <1>1, KeysStay
<1> DEFINE D == Changed(req[c], Unread(file[req[c].of]))
<1>5. CASE /\ req[c].change # "read"
           /\ req'[c] = [req[c] EXCEPT !.pc = "opening", !.data = D]
           /\ overlap' \in BOOLEAN /\ ended' = ended
  <2>1. D \subseteq Keys(req[c].of) /\ D \in Contents  BY <1>1, <1>5, ChangedTypes
  <2> HIDE DEF D
  <2>2. req'[c] \in Requested  BY <1>1, <1>5, <2>1 DEF Requested
  <2>3. Good(c)'
    <3>1. /\ req'[c].pc = "opening" /\ req'[c].of = req[c].of /\ req'[c].data = D
          /\ req'[c].change = req[c].change /\ req'[c].key = req[c].key
          /\ req'[c].stage = req[c].stage /\ req'[c].who = req[c].who
      BY <1>1, <1>5 DEF Requested
    <3> QED  BY <1>2, <1>3, <1>4, <1>5, <2>1, <3>1 DEF Good, RequestOK, Files
  <2>4. Shape'
    BY <1>1, <1>5, <2>2, ReqShape DEF Shape, Reads
  <2> QED
    BY <1>1, <1>4, <2>3, <2>4, OneMoves, IssuedStays DEF Types, FilesOK, Files
<1>6. CASE /\ UNCHANGED overlap /\ ended' \subseteq ended \cup {req[c].key}
           /\ req[c].change # "add"
           /\ \/ req'[c] = Quiet
              \/ /\ req[c].stage = "roles"
                 /\ req'[c] = [Quiet EXCEPT !.pc = "serving", !.who = req[c].who]
  <2>1. req'[c] \in Requested /\ Good(c)'
    BY <1>3, <1>6, Basics, QuietIsGood, ServingTypes
  <2>3. Shape'
    BY <1>1, <1>2, <1>6, <2>1, ReqShape DEF Shape, Reads
  <2> QED
    BY <1>1, <1>4, <2>1, <2>3, OneMoves, IssuedStays DEF Types, FilesOK, Files
<1>7. CASE /\ UNCHANGED <<overlap, ended>> /\ req[c].change = "read"
           /\ \/ req'[c] = [req[c] EXCEPT !.stage = "roles", !.who = issued[req[c].key]]
              \/ req'[c] = [req[c] EXCEPT !.pc = "loading", !.of = "sessions",
                                          !.change = "remove", !.key = req[c].key]
  <2>1. req'[c] \in Requested
    <3>1. CASE req'[c] = [req[c] EXCEPT !.stage = "roles", !.who = issued[req[c].key]]
      <4>1. issued[req[c].key] \in People  BY <1>2, <1>7
      <4> QED  BY <1>1, <3>1, <4>1 DEF Requested
    <3>2. CASE req'[c] = [req[c] EXCEPT !.pc = "loading", !.of = "sessions",
                                        !.change = "remove", !.key = req[c].key]
      <4>1. req[c].key \in Ids \cup People /\ "sessions" \in Files
        BY <1>2 DEF Files
      <4> QED  BY <1>1, <3>2, <4>1 DEF Requested
    <3> QED  BY <1>7, <3>1, <3>2
  <2>2. /\ req'[c].pc = "loading" /\ req'[c].of = "sessions"
        /\ req'[c].change \in {"read", "remove"} /\ req'[c].key = req[c].key
        /\ req'[c].stage \in {"who", "roles"}
        /\ req'[c].stage = "roles" => req'[c].who \in People
    BY <1>1, <1>2, <1>3, <1>7 DEF Requested
  <2>3. Good(c)'
    BY <1>2, <1>4, <1>7, <2>2 DEF Good, RequestOK, Files
  <2>4. Shape'
    BY <1>1, <1>7, <2>1, ReqShape DEF Shape, Reads
  <2> QED
    BY <1>1, <1>4, <2>3, <2>4, OneMoves, IssuedStays DEF Types, FilesOK, Files
<1> QED
  BY <1>1, <1>3, <1>5, <1>6, <1>7 DEF Reads, Shape

LEMMA OpenTypes ==
  ASSUME Types, NEW c \in Requests, Opens(c) PROVE Types'
<1>1. /\ Shape /\ Good(c) /\ req[c] \in Requested
      /\ UNCHANGED <<issued, given, file>>
      /\ OthersStay(c) /\ req[c].pc = "opening" /\ req[c].of \in Files
      /\ tmp' = [tmp EXCEPT ![req[c].of] = Torn]
      /\ req'[c] = [req[c] EXCEPT !.pc = "writing", !.at = "tmp"]
  BY DEF Types, Shape, Opens, Good, RequestOK
<1>2. Keys("sessions")' = Keys("sessions") /\ Keys("delegations")' = Keys("delegations")
  BY <1>1, KeysStay
<1>3. req'[c] \in Requested  BY <1>1 DEF Requested
<1>4. /\ req'[c].pc = "writing" /\ req'[c].at = "tmp" /\ req'[c].of = req[c].of
      /\ req'[c].data = req[c].data /\ req'[c].change = req[c].change
      /\ req'[c].key = req[c].key /\ req'[c].stage = req[c].stage
      /\ req'[c].who = req[c].who
  BY <1>1 DEF Requested
<1>5. Good(c)'  BY <1>1, <1>2, <1>4 DEF Good, RequestOK, Files
<1>6. tmp' \in [Files -> Contents \cup {None, Torn}]  BY <1>1 DEF Shape
<1>7. Shape'  BY <1>1, <1>3, <1>6, ReqShape DEF Shape, Opens
<1>8. FilesOK'
  BY <1>1, <1>2 DEF Types, Shape, FilesOK, Files
<1> QED  BY <1>1, <1>5, <1>7, <1>8, OneMoves, IssuedStays DEF Types

LEMMA WriteTypes ==
  ASSUME Types, NEW c \in Requests, Writes(c) PROVE Types'
<1>1. /\ Shape /\ Good(c) /\ req[c] \in Requested
      /\ UNCHANGED <<issued, given>>
      /\ OthersStay(c) /\ req[c].pc = "writing" /\ req[c].of \in Files
      /\ req'[c] = [req[c] EXCEPT !.pc = "replacing"]
      /\ req[c].data \subseteq Keys(req[c].of) /\ req[c].data \in Contents
  <2>1. req[c] \in Requested  BY DEF Types, Shape
  <2>2. req[c].data \in Contents  BY <2>1 DEF Requested
  <2> QED  BY <2>1, <2>2 DEF Types, Shape, Writes, Good, RequestOK
<1>2. Keys("sessions")' = Keys("sessions") /\ Keys("delegations")' = Keys("delegations")
  BY <1>1, KeysStay
<1>3. req'[c] \in Requested  BY <1>1 DEF Requested
<1>4. /\ req'[c].pc = "replacing" /\ req'[c].of = req[c].of
      /\ req'[c].data = req[c].data /\ req'[c].change = req[c].change
      /\ req'[c].key = req[c].key /\ req'[c].stage = req[c].stage
      /\ req'[c].who = req[c].who
  BY <1>1 DEF Requested
<1>5. Good(c)'  BY <1>1, <1>2, <1>4 DEF Good, RequestOK, Files
<1>6. /\ tmp' = tmp \/ \E text \in {req[c].data, Torn} : tmp' = [tmp EXCEPT ![req[c].of] = text]
      /\ file' = file \/ \E text \in {req[c].data, Torn} : file' = [file EXCEPT ![req[c].of] = text]
  BY DEF Writes, Written
<1>7. /\ tmp' \in [Files -> Contents \cup {None, Torn}]
      /\ file' \in [Files -> Contents \cup {Torn}]
  BY <1>1, <1>6 DEF Shape
<1>8. Shape'  BY <1>1, <1>3, <1>7, ReqShape DEF Shape, Writes
<1>9. FilesOK'
  <2>1. \A f \in Files : tmp'[f] \in {tmp[f], Torn} \/ (f = req[c].of /\ tmp'[f] = req[c].data)
    BY <1>1, <1>6 DEF Shape
  <2>2. \A f \in Files : file'[f] \in {file[f], Torn} \/ (f = req[c].of /\ file'[f] = req[c].data)
    BY <1>1, <1>6 DEF Shape
  <2> QED  BY <1>1, <1>2, <2>1, <2>2 DEF Types, FilesOK, Files
<1> QED  BY <1>1, <1>5, <1>8, <1>9, OneMoves, IssuedStays DEF Types

LEMMA ReplaceTypes ==
  ASSUME Types, NEW c \in Requests, Replaces(c) PROVE Types'
<1>1. /\ Shape /\ Good(c) /\ req[c] \in Requested /\ UNCHANGED issued
      /\ req[c].pc = "replacing" /\ tmp[req[c].of] # None
      /\ file' = [file EXCEPT ![req[c].of] = tmp[req[c].of]]
      /\ tmp' = [tmp EXCEPT ![req[c].of] = None]
      /\ IsReq
  BY DEF Types, Shape, Replaces
<1>2. /\ req[c].of \in Files /\ req[c].key \in Keys(req[c].of)
      /\ req[c].key \in Ids \cup People
      /\ req[c].change # "add" => req[c].key \in Ids
      /\ req[c].of = "sessions" => req[c].key \in Ids
      /\ req[c].of = "delegations" => req[c].key \in People
  BY <1>1, KeyTypes DEF Active
<1>3. Keys("sessions")' = Keys("sessions") /\ Keys("delegations")' = Keys("delegations")
  BY <1>1, KeysStay
<1>4. req'[c] \in Requested /\ Good(c)'
  <2>1. req[c].stage = "roles" => req[c].who \in People
    BY <1>1 DEF Good, RequestOK
  <2> QED  BY <2>1, Basics, QuietIsGood, ServingTypes DEF Replaces
<1>5. ASSUME NEW d \in Requests \ {c} PROVE req'[d] \in Requested /\ Good(d)'
  <2>1. req[d] \in Requested /\ Good(d)  BY DEF Types, Shape
  <2>2. CASE req'[d] = req[d]
    BY <1>3, <2>1, <2>2 DEF Good, RequestOK, Files
  <2>3. CASE req'[d] # req[d]
    <3>1. /\ req[d].pc = "writing"
          /\ \E a \in {"path", "gone"} : req'[d] = [req[d] EXCEPT !.at = a]
      BY <2>3 DEF Replaces, Moved
    <3>2. PICK a \in {"path", "gone"} : req'[d] = [req[d] EXCEPT !.at = a]
      BY <3>1
    <3>3. req'[d] \in Requested  BY <2>1, <3>2 DEF Requested
    <3>4. /\ req'[d].pc = "writing" /\ req'[d].at = a /\ req'[d].of = req[d].of
          /\ req'[d].data = req[d].data /\ req'[d].change = req[d].change
          /\ req'[d].key = req[d].key /\ req'[d].stage = req[d].stage
          /\ req'[d].who = req[d].who
      BY <2>1, <3>1, <3>2 DEF Requested
    <3> QED  BY <1>3, <2>1, <3>1, <3>3, <3>4 DEF Good, RequestOK, Files
  <2> QED  BY <2>2, <2>3
<1>6. /\ file' \in [Files -> Contents \cup {Torn}]
      /\ tmp' \in [Files -> Contents \cup {None, Torn}]
  BY <1>1, <1>2 DEF Shape
<1>7. req' \in [Requests -> Requested]
  BY <1>1, <1>4, <1>5 DEF IsReq
<1>8. given' \subseteq Ids \cup People /\ ended' \subseteq Ids
  BY <1>1, <1>2 DEF Replaces, Shape
<1>9. Shape'  BY <1>1, <1>6, <1>7, <1>8 DEF Shape, Replaces
<1>10. FilesOK'
  BY <1>1, <1>2, <1>3 DEF Types, Shape, FilesOK, Files
<1>11. GivenIssued'
  <2>1. Keys("sessions") = {i \in Ids : issued[i] # Nobody}  BY <1>1, KeysTypes
  <2>2. ASSUME NEW i \in given' \cap Ids PROVE issued[i] # Nobody
    <3>1. CASE i \in given  BY <3>1 DEF Types, GivenIssued
    <3>2. CASE i \notin given
      <4>1. i = req[c].key  BY <3>2 DEF Replaces
      <4>2. req[c].of = "sessions"
        BY <1>2, <4>1, Basics DEF Files
      <4> QED  BY <1>2, <2>1, <4>1, <4>2
    <3> QED  BY <3>1, <3>2
  <2> QED  BY <1>1, <2>2 DEF GivenIssued
<1> QED  BY <1>4, <1>5, <1>9, <1>10, <1>11 DEF Types

LEMMA MintTypes ==
  ASSUME Types, NEW c \in Requests, Mints(c) PROVE Types'
<1>1. PICK i \in Ids, p \in People, way \in {"orcid", "local", "operator"} :
         /\ issued[i] = Nobody /\ issued' = [issued EXCEPT ![i] = p]
         /\ req'[c] = [Quiet EXCEPT !.pc = "loading", !.of = "sessions",
                                    !.change = "add", !.key = i, !.stage = way]
         /\ OthersStay(c)
         /\ UNCHANGED <<file, tmp, state, expired, given, ended, exchanged, overlap>>
  BY DEF Mints
<1>2. PICK r : r = [Quiet EXCEPT !.pc = "loading", !.of = "sessions",
                                 !.change = "add", !.key = i, !.stage = way]
  OBVIOUS
<1>3. r \in Requested  BY <1>2, Basics DEF Requested
<1>4. /\ r.pc = "loading" /\ r.of = "sessions" /\ r.change = "add" /\ r.key = i
      /\ r.stage = way
  BY <1>2 DEF Quiet
<1>5. issued' \in [Ids -> People \cup {Nobody}] /\ issued'[i] # Nobody
  BY <1>1, Basics DEF Types, Shape
<1>6. Shape'
  BY <1>1, <1>2, <1>3, <1>5, ReqShape DEF Types, Shape
<1>7. /\ Keys("sessions") \subseteq Keys("sessions")'
      /\ Keys("delegations")' = Keys("delegations")
  BY <1>1, <1>6, KeysGrow DEF Types
<1>8. i \in Keys("sessions")'  BY <1>5 DEF Keys
<1>9. Good(c)'  BY <1>1, <1>2, <1>4, <1>8 DEF Good, RequestOK, Files
<1>10. GivenIssued'
  BY <1>1, <1>5 DEF Types, Shape, GivenIssued
<1>11. FilesOK'
  BY <1>1, <1>7 DEF Types, FilesOK, Files
<1> QED  BY <1>1, <1>6, <1>9, <1>10, <1>11, OneMoves DEF Types

LEMMA NameTypes ==
  ASSUME Types, NEW c \in Requests, Names(c) PROVE Types'
<1>1. PICK i \in given \cap Ids :
         /\ \/ req'[c] = [Quiet EXCEPT !.pc = "loading", !.of = "sessions",
                                       !.change = "remove", !.key = i]
            \/ req'[c] = [Quiet EXCEPT !.pc = "loading", !.of = "sessions",
                                       !.change = "read", !.key = i, !.stage = "who"]
         /\ OthersStay(c)
         /\ UNCHANGED <<file, tmp, state, issued, expired, given, ended, exchanged, overlap>>
  BY DEF Names
<1>2. PICK r : /\ r = req'[c]
               /\ \/ r = [Quiet EXCEPT !.pc = "loading", !.of = "sessions",
                                       !.change = "remove", !.key = i]
                  \/ r = [Quiet EXCEPT !.pc = "loading", !.of = "sessions",
                                       !.change = "read", !.key = i, !.stage = "who"]
  BY <1>1
<1>3. r \in Requested
  <2>1. CASE r = [Quiet EXCEPT !.pc = "loading", !.of = "sessions",
                               !.change = "remove", !.key = i]
    BY <2>1, Basics DEF Requested
  <2>2. CASE r = [Quiet EXCEPT !.pc = "loading", !.of = "sessions",
                               !.change = "read", !.key = i, !.stage = "who"]
    BY <2>2, Basics DEF Requested
  <2> QED  BY <1>2, <2>1, <2>2
<1>4. /\ r.pc = "loading" /\ r.of = "sessions" /\ r.change \in {"read", "remove"}
      /\ r.key = i /\ r.stage \in {"none", "who"}
      /\ r.change = "read" => r.stage = "who"
  BY <1>2 DEF Quiet
<1>5. Shape'  BY <1>1, <1>2, <1>3, ReqShape DEF Types, Shape
<1>6. Keys("sessions")' = Keys("sessions") /\ Keys("delegations")' = Keys("delegations")
  BY <1>1, KeysStay
<1>7. i \in Keys("sessions")  BY DEF Types, GivenIssued, Keys
<1>8. Good(c)'  BY <1>1, <1>2, <1>4, <1>6, <1>7 DEF Good, RequestOK, Files
<1>9. FilesOK'
  BY <1>1, <1>6 DEF Types, FilesOK, Files
<1> QED  BY <1>1, <1>5, <1>8, <1>9, OneMoves, IssuedStays DEF Types

LEMMA BringTypes ==
  ASSUME Types, NEW c \in Requests, NEW s \in States, Brings(c, s) PROVE Types'
<1>1. /\ state[s].for \in People /\ OthersStay(c)
      /\ UNCHANGED <<file, tmp, issued, expired, given, ended, overlap>>
      /\ state \in [States -> Stated] /\ exchanged \in [States -> Nat]
      /\ state' = [state EXCEPT ![s].status = "spent"]
      /\ exchanged' = [exchanged EXCEPT ![s] = @ + 1]
      /\ Good(c) /\ req[c] \in Requested
  BY DEF Brings, Types, Shape
<1>2. state' \in [States -> Stated] /\ exchanged' \in [States -> Nat]
  BY <1>1 DEF Stated
<1>3. Keys("sessions")' = Keys("sessions") /\ Keys("delegations")' = Keys("delegations")
  BY <1>1, KeysStay
<1>4. req'[c] \in Requested /\ Good(c)'
  <2>1. CASE req'[c] = req[c]
    BY <1>1, <1>3, <2>1 DEF Good, RequestOK, Files
  <2>2. CASE req'[c] # req[c]
    <3>1. PICK p \in People :
             req'[c] = [Quiet EXCEPT !.pc = "loading", !.of = "delegations",
                                     !.change = "add", !.key = p]
      BY <1>1, <2>2 DEF Brings
    <3>2. PICK r : r = [Quiet EXCEPT !.pc = "loading", !.of = "delegations",
                                     !.change = "add", !.key = p]
      OBVIOUS
    <3>3. r \in Requested  BY <3>2, Basics DEF Requested
    <3>4. /\ r.pc = "loading" /\ r.of = "delegations" /\ r.change = "add" /\ r.key = p
          /\ r.stage = "none"
      BY <3>2 DEF Quiet
    <3>5. p \in Keys("delegations")  BY DEF Keys
    <3> QED  BY <1>3, <3>1, <3>2, <3>3, <3>4, <3>5 DEF Good, RequestOK, Files
  <2> QED  BY <2>1, <2>2
<1>5. Shape'  BY <1>1, <1>2, <1>4, ReqShape DEF Types, Shape
<1>6. FilesOK'  BY <1>1, <1>3 DEF Types, FilesOK, Files
<1> QED  BY <1>1, <1>4, <1>5, <1>6, OneMoves, IssuedStays DEF Types

LEMMA TakeTypes ==
  ASSUME Types, NEW c \in Requests, NEW s \in States, Takes(c, s) PROVE Types'
<1>1. /\ OthersStay(c) /\ Good(c) /\ req[c] \in Requested
      /\ UNCHANGED <<file, tmp, state, issued, expired, given, ended, exchanged>>
      /\ req'[c] = [req[c] EXCEPT !.pc = "discarding", !.st = s] /\ req[c].pc = "idle"
      /\ overlap' \in BOOLEAN
  BY DEF Takes, Types, Shape
<1>2. req'[c] \in Requested  BY <1>1 DEF Requested
<1>3. /\ req'[c].pc = "discarding" /\ req'[c].st = s /\ req'[c].of = req[c].of
      /\ req'[c].change = req[c].change /\ req'[c].stage = req[c].stage
      /\ req'[c].who = req[c].who
  BY <1>1 DEF Requested
<1>4. Good(c)'  BY <1>1, <1>3 DEF Good, RequestOK
<1>5. Shape'  BY <1>1, <1>2, ReqShape DEF Types, Shape
<1>6. FilesOK'  BY <1>1, KeysStay DEF Types, FilesOK, Files
<1> QED  BY <1>1, <1>4, <1>5, <1>6, OneMoves, IssuedStays DEF Types

LEMMA SpendTypes ==
  ASSUME Types, NEW c \in Requests, Spends(c) PROVE Types'
<1>1. /\ OthersStay(c) /\ Good(c) /\ req[c] \in Requested
      /\ UNCHANGED <<file, tmp, issued, expired, given, ended, overlap>>
      /\ req'[c] = [req[c] EXCEPT !.pc = "exchanging"] /\ req[c].pc = "discarding"
      /\ state \in [States -> Stated] /\ exchanged \in [States -> Nat]
  BY DEF Spends, Types, Shape
<1>2. PICK s \in States : s = req[c].st  BY <1>1 DEF Good, RequestOK
<1>3. state' \in [States -> Stated] /\ exchanged' \in [States -> Nat]
  BY <1>1, <1>2 DEF Spends, Stated
<1>4. req'[c] \in Requested  BY <1>1 DEF Requested
<1>5. /\ req'[c].pc = "exchanging" /\ req'[c].st = req[c].st /\ req'[c].of = req[c].of
      /\ req'[c].change = req[c].change /\ req'[c].stage = req[c].stage
      /\ req'[c].who = req[c].who
  BY <1>1 DEF Requested
<1>6. Good(c)'  BY <1>1, <1>5 DEF Good, RequestOK
<1>7. Shape'  BY <1>1, <1>3, <1>4, ReqShape DEF Types, Shape
<1>8. FilesOK'  BY <1>1, KeysStay DEF Types, FilesOK, Files
<1> QED  BY <1>1, <1>6, <1>7, <1>8, OneMoves, IssuedStays DEF Types

LEMMA EndTypes ==
  ASSUME Types, Ends, state' \in [States -> Stated], expired' \subseteq Ids
  PROVE  Types'
<1>1. /\ UNCHANGED <<file, tmp, issued, given, ended, exchanged, overlap>>
      /\ req' \in [Requests -> Requested]
  BY DEF Ends
<1>2. Shape'  BY <1>1 DEF Types, Shape
<1>3. \A d \in Requests : Good(d)'
  <2> TAKE d \in Requests
  <2>1. CASE req'[d] = Quiet  BY <2>1, QuietIsGood
  <2>2. CASE req'[d] = req[d]  BY <1>1, <1>2, <2>2, GoodStays DEF Types
  <2> QED  BY <2>1, <2>2 DEF Ends
<1>4. FilesOK'  BY <1>1, KeysStay DEF Types, FilesOK, Files
<1> QED  BY <1>1, <1>2, <1>3, <1>4, IssuedStays DEF Types

\* Every step is one of these.
Moves ==
  \/ \E c \in Requests :
        \/ Reads(c) \/ Opens(c) \/ Writes(c) \/ Replaces(c)
        \/ Mints(c) \/ Names(c) \/ Spends(c)
        \/ \E s \in States : Brings(c, s) \/ Takes(c, s)
  \/ Ends /\ state' = state
  \/ /\ Ends
     /\ \E s \in States, p \in People \cup {Nobody} :
           /\ state[s] = [status |-> "fresh", for |-> Nobody]
           /\ state' = [state EXCEPT ![s] = [status |-> "out", for |-> p]]
  \/ /\ Ends /\ req' = [c \in Requests |-> Quiet]
     /\ state' = [s \in States |->
          IF state[s].status = "out" THEN [state[s] EXCEPT !.status = "lost"] ELSE state[s]]

LEMMA StepKinds ==
  ASSUME Types, [Next]_vars PROVE Moves /\ expired' \subseteq Ids /\ expired \subseteq expired'
<1>0. Shape /\ \A c \in Requests : Good(c)  BY DEF Types
<1>1. ASSUME NEW c \in Requests, Load(c) \/ OpenTmp(c) \/ WriteTmp(c)
      PROVE  Moves /\ UNCHANGED expired
  <2>1. Reads(c) \/ Opens(c) \/ Writes(c)
    BY <1>0, <1>1, LoadEffect, WriteEffect
  <2> QED  BY <2>1 DEF Moves, Reads, Opens, Writes
<1>2. ASSUME NEW c \in Requests, Replace(c) PROVE Moves /\ UNCHANGED expired
  <2>1. \/ Replaces(c)
        \/ /\ OthersStay(c) /\ req'[c] = Quiet
           /\ UNCHANGED <<file, tmp, state, issued, expired, given, ended, exchanged, overlap>>
    BY <1>0, <1>2, ReplaceEffect
  <2>2. CASE Replaces(c)  BY <2>2 DEF Moves, Replaces
  <2>3. CASE /\ OthersStay(c) /\ req'[c] = Quiet
             /\ UNCHANGED <<file, tmp, state, issued, expired, given, ended, exchanged, overlap>>
    <3>1. req' \in [Requests -> Requested]  BY <1>0, <2>3, ReqShape, Basics
    <3> QED  BY <2>3, <3>1 DEF Moves, Ends, OthersStay
  <2> QED  BY <2>1, <2>2, <2>3
<1>3. ASSUME NEW c \in Requests, Exchange(c) \/ SignInLocally(c) \/ IssueSession(c)
      PROVE  Moves /\ UNCHANGED expired
  <2>1. \/ Mints(c)
        \/ /\ OthersStay(c) /\ req'[c] = Quiet
           /\ UNCHANGED <<file, tmp, state, issued, expired, given, ended, exchanged, overlap>>
    BY <1>0, <1>3, MintEffect
  <2>2. CASE Mints(c)  BY <2>2 DEF Moves, Mints
  <2>3. CASE /\ OthersStay(c) /\ req'[c] = Quiet
             /\ UNCHANGED <<file, tmp, state, issued, expired, given, ended, exchanged, overlap>>
    <3>1. req' \in [Requests -> Requested]  BY <1>0, <2>3, ReqShape, Basics
    <3> QED  BY <2>3, <3>1 DEF Moves, Ends, OthersStay
  <2> QED  BY <2>1, <2>2, <2>3
<1>4. ASSUME NEW c \in Requests, NEW i \in Ids, Logout(c, i) \/ Visit(c, i)
      PROVE  Moves /\ UNCHANGED expired
  BY <1>0, <1>4, NameEffect DEF Moves, Names
<1>5. ASSUME NEW c \in Requests, NEW s \in States, RepositoryCallback(c, s)
      PROVE  Moves /\ UNCHANGED expired
  BY <1>0, <1>5, BringEffect DEF Moves, Brings
<1>6. ASSUME NEW c \in Requests, NEW s \in States, Callback(c, s)
      PROVE  Moves /\ UNCHANGED expired
  BY <1>0, <1>6, CallbackEffect DEF Moves, Takes
<1>7. ASSUME NEW c \in Requests, Discard(c) PROVE Moves /\ UNCHANGED expired
  BY <1>0, <1>7, CallbackEffect DEF Moves, Spends
<1>8. Quiet \in Requested /\ req \in [Requests -> Requested] /\ expired \subseteq Ids
      /\ state \in [States -> Stated]
  BY <1>0, Basics DEF Shape
<1>9. ASSUME NEW c \in Requests, Serve(c) \/ Die(c) PROVE Moves /\ UNCHANGED expired
  BY <1>8, <1>9 DEF Serve, Die, Answer, Ends, Moves
<1>10. ASSUME NEW c \in Requests, NEW s \in States, AuthoriseRepository(c, s)
       PROVE  Moves /\ UNCHANGED expired
  <2>1. req[c].pc = "serving"  BY <1>10 DEF AuthoriseRepository
  <2>2. req[c].who \in People  BY <1>0, <2>1 DEF Good, RequestOK
  <2>3. Ends /\ UNCHANGED expired
    BY <1>8, <1>10 DEF AuthoriseRepository, Answer, Ends
  <2> QED  BY <1>10, <2>2, <2>3 DEF AuthoriseRepository, Fresh, Moves
<1>11. ASSUME NEW s \in States, Login(s) PROVE Moves /\ UNCHANGED expired
  <2>1. Ends /\ UNCHANGED expired  BY <1>8, <1>11 DEF Login, Ends
  <2>2. state[s] = [status |-> "fresh", for |-> Nobody]
    BY <1>11 DEF Login, Fresh
  <2>3. state' = [state EXCEPT ![s] = [status |-> "out", for |-> Nobody]]
    <3>1. PICK t : t = state[s]  OBVIOUS
    <3>2. [t EXCEPT !.status = "out"] = [status |-> "out", for |-> Nobody]
      BY <3>1, <2>2
    <3> QED  BY <1>8, <1>11, <3>1, <3>2 DEF Login
  <2> QED  BY <2>1, <2>2, <2>3 DEF Moves
<1>12. ASSUME NEW i \in Ids, Expire(i) PROVE Moves /\ expired' = expired \cup {i}
  BY <1>8, <1>12 DEF Expire, Ends, Moves
<1>13. CASE Restart
  BY <1>8, <1>13 DEF Restart, Ends, Moves
<1>14. CASE UNCHANGED vars
  BY <1>8, <1>14 DEF vars, Ends, Moves
<1> QED
  BY <1>1, <1>2, <1>3, <1>4, <1>5, <1>6, <1>7, <1>8, <1>9, <1>10, <1>11, <1>12,
     <1>13, <1>14 DEF Next

LEMMA TypeSteps ==
  ASSUME Types, [Next]_vars PROVE Types'
<1>1. Moves /\ expired' \subseteq Ids  BY StepKinds
<1>2. ASSUME Ends, state' = state \/ (\E s \in States, p \in People \cup {Nobody} :
                 state' = [state EXCEPT ![s] = [status |-> "out", for |-> p]])
      PROVE  Types'
  <2>1. state' \in [States -> Stated]  BY <1>2 DEF Types, Shape, Stated
  <2> QED  BY <1>1, <1>2, <2>1, EndTypes
<1>3. ASSUME Ends, state' = [s \in States |->
          IF state[s].status = "out" THEN [state[s] EXCEPT !.status = "lost"] ELSE state[s]]
      PROVE  Types'
  <2>1. state' \in [States -> Stated]  BY <1>3 DEF Types, Shape, Stated
  <2> QED  BY <1>1, <1>3, <2>1, EndTypes
<1> QED
  BY <1>1, <1>2, <1>3, LoadTypes, OpenTypes, WriteTypes, ReplaceTypes, MintTypes,
     NameTypes, BringTypes, TakeTypes, SpendTypes DEF Moves

LEMMA InitTypes == Init => Types
<1> SUFFICES ASSUME Init PROVE Types  OBVIOUS
<1>1. Shape  BY Basics DEF Init, Shape, Stated, Fresh, Contents
<1>2. \A d \in Requests : Good(d)
  BY DEF Init, Good, RequestOK, Quiet, Files
<1>3. GivenIssued /\ FilesOK  BY DEF Init, GivenIssued, FilesOK
<1> QED  BY <1>1, <1>2, <1>3 DEF Types

\* Whatever is read back from a file is a session somebody was given or a
\* person who authorised the service, and every request is in one of its states.
THEOREM TypeCorrect == Spec => []TypeOK
<1>1. Types => TypeOK
  <2> SUFFICES ASSUME Types PROVE TypeOK  OBVIOUS
  <2>1. \A s \in States : state[s] \in Stated  BY DEF Types, Shape
  <2>2. \A s \in States : state[s].status \in {"fresh", "out", "spent", "lost"} /\
                          state[s].for \in People \cup {Nobody}
    BY <2>1 DEF Stated
  <2> QED  BY <2>2 DEF Types, Shape, FilesOK, Good, TypeOK
<1> QED  BY <1>1, InitTypes, TypeSteps, PTL DEF Spec
-----------------------------------------------------------------------------
(* What was answered for is kept, and what was ended stays ended.  While no *)
(* two requests have been on one file at once, the one that is on a file    *)
(* has the only .tmp, and writes back what it has read and its own change.  *)

Window == {"opening", "writing", "replacing"}

Alone ==
  \A c, d \in Requests :
     req[c].pc \in Window /\ req[d].pc \in Window /\ req[c].of = req[d].of => c = d

Exact(c) ==
  req[c].pc \in Window =>
     /\ req[c].data = Changed(req[c], Unread(file[req[c].of]))
     /\ req[c].pc = "writing" => req[c].at = "tmp" /\ tmp[req[c].of] = Torn
     /\ req[c].pc = "replacing" => tmp[req[c].of] = req[c].data

Undisturbed == overlap \/ (Alone /\ \A c \in Requests : Exact(c))

\* A session that is to be added has not been answered for, and is added by
\* one request; one that is read or ended has been.
Adds(c) == req[c].pc \in Active /\ req[c].change = "add" /\ req[c].of = "sessions"
Bearer(c) == /\ Adds(c) => req[c].key \notin given
             /\ req[c].pc \in Active /\ req[c].change # "add" => req[c].key \in given
Minted == \A c, d \in Requests : Adds(c) /\ Adds(d) /\ req[c].key = req[d].key => c = d
Bearers == (\A c \in Requests : Bearer(c)) /\ Minted

FileInv == /\ Undisturbed /\ Bearers /\ ended \subseteq given
           /\ AnsweredIsKept /\ EndedStaysEnded

LEMMA UndisturbedStays ==
  ASSUME Undisturbed, overlap \in BOOLEAN, overlap => overlap', UNCHANGED <<file, tmp>>,
         \A d \in Requests : req'[d] = req[d] \/ req'[d].pc \notin Window
  PROVE  Undisturbed'
<1> SUFFICES ASSUME ~overlap' PROVE Alone' /\ \A d \in Requests : Exact(d)'
  BY DEF Undisturbed
<1>1. Alone /\ \A d \in Requests : Exact(d)  BY DEF Undisturbed
<1>2. Alone'  BY <1>1 DEF Alone
<1>3. ASSUME NEW d \in Requests PROVE Exact(d)'
  <2>1. CASE req'[d] = req[d]  BY <1>1, <2>1 DEF Exact, Changed
  <2>2. CASE req'[d].pc \notin Window  BY <2>2 DEF Exact
  <2> QED  BY <2>1, <2>2
<1> QED  BY <1>2, <1>3

LEMMA BearersStay ==
  ASSUME Bearers, given' = given,
         \A d \in Requests :
            \/ req'[d].pc \notin Active
            \/ /\ req[d].pc \in Active /\ req'[d].of = req[d].of
               /\ req'[d].change = req[d].change /\ req'[d].key = req[d].key
            \/ req'[d] = req[d]
  PROVE  Bearers'
BY DEF Bearers, Bearer, Minted, Adds

LEMMA AnswersStay ==
  ASSUME FileInv, overlap \in BOOLEAN, overlap => overlap', UNCHANGED <<file, given>>,
         expired \subseteq expired', ended' = ended
  PROVE  AnsweredIsKept' /\ EndedStaysEnded' /\ ended' \subseteq given'
BY DEF FileInv, AnsweredIsKept, EndedStaysEnded

LEMMA QuietPhase ==
  Quiet.pc = "idle" /\ \A p : [Quiet EXCEPT !.pc = "serving", !.who = p].pc = "serving"
BY DEF Quiet

LEMMA QuietPhases ==
  ASSUME NEW c \in Requests,
         req'[c] = Quiet \/ req'[c] = [Quiet EXCEPT !.pc = "serving", !.who = req[c].who]
  PROVE  req'[c].pc \in {"idle", "serving"}
<1>1. CASE req'[c] = Quiet  BY <1>1 DEF Quiet
<1>2. CASE req'[c] = [Quiet EXCEPT !.pc = "serving", !.who = req[c].who]
  BY <1>2 DEF Quiet
<1> QED  BY <1>1, <1>2

\* The steps that write no file and answer for nothing.
LEMMA QuietSteps ==
  ASSUME Types, FileInv, expired \subseteq expired', overlap => overlap',
         UNCHANGED <<file, tmp, given, ended>>,
         \A d \in Requests : req'[d] = req[d] \/ req'[d].pc \notin Window,
         Bearers'
  PROVE  FileInv'
<1>1. overlap \in BOOLEAN  BY DEF Types, Shape
<1>2. Undisturbed'  BY <1>1, UndisturbedStays DEF FileInv
<1>3. AnsweredIsKept' /\ EndedStaysEnded' /\ ended' \subseteq given'
  BY <1>1, AnswersStay
<1> QED  BY <1>2, <1>3 DEF FileInv

LEMMA ReadKeeps ==
  ASSUME Types, FileInv, NEW c \in Requests, Reads(c) PROVE FileInv'
<1>1. /\ req[c] \in Requested /\ OthersStay(c) /\ req[c].pc = "loading"
      /\ UNCHANGED <<file, tmp, issued, expired, given>>
      /\ req[c].pc \in Active /\ overlap \in BOOLEAN
      /\ req[c].change # "add" =>
            req[c].key \in given /\ req[c].of = "sessions" /\ req[c].key \in Ids
  <2>1. req[c].pc \in Active  BY DEF Reads, Active
  <2>2. req[c].change # "add" => req[c].of = "sessions" /\ req[c].key \in Ids
    BY <2>1, KeyTypes
  <2> QED  BY <2>1, <2>2 DEF Reads, Types, Shape, FileInv, Bearers, Bearer
<1> DEFINE D == Changed(req[c], Unread(file[req[c].of]))
<1>2. CASE /\ req'[c] = [req[c] EXCEPT !.pc = "opening", !.data = D]
           /\ overlap' = (overlap \/ \E d \in Requests : InWindow(req[d], req[c].of))
           /\ UNCHANGED ended
  <2>1. PICK e : e = D  OBVIOUS
  <2>2. /\ req'[c].pc = "opening" /\ req'[c].of = req[c].of /\ req'[c].key = req[c].key
        /\ req'[c].change = req[c].change /\ req'[c].data = e
    BY <1>1, <1>2, <2>1 DEF Requested
  <2>3. Bearers'
    BY <1>1, <2>2, BearersStay DEF FileInv, OthersStay
  <2>4. Undisturbed'
    <3> SUFFICES ASSUME ~overlap' PROVE Alone' /\ \A d \in Requests : Exact(d)'
      BY DEF Undisturbed
    <3>1. ~overlap /\ \A d \in Requests : ~InWindow(req[d], req[c].of)
      BY <1>1, <1>2
    <3>2. Alone /\ \A d \in Requests : Exact(d)
      BY <3>1 DEF FileInv, Undisturbed
    <3>3. \A d \in Requests : req[d].pc \in Window => req[d].of # req[c].of
      BY <3>1 DEF InWindow, Window
    <3>4. Alone'  BY <1>1, <2>2, <3>2, <3>3 DEF Alone, OthersStay
    <3>5. Exact(c)'
      <4>1. Changed(req'[c], Unread(file'[req'[c].of])) = D
        BY <1>1, <2>2 DEF Changed
      <4> QED  BY <2>1, <2>2, <4>1 DEF Exact
    <3>6. ASSUME NEW d \in Requests \ {c} PROVE Exact(d)'
      BY <1>1, <3>2 DEF Exact, OthersStay, Changed
    <3> QED  BY <3>4, <3>5, <3>6
  <2>5. AnsweredIsKept' /\ EndedStaysEnded' /\ ended' \subseteq given'
    BY <1>1, <1>2, AnswersStay
  <2> QED  BY <2>3, <2>4, <2>5 DEF FileInv
<1>3. CASE /\ req[c].change = "remove" /\ req[c].key \notin Unread(file[req[c].of])
           /\ \/ req'[c] = Quiet
              \/ /\ req[c].stage = "roles"
                 /\ req'[c] = [Quiet EXCEPT !.pc = "serving", !.who = req[c].who]
           /\ ended' = ended \cup {req[c].key} /\ UNCHANGED overlap
  <2>1. req'[c].pc \in {"idle", "serving"}  BY <1>3, QuietPhases
  <2>2. Bearers'
    BY <1>1, <2>1, BearersStay DEF FileInv, OthersStay, Active
  <2>3. Undisturbed'
    BY <1>1, <1>3, <2>1, UndisturbedStays DEF FileInv, OthersStay, Window
  <2>4. ended' \subseteq given' /\ AnsweredIsKept' /\ EndedStaysEnded'
    BY <1>1, <1>3 DEF FileInv, AnsweredIsKept, EndedStaysEnded
  <2> QED  BY <2>2, <2>3, <2>4 DEF FileInv
<1>4. CASE /\ req[c].change = "read" /\ UNCHANGED <<overlap, ended>>
           /\ \/ req'[c] = Quiet
              \/ req'[c] = [req[c] EXCEPT !.stage = "roles", !.who = issued[req[c].key]]
              \/ req'[c] = [Quiet EXCEPT !.pc = "serving", !.who = req[c].who]
              \/ req'[c] = [req[c] EXCEPT !.pc = "loading", !.of = "sessions",
                                          !.change = "remove", !.key = req[c].key]
  <2>1. \/ req'[c].pc \in {"idle", "serving"}
        \/ /\ req'[c].pc = "loading" /\ req'[c].of = req[c].of
           /\ req'[c].change \in {"read", "remove"} /\ req'[c].key = req[c].key
    <3>1. CASE \/ req'[c] = Quiet
               \/ req'[c] = [Quiet EXCEPT !.pc = "serving", !.who = req[c].who]
      BY <3>1, QuietPhase
    <3>2. CASE req'[c] = [req[c] EXCEPT !.stage = "roles", !.who = issued[req[c].key]]
      BY <1>1, <1>4, <3>2 DEF Requested
    <3>3. CASE req'[c] = [req[c] EXCEPT !.pc = "loading", !.of = "sessions",
                                        !.change = "remove", !.key = req[c].key]
      BY <1>1, <1>4, <3>3 DEF Requested
    <3> QED  BY <1>4, <3>1, <3>2, <3>3
  <2>2. Bearers'
    BY <1>1, <1>4, <2>1 DEF FileInv, Bearers, Bearer, Minted, Adds, OthersStay, Active
  <2> QED
    BY <1>1, <1>4, <2>1, <2>2, QuietSteps DEF OthersStay, Window
<1> QED  BY <1>2, <1>3, <1>4 DEF Reads

LEMMA OpenKeeps ==
  ASSUME Types, FileInv, NEW c \in Requests, Opens(c) PROVE FileInv'
<1>1. /\ req[c] \in Requested /\ OthersStay(c) /\ req[c].pc = "opening"
      /\ UNCHANGED <<file, expired, given, ended, overlap>>
      /\ tmp' = [tmp EXCEPT ![req[c].of] = Torn] /\ overlap \in BOOLEAN
      /\ req'[c] = [req[c] EXCEPT !.pc = "writing", !.at = "tmp"]
      /\ req[c].of \in Files /\ DOMAIN tmp = Files
  BY KeyTypes DEF Opens, Types, Shape, Active
<1>2. /\ req'[c].pc = "writing" /\ req'[c].at = "tmp" /\ req'[c].of = req[c].of
      /\ req'[c].key = req[c].key /\ req'[c].change = req[c].change
      /\ req'[c].data = req[c].data
  BY <1>1 DEF Requested
<1>3. Bearers'  BY <1>1, <1>2, BearersStay DEF FileInv, OthersStay, Active
<1>4. Undisturbed'
  <2> SUFFICES ASSUME ~overlap PROVE Alone' /\ \A d \in Requests : Exact(d)'
    BY <1>1 DEF Undisturbed
  <2>1. Alone /\ \A d \in Requests : Exact(d)  BY DEF FileInv, Undisturbed
  <2>2. Alone'
    <3>1. \A d \in Requests : /\ req'[d].pc \in Window => req[d].pc \in Window
                              /\ req'[d].of = req[d].of
      BY <1>1, <1>2 DEF OthersStay, Window
    <3> QED  BY <2>1, <3>1 DEF Alone
  <2>3. Exact(c)'
    BY <1>1, <1>2, <2>1 DEF Exact, Changed, Window
  <2>4. ASSUME NEW d \in Requests \ {c} PROVE Exact(d)'
    <3>1. req'[d] = req[d]  BY <1>1 DEF OthersStay
    <3>2. req[d].pc \in Window => req[d].of # req[c].of
      BY <1>1, <2>1 DEF Alone, Window
    <3>3. req[d].pc \in Window => tmp'[req[d].of] = tmp[req[d].of]
      <4>1. req[d].pc \in Window => req[d].of \in Files
        BY KeyTypes DEF Active, Window
      <4> QED  BY <1>1, <3>2, <4>1
    <3> QED  BY <1>1, <2>1, <3>1, <3>3 DEF Exact, Changed
  <2> QED  BY <2>2, <2>3, <2>4
<1>5. AnsweredIsKept' /\ EndedStaysEnded' /\ ended' \subseteq given'
  BY <1>1, AnswersStay
<1> QED  BY <1>3, <1>4, <1>5 DEF FileInv

LEMMA WriteKeeps ==
  ASSUME Types, FileInv, NEW c \in Requests, Writes(c) PROVE FileInv'
<1>1. /\ req[c] \in Requested /\ OthersStay(c) /\ req[c].pc = "writing"
      /\ UNCHANGED <<expired, given, ended, overlap>> /\ overlap \in BOOLEAN
      /\ req'[c] = [req[c] EXCEPT !.pc = "replacing"]
      /\ req[c].of \in Files /\ DOMAIN tmp = Files
  BY KeyTypes DEF Writes, Types, Shape, Active
<1>2. /\ req'[c].pc = "replacing" /\ req'[c].of = req[c].of
      /\ req'[c].key = req[c].key /\ req'[c].change = req[c].change
      /\ req'[c].data = req[c].data
  BY <1>1 DEF Requested
<1>3. Bearers'  BY <1>1, <1>2, BearersStay DEF FileInv, OthersStay, Active
<1>4. ASSUME ~overlap PROVE /\ Alone' /\ (\A d \in Requests : Exact(d)')
                            /\ UNCHANGED file
  <2>1. Alone /\ \A d \in Requests : Exact(d)  BY <1>4 DEF FileInv, Undisturbed
  <2>2. Alone'
    <3>1. \A d \in Requests : /\ req'[d].pc \in Window => req[d].pc \in Window
                              /\ req'[d].of = req[d].of
      BY <1>1, <1>2 DEF OthersStay, Window
    <3> QED  BY <2>1, <3>1 DEF Alone
  <2>3. UNCHANGED file /\ tmp' = [tmp EXCEPT ![req[c].of] = req[c].data]
    <3>1. req[c].at = "tmp" /\ tmp[req[c].of] = Torn
      BY <1>1, <2>1 DEF Exact, Window
    <3> QED  BY <3>1 DEF Writes, Written
  <2>4. Exact(c)'
    BY <1>1, <1>2, <2>1, <2>3 DEF Exact, Changed, Window
  <2>5. ASSUME NEW d \in Requests \ {c} PROVE Exact(d)'
    <3>1. req'[d] = req[d]  BY <1>1 DEF OthersStay
    <3>2. req[d].pc \in Window => req[d].of # req[c].of
      BY <1>1, <2>1 DEF Alone, Window
    <3>3. req[d].pc \in Window => tmp'[req[d].of] = tmp[req[d].of]
      <4>1. req[d].pc \in Window => req[d].of \in Files
        BY KeyTypes DEF Active, Window
      <4> QED  BY <1>1, <2>3, <3>2, <4>1
    <3> QED  BY <2>1, <2>3, <3>1, <3>3 DEF Exact, Changed
  <2> QED  BY <2>2, <2>3, <2>4, <2>5
<1>5. Undisturbed'  BY <1>1, <1>4 DEF Undisturbed
<1>6. AnsweredIsKept' /\ EndedStaysEnded' /\ ended' \subseteq given'
  <2>1. CASE overlap
    BY <1>1, <2>1 DEF FileInv, AnsweredIsKept, EndedStaysEnded
  <2>2. CASE ~overlap  BY <1>1, <1>4, <2>2, AnswersStay
  <2> QED  BY <1>1, <2>1, <2>2
<1> QED  BY <1>3, <1>5, <1>6 DEF FileInv

\* The file that takes the place of the old one says what the old one said,
\* with one entry more or less.
LEMMA ReplaceKeeps ==
  ASSUME Types, FileInv, NEW c \in Requests, Replaces(c) PROVE FileInv'
<1>1. /\ req[c] \in Requested /\ req[c].pc = "replacing" /\ IsReq
      /\ UNCHANGED <<expired, overlap>> /\ overlap \in BOOLEAN
      /\ file' = [file EXCEPT ![req[c].of] = tmp[req[c].of]]
      /\ tmp' = [tmp EXCEPT ![req[c].of] = None]
      /\ DOMAIN tmp = Files /\ DOMAIN file = Files /\ req[c].of \in Files
      /\ req[c].change \in {"read", "add", "remove"}
      /\ req[c].change # "add" =>
            req[c].of = "sessions" /\ req[c].key \in Ids /\ req[c].key \in given
      /\ req[c].of = "sessions" => req[c].key \in Ids
      /\ req[c].of = "delegations" => req[c].key \in People
  <2>1. req[c].pc \in Active  BY DEF Replaces, Active
  <2>2. req[c] \in Requested  BY DEF Types, Shape
  <2>3. req[c].change \in {"read", "add", "remove"}  BY <2>2 DEF Requested
  <2> QED
    BY <2>1, <2>2, <2>3, KeyTypes DEF Replaces, Types, Shape, FileInv, Bearers, Bearer
<1>2. req'[c].pc \in {"idle", "serving"}  BY QuietPhases DEF Replaces
<1>3. ASSUME NEW d \in Requests \ {c}
      PROVE  /\ req'[d].pc = req[d].pc /\ req'[d].of = req[d].of
             /\ req'[d].change = req[d].change /\ req'[d].key = req[d].key
  <2>1. req[d] \in Requested  BY DEF Types, Shape
  <2>2. req'[d] = Moved(req[d], req[c].of)  BY DEF Replaces
  <2>3. \A a : /\ [req[d] EXCEPT !.at = a].pc = req[d].pc
               /\ [req[d] EXCEPT !.at = a].of = req[d].of
               /\ [req[d] EXCEPT !.at = a].change = req[d].change
               /\ [req[d] EXCEPT !.at = a].key = req[d].key
    BY <2>1 DEF Requested
  <2> QED  BY <2>2, <2>3 DEF Moved
<1>4. Bearers'
  <2>1. ASSUME NEW d \in Requests PROVE Bearer(d)'
    <3>1. CASE d = c  BY <1>2, <3>1 DEF Bearer, Adds, Active
    <3>2. CASE d # c
      <4>1. Bearer(d)  BY DEF FileInv, Bearers
      <4>2. given \subseteq given'  BY DEF Replaces
      <4>3. ASSUME Adds(d)' PROVE req'[d].key \notin given'
        <5>1. Adds(d) /\ req'[d].key = req[d].key  BY <1>3, <3>2, <4>3 DEF Adds
        <5>2. req[d].key \notin given  BY <4>1, <5>1 DEF Bearer
        <5>3. req[d].key # req[c].key \/ req[c].change # "add"
          <6> SUFFICES ASSUME req[d].key = req[c].key, req[c].change = "add" PROVE FALSE
            OBVIOUS
          <6>1. req[d].key \in Ids  BY <5>1, KeyTypes DEF Adds
          <6>2. req[c].of = "sessions"  BY <1>1, <6>1, Basics DEF Files
          <6>3. Adds(c)  BY <1>1, <6>2 DEF Adds, Active
          <6> QED  BY <3>2, <5>1, <6>3 DEF FileInv, Bearers, Minted
        <5> QED  BY <5>1, <5>2, <5>3 DEF Replaces
      <4>4. req'[d].pc \in Active /\ req'[d].change # "add" => req'[d].key \in given'
        BY <1>3, <3>2, <4>1, <4>2 DEF Bearer
      <4> QED  BY <4>3, <4>4 DEF Bearer
    <3> QED  BY <3>1, <3>2
  <2>2. Minted'
    <3>1. ASSUME NEW d \in Requests, Adds(d)'
          PROVE  d # c /\ Adds(d) /\ req'[d].key = req[d].key
      <4>1. d # c  BY <1>2, <3>1 DEF Adds, Active
      <4> QED  BY <1>3, <3>1, <4>1 DEF Adds
    <3> QED  BY <3>1 DEF FileInv, Bearers, Minted
  <2> QED  BY <2>1, <2>2 DEF Bearers
<1>5. ended' \subseteq given'
  BY <1>1 DEF Replaces, FileInv
<1>6. ASSUME ~overlap
      PROVE  /\ Alone' /\ (\A d \in Requests : Exact(d)')
             /\ Unread(file'[req[c].of]) = Changed(req[c], Unread(file[req[c].of]))
  <2>1. Alone /\ \A d \in Requests : Exact(d)  BY <1>6 DEF FileInv, Undisturbed
  <2>2. Alone'  BY <1>2, <1>3, <2>1 DEF Alone, Window
  <2>3. Exact(c)'  BY <1>2 DEF Exact, Window
  <2>4. ASSUME NEW d \in Requests \ {c} PROVE Exact(d)'
    <3>1. CASE req[d].pc \notin Window  BY <1>3, <3>1 DEF Exact
    <3>2. CASE req[d].pc \in Window
      <4>1. req[d].of # req[c].of  BY <1>1, <2>1, <3>2 DEF Alone, Window
      <4>2. req'[d] = req[d]  BY <4>1 DEF Replaces, Moved
      <4>3. req[d].of \in Files  BY <3>2, KeyTypes DEF Active, Window
      <4>4. tmp'[req[d].of] = tmp[req[d].of] /\ file'[req[d].of] = file[req[d].of]
        BY <1>1, <4>1, <4>3
      <4> QED  BY <2>1, <4>2, <4>4 DEF Exact, Changed
    <3> QED  BY <3>1, <3>2
  <2>5. tmp[req[c].of] = Changed(req[c], Unread(file[req[c].of]))
    BY <1>1, <2>1 DEF Exact, Window
  <2>6. req[c].data \in Contents /\ req[c].data = tmp[req[c].of]
    BY <1>1, <2>1 DEF Exact, Window, Requested
  <2>7. Unread(tmp[req[c].of]) = tmp[req[c].of]
    BY <2>6, Basics DEF Unread
  <2>8. file'[req[c].of] = tmp[req[c].of]  BY <1>1
  <2> QED  BY <2>2, <2>3, <2>4, <2>5, <2>7, <2>8
<1>7. Undisturbed'  BY <1>1, <1>6 DEF Undisturbed
<1>8. ASSUME ~overlap, NEW k \in given'
      PROVE  IF k \in Ids THEN k \in Unread(file'["sessions"]) \cup ended' \cup expired'
                          ELSE k \in Unread(file'["delegations"])
  <2>1. k \in given => IF k \in Ids
                       THEN k \in Unread(file["sessions"]) \cup ended \cup expired
                       ELSE k \in Unread(file["delegations"])
    BY <1>8 DEF FileInv, AnsweredIsKept
  <2>2. /\ given' = IF req[c].change = "add" THEN given \cup {req[c].key} ELSE given
        /\ ended' = IF req[c].change = "remove" THEN ended \cup {req[c].key} ELSE ended
    BY DEF Replaces
  <2>3. Unread(file'[req[c].of]) = Changed(req[c], Unread(file[req[c].of]))
    BY <1>6, <1>8
  <2>4. CASE req[c].of = "sessions"
    <3>1. file'["delegations"] = file["delegations"]
      BY <1>1, <2>4, Basics
    <3>2. CASE req[c].change = "add"
      BY <1>1, <2>1, <2>2, <2>3, <2>4, <3>1, <3>2 DEF Changed
    <3>3. CASE req[c].change # "add"
      <4>1. k \in given /\ ended \subseteq ended'  BY <2>2, <3>3
      <4>2. Unread(file'["sessions"]) = Unread(file["sessions"]) \ {req[c].key}
        BY <2>3, <2>4, <3>3 DEF Changed
      <4>3. req[c].change = "remove"  
        <5>1. Good(c)  BY DEF Types
        <5> QED  BY <1>1, <3>3, <5>1 DEF Good, RequestOK
      <4> QED  BY <1>1, <2>1, <2>2, <3>1, <4>1, <4>2, <4>3
    <3> QED  BY <3>2, <3>3
  <2>5. CASE req[c].of = "delegations"
    <3>1. file'["sessions"] = file["sessions"]
      BY <1>1, <2>5, Basics
    <3>2. req[c].change = "add" /\ req[c].key \notin Ids
      BY <1>1, <2>5, Basics
    <3> QED  BY <1>1, <2>1, <2>2, <2>3, <2>5, <3>1, <3>2 DEF Changed
  <2> QED  BY <1>1, <2>4, <2>5 DEF Files
<1>9. AnsweredIsKept'  BY <1>1, <1>8 DEF AnsweredIsKept
<1>10. ASSUME ~overlap, NEW i \in ended' \cap given'
       PROVE  i \notin Unread(file'["sessions"])
  <2>1. \A j \in ended : j \notin Unread(file["sessions"])
    BY <1>10 DEF FileInv, EndedStaysEnded
  <2>2. ended' = IF req[c].change = "remove" THEN ended \cup {req[c].key} ELSE ended
    BY DEF Replaces
  <2>3. Unread(file'[req[c].of]) = Changed(req[c], Unread(file[req[c].of]))
    BY <1>6, <1>10
  <2>4. CASE req[c].of = "sessions" /\ req[c].change = "add"
    <3>1. Adds(c)  BY <1>1, <2>4 DEF Adds, Active
    <3>2. req[c].key \notin ended  BY <3>1 DEF FileInv, Bearers, Bearer
    <3> QED  BY <2>1, <2>2, <2>3, <2>4, <3>2 DEF Changed
  <2>5. CASE req[c].of = "sessions" /\ req[c].change # "add"
    BY <2>1, <2>2, <2>3, <2>5 DEF Changed
  <2>6. CASE req[c].of = "delegations"
    <3>1. file'["sessions"] = file["sessions"] /\ req[c].change = "add"
      BY <1>1, <2>6, Basics
    <3> QED  BY <2>1, <2>2, <3>1
  <2> QED  BY <1>1, <2>4, <2>5, <2>6 DEF Files
<1>11. EndedStaysEnded'  BY <1>1, <1>10 DEF EndedStaysEnded
<1> QED  BY <1>4, <1>5, <1>7, <1>9, <1>11 DEF FileInv

LEMMA MintKeeps ==
  ASSUME Types, FileInv, NEW c \in Requests, Mints(c) PROVE FileInv'
<1>1. PICK i \in Ids, p \in People, way \in {"orcid", "local", "operator"} :
         /\ issued[i] = Nobody
         /\ req'[c] = [Quiet EXCEPT !.pc = "loading", !.of = "sessions",
                                    !.change = "add", !.key = i, !.stage = way]
         /\ OthersStay(c)
         /\ UNCHANGED <<file, tmp, expired, given, ended, overlap>>
  BY DEF Mints
<1>2. PICK r : /\ r = req'[c]
               /\ r = [Quiet EXCEPT !.pc = "loading", !.of = "sessions",
                                    !.change = "add", !.key = i, !.stage = way]
  BY <1>1
<1>3. /\ r.pc = "loading" /\ r.of = "sessions" /\ r.change = "add" /\ r.key = i
  BY <1>2 DEF Quiet
<1>4. i \notin given  BY <1>1 DEF Types, GivenIssued
<1>5. ASSUME NEW d \in Requests, Adds(d) PROVE req[d].key # i
  <2>1. req[d].key \in Keys("sessions")  BY <1>5, KeyTypes DEF Adds
  <2> QED  BY <1>1, <2>1 DEF Keys
<1>6. Bearers'
  <2>1. \A d \in Requests \ {c} : req'[d] = req[d]  BY <1>1 DEF OthersStay
  <2>2. \A d \in Requests : Bearer(d)'
    BY <1>1, <1>2, <1>3, <1>4, <2>1 DEF FileInv, Bearers, Bearer, Adds
  <2>3. ASSUME NEW d \in Requests \ {c}, Adds(d)'
        PROVE  Adds(d) /\ req'[d].key = req[d].key /\ req'[d].key # req'[c].key
    BY <1>2, <1>3, <1>5, <2>1, <2>3 DEF Adds
  <2>4. Minted'
    BY <2>3 DEF FileInv, Bearers, Minted
  <2> QED  BY <2>2, <2>4 DEF Bearers
<1> QED
  BY <1>1, <1>2, <1>3, <1>6, QuietSteps DEF OthersStay, Window

LEMMA NameKeeps ==
  ASSUME Types, FileInv, NEW c \in Requests, Names(c) PROVE FileInv'
<1>1. PICK i \in given \cap Ids :
         /\ \/ req'[c] = [Quiet EXCEPT !.pc = "loading", !.of = "sessions",
                                       !.change = "remove", !.key = i]
            \/ req'[c] = [Quiet EXCEPT !.pc = "loading", !.of = "sessions",
                                       !.change = "read", !.key = i, !.stage = "who"]
         /\ OthersStay(c)
         /\ UNCHANGED <<file, tmp, expired, given, ended, overlap>>
  BY DEF Names
<1>2. PICK r : /\ r = req'[c]
               /\ \/ r = [Quiet EXCEPT !.pc = "loading", !.of = "sessions",
                                       !.change = "remove", !.key = i]
                  \/ r = [Quiet EXCEPT !.pc = "loading", !.of = "sessions",
                                       !.change = "read", !.key = i, !.stage = "who"]
  BY <1>1
<1>3. /\ r.pc = "loading" /\ r.of = "sessions" /\ r.change # "add" /\ r.key = i
  BY <1>2 DEF Quiet
<1>4. Bearers'
  <2>1. \A d \in Requests \ {c} : req'[d] = req[d]  BY <1>1 DEF OthersStay
  <2>2. \A d \in Requests : Bearer(d)'
    BY <1>1, <1>2, <1>3, <2>1 DEF FileInv, Bearers, Bearer, Adds
  <2>3. Minted'
    BY <1>1, <1>2, <1>3, <2>1 DEF FileInv, Bearers, Minted, Adds
  <2> QED  BY <2>2, <2>3 DEF Bearers
<1> QED
  BY <1>1, <1>2, <1>3, <1>4, QuietSteps DEF OthersStay, Window

LEMMA BringKeeps ==
  ASSUME Types, FileInv, NEW c \in Requests, NEW s \in States, Brings(c, s)
  PROVE  FileInv'
<1>1. /\ OthersStay(c) /\ state[s].for \in People
      /\ UNCHANGED <<file, tmp, issued, expired, given, ended, overlap>>
      /\ \/ req'[c] = [Quiet EXCEPT !.pc = "loading", !.of = "delegations",
                                    !.change = "add", !.key = state[s].for]
         \/ req'[c] = req[c]
  BY DEF Brings
<1>2. req'[c] = req[c] \/ (/\ req'[c].pc = "loading" /\ req'[c].of = "delegations"
                           /\ req'[c].change = "add")
  <2>1. \A p : LET r == [Quiet EXCEPT !.pc = "loading", !.of = "delegations",
                                      !.change = "add", !.key = p]
               IN  r.pc = "loading" /\ r.of = "delegations" /\ r.change = "add"
    BY DEF Quiet
  <2> QED  BY <1>1, <2>1
<1>3. Bearers'
  <2>1. \A d \in Requests \ {c} : req'[d] = req[d]  BY <1>1 DEF OthersStay
  <2>2. \A d \in Requests : Bearer(d)'
    BY <1>1, <1>2, <2>1 DEF FileInv, Bearers, Bearer, Adds
  <2>3. ASSUME NEW d \in Requests, Adds(d)' PROVE req'[d] = req[d]
    BY <1>2, <2>1, <2>3 DEF Adds
  <2>4. Minted'
    BY <2>3 DEF FileInv, Bearers, Minted, Adds
  <2> QED  BY <2>2, <2>4 DEF Bearers
<1> QED
  BY <1>1, <1>2, <1>3, QuietSteps DEF OthersStay, Window

LEMMA RestKeeps ==
  ASSUME Types, FileInv, expired \subseteq expired',
         \/ Ends
         \/ \E c \in Requests : Spends(c) \/ \E s \in States : Takes(c, s)
  PROVE  FileInv'
<1>1. /\ UNCHANGED <<file, tmp, given, ended>> /\ (overlap => overlap')
      /\ \A d \in Requests : req'[d] = req[d] \/ req'[d].pc \notin Active
  <2>1. CASE Ends  BY <2>1, QuietPhase DEF Ends, Active
  <2>2. ASSUME NEW c \in Requests, Spends(c)
        PROVE  /\ UNCHANGED <<file, tmp, given, ended>> /\ (overlap => overlap')
               /\ \A d \in Requests : req'[d] = req[d] \/ req'[d].pc \notin Active
    <3>1. req[c] \in Requested  BY DEF Types, Shape
    <3>2. req'[c].pc = "exchanging"  BY <2>2, <3>1 DEF Spends, Requested
    <3> QED  BY <2>2, <3>2 DEF Spends, OthersStay, Active
  <2>3. ASSUME NEW c \in Requests, NEW s \in States, Takes(c, s)
        PROVE  /\ UNCHANGED <<file, tmp, given, ended>> /\ (overlap => overlap')
               /\ \A d \in Requests : req'[d] = req[d] \/ req'[d].pc \notin Active
    <3>1. req[c] \in Requested  BY DEF Types, Shape
    <3>2. req'[c].pc = "discarding"  BY <2>3, <3>1 DEF Takes, Requested
    <3> QED  BY <2>3, <3>2 DEF Takes, OthersStay, Active
  <2> QED  BY <2>1, <2>2, <2>3
<1>2. Bearers'  BY <1>1, BearersStay DEF FileInv
<1> QED  BY <1>1, <1>2, QuietSteps DEF Active, Window

LEMMA FileSteps ==
  ASSUME Types, FileInv, [Next]_vars PROVE FileInv'
<1>1. Moves /\ expired \subseteq expired'  BY StepKinds
<1> QED
  BY <1>1, ReadKeeps, OpenKeeps, WriteKeeps, ReplaceKeeps, MintKeeps, NameKeeps,
     BringKeeps, RestKeeps DEF Moves

LEMMA FileAlways == Spec => [](Types /\ FileInv)
<1>1. Init => FileInv
  BY DEF Init, FileInv, Undisturbed, Alone, Exact, Window, Bearers, Bearer, Minted,
         Adds, Active, Quiet, AnsweredIsKept, EndedStaysEnded
<1>2. (Types /\ FileInv) /\ [Next]_vars => (Types /\ FileInv)'
  BY TypeSteps, FileSteps
<1> QED  BY <1>1, <1>2, InitTypes, PTL DEF Spec

\* Who was told they are signed in is, and a delegation that was answered for
\* is held, until they sign out or the session expires: crashes and restarts
\* included, as long as no two requests were on one file at once.
THEOREM AnswersAreKept == Spec => []AnsweredIsKept
<1>1. FileInv => AnsweredIsKept  BY DEF FileInv
<1> QED  BY <1>1, FileAlways, PTL

\* Who was told they are signed out is, under the same proviso.
THEOREM EndsAreFinal == Spec => []EndedStaysEnded
<1>1. FileInv => EndedStaysEnded  BY DEF FileInv
<1> QED  BY <1>1, FileAlways, PTL
-----------------------------------------------------------------------------
(* A state parameter is issued once, bound to a person or not.  One that is *)
(* bound has not been exchanged until it is spent; one that a request is   *)
(* about to spend was issued, and is not bound.                            *)

Once(s) ==
  /\ state[s].status = "fresh" => state[s].for = Nobody /\ exchanged[s] = 0
  /\ state[s].status = "out" /\ state[s].for # Nobody => exchanged[s] = 0
  /\ state[s].for # Nobody => exchanged[s] <= 1

Spender(c) ==
  req[c].pc = "discarding" =>
     state[req[c].st].for = Nobody /\ state[req[c].st].status # "fresh"

OnceInv == (\A s \in States : Once(s)) /\ (\A c \in Requests : Spender(c))

\* Steps that exchange nothing and change no state.
LEMMA StateKept ==
  ASSUME OnceInv, UNCHANGED <<state, exchanged>>,
         \A d \in Requests : \/ req'[d].pc # "discarding"
                             \/ req[d].pc = "discarding" /\ req'[d].st = req[d].st
  PROVE  OnceInv'
<1>1. \A s \in States : Once(s)'  BY DEF OnceInv, Once
<1>2. \A c \in Requests : Spender(c)'  BY DEF OnceInv, Spender
<1> QED  BY <1>1, <1>2 DEF OnceInv

LEMMA FileStepsKeepTakers ==
  ASSUME Types, NEW c \in Requests,
         Reads(c) \/ Opens(c) \/ Writes(c) \/ Replaces(c) \/ Mints(c) \/ Names(c)
  PROVE  \A d \in Requests : \/ req'[d].pc # "discarding"
                             \/ req[d].pc = "discarding" /\ req'[d].st = req[d].st
<1>1. \A d \in Requests : req[d] \in Requested  BY DEF Types, Shape
<1>3. ASSUME NEW d \in Requests \ {c}
      PROVE  req'[d].pc = req[d].pc /\ req'[d].st = req[d].st
  <2>1. CASE Replaces(c)
    <3>1. req'[d] = Moved(req[d], req[c].of)  BY <2>1 DEF Replaces
    <3>2. \A a : /\ [req[d] EXCEPT !.at = a].pc = req[d].pc
                 /\ [req[d] EXCEPT !.at = a].st = req[d].st
      BY <1>1 DEF Requested
    <3> QED  BY <3>1, <3>2 DEF Moved
  <2>2. CASE OthersStay(c)  BY <2>2 DEF OthersStay
  <2> QED  BY <2>1, <2>2 DEF Reads, Opens, Writes, Mints, Names
<1>4. req'[c].pc # "discarding"
  <2>1. CASE Reads(c)
    <3>1. req[c].pc = "loading"  BY <2>1 DEF Reads
    <3>2. /\ \A e : [req[c] EXCEPT !.pc = "opening", !.data = e].pc = "opening"
          /\ \A e : [req[c] EXCEPT !.stage = "roles", !.who = e].pc = "loading"
          /\ [req[c] EXCEPT !.pc = "loading", !.of = "sessions",
                            !.change = "remove", !.key = req[c].key].pc = "loading"
      BY <1>1, <3>1 DEF Requested
    <3>3. CASE req'[c] = Quiet \/ req'[c] = [Quiet EXCEPT !.pc = "serving",
                                                        !.who = req[c].who]
      BY <3>3, QuietPhases
    <3> QED  BY <2>1, <3>2, <3>3 DEF Reads
  <2>2. CASE Opens(c) \/ Writes(c)
    BY <1>1, <2>2 DEF Opens, Writes, Requested
  <2>3. CASE Replaces(c)  BY <2>3, QuietPhase DEF Replaces
  <2>4. CASE Mints(c)
    <3>1. \A i, way : [Quiet EXCEPT !.pc = "loading", !.of = "sessions",
                          !.change = "add", !.key = i, !.stage = way].pc = "loading"
      BY DEF Quiet
    <3>2. PICK i, way : req'[c] = [Quiet EXCEPT !.pc = "loading", !.of = "sessions",
                                      !.change = "add", !.key = i, !.stage = way]
      BY <2>4 DEF Mints
    <3> QED  BY <3>1, <3>2
  <2>5. CASE Names(c)
    <3>1. \A i : /\ [Quiet EXCEPT !.pc = "loading", !.of = "sessions",
                                  !.change = "remove", !.key = i].pc = "loading"
                 /\ [Quiet EXCEPT !.pc = "loading", !.of = "sessions",
                                  !.change = "read", !.key = i, !.stage = "who"].pc = "loading"
      BY DEF Quiet
    <3> QED  BY <2>5, <3>1 DEF Names
  <2> QED  BY <2>1, <2>2, <2>3, <2>4, <2>5
<1> QED  BY <1>3, <1>4

LEMMA FileStepsSpendNothing ==
  ASSUME Types, OnceInv, NEW c \in Requests,
         Reads(c) \/ Opens(c) \/ Writes(c) \/ Replaces(c) \/ Mints(c) \/ Names(c)
  PROVE  OnceInv'
<1>1. UNCHANGED <<state, exchanged>>
  BY DEF Reads, Opens, Writes, Replaces, Mints, Names
<1> QED  BY <1>1, FileStepsKeepTakers, StateKept

LEMMA TakeOnce ==
  ASSUME Types, OnceInv, NEW c \in Requests, NEW s \in States, Takes(c, s)
  PROVE  OnceInv'
<1>1. /\ UNCHANGED <<state, exchanged>>
      /\ req[c] \in Requested /\ OthersStay(c)
      /\ state[s].status = "out" /\ state[s].for = Nobody
      /\ req'[c] = [req[c] EXCEPT !.pc = "discarding", !.st = s]
  BY DEF Takes, Types, Shape
<1>2. req'[c].pc = "discarding" /\ req'[c].st = s  BY <1>1 DEF Requested
<1>3. \A t \in States : Once(t)'  BY <1>1 DEF OnceInv, Once
<1>4. ASSUME NEW d \in Requests PROVE Spender(d)'
  <2>1. CASE d = c  BY <1>1, <1>2, <2>1 DEF Spender
  <2>2. CASE d # c
    <3>1. req'[d] = req[d]  BY <1>1, <2>2 DEF OthersStay
    <3> QED  BY <1>1, <3>1 DEF OnceInv, Spender
  <2> QED  BY <2>1, <2>2
<1> QED  BY <1>3, <1>4 DEF OnceInv

\* A state is spent: for a person whose request came back, or for nobody.
LEMMA SpendOnce ==
  ASSUME Types, OnceInv, NEW c \in Requests, NEW s \in States,
         \/ Brings(c, s)
         \/ Spends(c) /\ req[c].st = s
  PROVE  OnceInv'
<1>1. /\ state \in [States -> Stated] /\ exchanged \in [States -> Nat]
      /\ req[c] \in Requested /\ OthersStay(c)
      /\ state' = [state EXCEPT ![s].status = "spent"]
      /\ exchanged' = [exchanged EXCEPT ![s] = @ + 1]
  BY DEF Brings, Spends, Types, Shape
<1>2. /\ state'[s].status = "spent" /\ state'[s].for = state[s].for
      /\ exchanged'[s] = exchanged[s] + 1 /\ exchanged[s] \in Nat
      /\ \A t \in States \ {s} : state'[t] = state[t] /\ exchanged'[t] = exchanged[t]
  BY <1>1 DEF Stated
<1>3. state[s].for # Nobody => exchanged[s] = 0
  <2>1. Once(s) /\ Spender(c)  BY DEF OnceInv
  <2>2. CASE Brings(c, s)
    BY <2>1, <2>2 DEF Brings, Once
  <2>3. CASE Spends(c) /\ req[c].st = s
    BY <2>1, <2>3 DEF Spends, Once, Spender
  <2> QED  BY <2>2, <2>3
<1>4. \A t \in States : Once(t)'
  <2> TAKE t \in States
  <2>1. Once(t)  BY DEF OnceInv
  <2>2. CASE t = s  BY <1>1, <1>2, <1>3, <2>2 DEF Once
  <2>3. CASE t # s  BY <1>1, <1>2, <2>1, <2>3 DEF Once
  <2> QED  BY <2>2, <2>3
<1>5. req'[c].pc # "discarding"
  <2>1. CASE Brings(c, s)
    <3>1. \A p : [Quiet EXCEPT !.pc = "loading", !.of = "delegations",
                               !.change = "add", !.key = p].pc = "loading"
      BY DEF Quiet
    <3> QED  BY <2>1, <3>1 DEF Brings
  <2>2. CASE Spends(c)  BY <1>1, <2>2 DEF Spends, Requested
  <2> QED  BY <2>1, <2>2
<1>6. ASSUME NEW d \in Requests PROVE Spender(d)'
  <2>1. CASE d = c  BY <1>5, <2>1 DEF Spender
  <2>2. CASE d # c
    <3> SUFFICES ASSUME req[d].pc = "discarding"
                 PROVE  /\ state'[req[d].st].for = Nobody
                        /\ state'[req[d].st].status # "fresh"
      BY <1>1, <2>2 DEF Spender, OthersStay
    <3>1. PICK t \in States : t = req[d].st
      BY DEF Types, Good, RequestOK
    <3>2. state[t].for = Nobody /\ state[t].status # "fresh"
      BY <3>1 DEF OnceInv, Spender
    <3> QED  BY <1>2, <3>1, <3>2
  <2> QED  BY <2>1, <2>2
<1> QED  BY <1>4, <1>6 DEF OnceInv

LEMMA IssueOnce ==
  ASSUME Types, OnceInv, Ends, NEW s \in States, NEW p \in People \cup {Nobody},
         state[s] = [status |-> "fresh", for |-> Nobody],
         state' = [state EXCEPT ![s] = [status |-> "out", for |-> p]]
  PROVE  OnceInv'
<1>1. /\ state \in [States -> Stated] /\ UNCHANGED exchanged
      /\ state[s].status = "fresh"
      /\ state'[s].status = "out" /\ state'[s].for = p
      /\ \A t \in States \ {s} : state'[t] = state[t]
  BY DEF Types, Shape, Ends
<1>2. \A t \in States : Once(t)'
  <2> TAKE t \in States
  <2>1. Once(t)  BY DEF OnceInv
  <2>2. CASE t = s  BY <1>1, <2>1, <2>2 DEF Once
  <2>3. CASE t # s  BY <1>1, <2>1, <2>3 DEF Once
  <2> QED  BY <2>2, <2>3
<1>3. \A d \in Requests : req'[d] = req[d] \/ req'[d].pc = "idle"
  BY QuietPhase DEF Ends
<1>4. ASSUME NEW d \in Requests PROVE Spender(d)'
  <2> SUFFICES ASSUME req'[d].pc = "discarding", req'[d] = req[d] PROVE Spender(d)'
    BY <1>3 DEF Spender
  <2>1. PICK t \in States : t = req[d].st
    BY DEF Types, Good, RequestOK
  <2>2. t # s  BY <1>1, <2>1 DEF OnceInv, Spender
  <2> QED  BY <1>1, <2>1, <2>2 DEF OnceInv, Spender
<1> QED  BY <1>2, <1>4 DEF OnceInv

LEMMA RestartOnce ==
  ASSUME Types, OnceInv, Ends, req' = [c \in Requests |-> Quiet],
         state' = [s \in States |->
          IF state[s].status = "out" THEN [state[s] EXCEPT !.status = "lost"] ELSE state[s]]
  PROVE  OnceInv'
<1>1. UNCHANGED exchanged  BY DEF Ends
<1>2. \A d \in Requests : req'[d].pc # "discarding"  BY QuietPhase
<1>3. ASSUME NEW t \in States PROVE Once(t)'
  <2>1. Once(t) /\ state[t] \in Stated  BY DEF OnceInv, Types, Shape
  <2>2. /\ state'[t].for = state[t].for
        /\ \/ state'[t].status = state[t].status
           \/ state'[t].status = "lost"
    BY <2>1 DEF Stated
  <2>3. state'[t].status \in {"fresh", "out"} => state'[t].status = state[t].status
    BY <2>2
  <2> QED  BY <1>1, <2>1, <2>2, <2>3 DEF Once
<1> QED  BY <1>2, <1>3 DEF OnceInv, Spender

LEMMA OnceSteps ==
  ASSUME Types, OnceInv, [Next]_vars PROVE OnceInv'
<1>1. Moves  BY StepKinds
<1>2. ASSUME NEW c \in Requests, Spends(c) PROVE OnceInv'
  <2>1. req[c].st \in States  BY <1>2 DEF Spends, Types, Good, RequestOK
  <2> QED  BY <1>2, <2>1, SpendOnce
<1>3. CASE Ends /\ state' = state
  <2>1. \A d \in Requests : req'[d] = req[d] \/ req'[d].pc = "idle"
    BY <1>3, QuietPhase DEF Ends
  <2> QED  BY <1>3, <2>1, StateKept DEF Ends, Types, Shape
<1> QED
  BY <1>1, <1>2, <1>3, FileStepsSpendNothing, TakeOnce, SpendOnce, IssueOnce,
     RestartOnce DEF Moves

LEMMA OnceAlways == Spec => [](Types /\ OnceInv)
<1>1. Init => OnceInv
  BY DEF Init, OnceInv, Once, Spender, Fresh, Quiet
<1>2. (Types /\ OnceInv) /\ [Next]_vars => (Types /\ OnceInv)'
  BY TypeSteps, OnceSteps
<1> QED  BY <1>1, <1>2, InitTypes, PTL DEF Spec

(* A request finds a state only while it is out.                           *)
LEMMA OnlyTakers ==
  ASSUME Types, [Next]_vars, NEW d \in Requests, req'[d].pc = "discarding"
  PROVE  \/ req[d].pc = "discarding" /\ req'[d].st = req[d].st
         \/ state[req'[d].st].status = "out" /\ UNCHANGED <<state, exchanged>>
<1>1. Moves /\ req[d] \in Requested  BY StepKinds DEF Types, Shape
<1>2. ASSUME NEW c \in Requests,
             Reads(c) \/ Opens(c) \/ Writes(c) \/ Replaces(c) \/ Mints(c) \/ Names(c)
      PROVE  req[d].pc = "discarding" /\ req'[d].st = req[d].st
  BY <1>2, FileStepsKeepTakers
<1>3. ASSUME NEW c \in Requests, Spends(c)
      PROVE  req[d].pc = "discarding" /\ req'[d].st = req[d].st
  <2>1. req[c] \in Requested  BY DEF Types, Shape
  <2>2. req'[c].pc = "exchanging"  BY <1>3, <2>1 DEF Spends, Requested
  <2> QED  BY <1>3, <2>2 DEF Spends, OthersStay
<1>4. ASSUME NEW c \in Requests, NEW s \in States, Brings(c, s)
      PROVE  req[d].pc = "discarding" /\ req'[d].st = req[d].st
  <2>1. req'[c].pc # "discarding"
    <3>1. \A p : [Quiet EXCEPT !.pc = "loading", !.of = "delegations",
                               !.change = "add", !.key = p].pc = "loading"
      BY DEF Quiet
    <3> QED  BY <1>4, <3>1 DEF Brings
  <2> QED  BY <1>4, <2>1 DEF Brings, OthersStay
<1>5. ASSUME NEW c \in Requests, NEW s \in States, Takes(c, s)
      PROVE  \/ req[d].pc = "discarding" /\ req'[d].st = req[d].st
             \/ state[req'[d].st].status = "out" /\ UNCHANGED <<state, exchanged>>
  <2>1. CASE d = c  BY <1>1, <1>5, <2>1 DEF Takes, Requested
  <2>2. CASE d # c  BY <1>5, <2>2 DEF Takes, OthersStay
  <2> QED  BY <2>1, <2>2
<1>6. ASSUME Ends  PROVE req[d].pc = "discarding" /\ req'[d].st = req[d].st
  BY <1>6, QuietPhase DEF Ends
<1> QED  BY <1>1, <1>2, <1>3, <1>4, <1>5, <1>6 DEF Moves

(* What spends a state: a request that found it, or one that takes it out  *)
(* as it finds it.                                                         *)
LEMMA OnlySpenders ==
  ASSUME Types, [Next]_vars, NEW s \in States, Over(s)
  PROVE  exchanged'[s] = exchanged[s] /\ state'[s].status \in {"spent", "lost"}
<1>1. /\ Moves /\ state \in [States -> Stated] /\ exchanged \in [States -> Nat]
      /\ state[s].status \in {"spent", "lost"}
  BY StepKinds DEF Types, Shape, Over
<1>2. ASSUME NEW c \in Requests, Spends(c)
      PROVE  exchanged'[s] = exchanged[s] /\ state'[s] = state[s]
  <2>1. req[c].st # s  BY <1>2 DEF Spends, Over
  <2> QED  BY <1>1, <1>2, <2>1 DEF Spends
<1>3. ASSUME NEW c \in Requests, NEW t \in States, Brings(c, t)
      PROVE  exchanged'[s] = exchanged[s] /\ state'[s] = state[s]
  <2>1. t # s  BY <1>1, <1>3 DEF Brings
  <2> QED  BY <1>1, <1>3, <2>1 DEF Brings
<1>4. ASSUME Ends, NEW t \in States, NEW p,
             state[t] = [status |-> "fresh", for |-> Nobody],
             state' = [state EXCEPT ![t] = [status |-> "out", for |-> p]]
      PROVE  exchanged'[s] = exchanged[s] /\ state'[s] = state[s]
  <2>1. state[t].status = "fresh"  BY <1>4
  <2>2. t # s  BY <1>1, <2>1
  <2> QED  BY <1>1, <1>4, <2>2 DEF Ends
<1>5. ASSUME Ends,
             state' = [t \in States |->
               IF state[t].status = "out" THEN [state[t] EXCEPT !.status = "lost"] ELSE state[t]]
      PROVE  exchanged'[s] = exchanged[s] /\ state'[s] = state[s]
  BY <1>1, <1>5 DEF Ends
<1>6. ASSUME NEW c \in Requests,
             \/ Reads(c) \/ Opens(c) \/ Writes(c) \/ Replaces(c) \/ Mints(c) \/ Names(c)
             \/ \E t \in States : Takes(c, t)
      PROVE  exchanged'[s] = exchanged[s] /\ state'[s] = state[s]
  BY <1>6 DEF Reads, Opens, Writes, Replaces, Mints, Names, Takes
<1>7. CASE Ends /\ state' = state  BY <1>1, <1>7 DEF Ends
<1> QED  BY <1>1, <1>2, <1>3, <1>4, <1>5, <1>6, <1>7 DEF Moves

(* A state that was used, or lost with the process, and that nobody found  *)
(* while it was out and has still to use, is over: it is never exchanged   *)
(* again, for any number of requests at once.                              *)
THEOREM StatesAreOver == Spec => NeverUsedAgain
<1>1. ASSUME Types, [Next]_vars
      PROVE  \A s \in States : Over(s) => Over(s)' /\ exchanged'[s] = exchanged[s]
  <2> SUFFICES ASSUME NEW s \in States, Over(s)
               PROVE  Over(s)' /\ exchanged'[s] = exchanged[s]
    OBVIOUS
  <2>1. exchanged'[s] = exchanged[s] /\ state'[s].status \in {"spent", "lost"}
    BY <1>1, OnlySpenders
  <2>2. ASSUME NEW d \in Requests, req'[d].pc = "discarding", req'[d].st = s
        PROVE  FALSE
    BY <1>1, <2>2, OnlyTakers DEF Over
  <2> QED  BY <2>1, <2>2 DEF Over
<1>2. Types /\ [Next]_vars =>
        [\A s \in States : Over(s) => Over(s)' /\ exchanged'[s] = exchanged[s]]_vars
  BY <1>1
<1> QED  BY <1>2, InitTypes, TypeSteps, PTL DEF Spec, NeverUsedAgain

\* One that is bound to a person is exchanged once whatever happens at once:
\* it is taken out of the store in the step that reads it.
THEOREM DelegationsAreUsedOnce == Spec => []DelegatedOnce
<1>1. OnceInv => DelegatedOnce  BY DEF OnceInv, Once, DelegatedOnce
<1> QED  BY <1>1, OnceAlways, PTL

-----------------------------------------------------------------------------
(* The routes behind the sign-in: Access, for the people and requests of   *)
(* Sessions; the two have no variable in common.                           *)

(* Logs: what an append leaves of what they said.                          *)
Acts == {"act", "owner", "displayed"}

Audited(s, p) == \E i \in DOMAIN s : s[i].kind = "audited" /\ s[i].by = p

Rightful(s) ==
    \A i \in DOMAIN s : s[i].kind \in Acts => s[i].by \in OwnersIn(SubSeq(s, 1, i - 1))

More(s, t) ==
    /\ OwnersIn(s) \subseteq OwnersIn(t)
    /\ \A p \in People : Audited(s, p) => Audited(t, p)

LEMMA PrefixOfAppend ==
  ASSUME NEW s \in Seq(Entries), NEW e \in Entries, NEW i \in 1 .. Len(s) + 1
  PROVE  OwnersIn(SubSeq(Append(s, e), 1, i - 1)) = OwnersIn(SubSeq(s, 1, i - 1))
<1> DEFINE t == Append(s, e)
           n == i - 1
<1>0. n \in 0 .. Len(s) /\ n \in Int /\ 1 \in Int  OBVIOUS
<1>1. t \in Seq(Entries) /\ Len(t) = Len(s) + 1 /\ \A k \in 1 .. Len(s) : t[k] = s[k]
  OBVIOUS
<1>2. \A k \in 1 .. n : s[k] \in Entries /\ t[k] \in Entries /\ t[k] = s[k]
  BY <1>0, <1>1
<1> HIDE DEF t, n
<1>3. /\ SubSeq(s, 1, n) \in Seq(Entries)
      /\ Len(SubSeq(s, 1, n)) = (IF 1 <= n THEN n - 1 + 1 ELSE 0)
      /\ \A k \in 1 .. n - 1 + 1 : SubSeq(s, 1, n)[k] = s[1 + k - 1]
  BY <1>0, <1>2, SubSeqProperties
<1>4. /\ SubSeq(t, 1, n) \in Seq(Entries)
      /\ Len(SubSeq(t, 1, n)) = (IF 1 <= n THEN n - 1 + 1 ELSE 0)
      /\ \A k \in 1 .. n - 1 + 1 : SubSeq(t, 1, n)[k] = t[1 + k - 1]
  BY <1>0, <1>2, SubSeqProperties
<1>5. /\ DOMAIN SubSeq(s, 1, n) = 1 .. n /\ DOMAIN SubSeq(t, 1, n) = 1 .. n
      /\ \A k \in 1 .. n : SubSeq(s, 1, n)[k] = SubSeq(t, 1, n)[k]
  BY <1>0, <1>2, <1>3, <1>4
<1> QED  BY <1>5 DEF OwnersIn, t, n

LEMMA WholePrefix ==
  ASSUME NEW s \in Seq(Entries)
  PROVE  SubSeq(s, 1, Len(s) + 1 - 1) = s
<1>1. Len(s) + 1 - 1 = Len(s)  OBVIOUS
<1> QED  BY <1>1, SubSeqFull

LEMMA AppendIsMore ==
  ASSUME NEW s \in Seq(Entries), NEW e \in Entries
  PROVE  More(s, Append(s, e))
<1>1. \A i \in DOMAIN s : i \in DOMAIN Append(s, e) /\ Append(s, e)[i] = s[i]
  OBVIOUS
<1>2. OwnersIn(s) \subseteq OwnersIn(Append(s, e))  BY <1>1 DEF OwnersIn
<1>3. \A p \in People : Audited(s, p) => Audited(Append(s, e), p)
  BY <1>1 DEF Audited
<1> QED  BY <1>2, <1>3 DEF More

LEMMA AppendIsRightful ==
  ASSUME NEW s \in Seq(Entries), NEW e \in Entries, Rightful(s),
         e.kind \in Acts => e.by \in OwnersIn(s)
  PROVE  Rightful(Append(s, e))
<1> DEFINE t == Append(s, e)
<1>1. /\ t \in Seq(Entries) /\ DOMAIN t = 1 .. Len(s) + 1 /\ DOMAIN s = 1 .. Len(s)
      /\ \A k \in 1 .. Len(s) : t[k] = s[k]
      /\ t[Len(s) + 1] = e /\ Len(s) \in Nat
  OBVIOUS
<1>2. ASSUME NEW i \in 1 .. Len(s) + 1, t[i].kind \in Acts
      PROVE  t[i].by \in OwnersIn(SubSeq(t, 1, i - 1))
  <2>1. OwnersIn(SubSeq(t, 1, i - 1)) = OwnersIn(SubSeq(s, 1, i - 1))
    BY PrefixOfAppend
  <2> HIDE DEF t
  <2>2. CASE i \in 1 .. Len(s)
    BY <1>1, <1>2, <2>1, <2>2 DEF Rightful
  <2>3. CASE i = Len(s) + 1
    <3>1. SubSeq(s, 1, i - 1) = s  BY <2>3, WholePrefix
    <3>2. t[i] = e  BY <1>1, <2>3
    <3> QED  BY <1>2, <2>1, <3>1, <3>2
  <2> QED  BY <1>1, <2>2, <2>3
<1> HIDE DEF t
<1>3. Rightful(t)  BY <1>1, <1>2 DEF Rightful
<1> QED  BY <1>3 DEF t

-----------------------------------------------------------------------------
(* What every step does to the logs: it only ever adds to them, and what   *)
(* it adds by right.                                                       *)
LogsKept ==
    /\ dir' \in [Jobs -> {"none", "there", "damaged"}]
    /\ log' \in [Jobs -> Seq(Entries)]
    /\ \A j \in Jobs : More(log[j], log'[j]) /\ Rightful(log'[j])

LEMMA MoreOfTheSame == \A s : More(s, s)
BY DEF More

LEMMA EventIsOne ==
  ASSUME NEW k \in Kinds, NEW p \in People, NEW q \in People \cup {NoOne}
  PROVE  /\ Event(k, p, q) \in Entries /\ Event(k, p, q).kind = k
         /\ Event(k, p, q).by = p /\ Event(k, p, q).for = q
BY DEF Event, Entries

LEMMA LogsStay ==
  ASSUME AccessTypeOK, \A j \in Jobs : Rightful(log[j]), UNCHANGED <<dir, log>>
  PROVE  LogsKept
BY MoreOfTheSame DEF LogsKept, AccessTypeOK

LEMMA LogsFail ==
  ASSUME AccessTypeOK, \A j \in Jobs : Rightful(log[j]), NEW j \in Jobs, RecordFails(j)
  PROVE  LogsKept
<1>1. dir' \in [Jobs -> {"none", "there", "damaged"}]
  BY DEF AccessTypeOK, RecordFails, Made
<1>2. UNCHANGED log  BY DEF RecordFails
<1> QED  BY <1>1, <1>2, MoreOfTheSame DEF LogsKept, AccessTypeOK

LEMMA LogsGrow ==
  ASSUME AccessTypeOK, \A j \in Jobs : Rightful(log[j]),
         NEW j \in Jobs, NEW e \in Entries,
         e.kind \in Acts => e.by \in Owners(j), Record(j, e)
  PROVE  LogsKept /\ log'[j] = Append(log[j], e)
<1>1. log' = [log EXCEPT ![j] = Append(log[j], e)] /\ dir' = [dir EXCEPT ![j] = "there"]
  BY DEF Record
<1>2. log \in [Jobs -> Seq(Entries)] /\ dir \in [Jobs -> {"none", "there", "damaged"}]
  BY DEF AccessTypeOK
<1>3. Append(log[j], e) \in Seq(Entries)  BY <1>2
<1>4. log[j] \in Seq(Entries) /\ Rightful(log[j])  BY <1>2
<1>5. Rightful(Append(log[j], e)) /\ More(log[j], Append(log[j], e))
  BY <1>4, AppendIsRightful, AppendIsMore DEF Owners
<1>6. /\ log' \in [Jobs -> Seq(Entries)] /\ log'[j] = Append(log[j], e)
      /\ \A k \in Jobs \ {j} : log'[k] = log[k]
  BY <1>1, <1>2, <1>3
<1>7. dir' \in [Jobs -> {"none", "there", "damaged"}]  BY <1>1, <1>2
<1>8. \A k \in Jobs : More(log[k], log'[k]) /\ Rightful(log'[k])
  BY <1>5, <1>6, MoreOfTheSame
<1> QED  BY <1>6, <1>7, <1>8 DEF LogsKept

-----------------------------------------------------------------------------
(* Requests.  Whoever has got as far as to act owns the job, or, where one *)
(* need only see it, is an auditor whose reading the log holds.            *)
Entitled(r, l) ==
    /\ r.route.does \in {"act", "grant"} => r.route.right = "act"
    /\ r.pc = "granting" => r.route.does = "grant"
    /\ r.pc \in {"acting", "granting"} =>
          \/ r.who \in OwnersIn(l[r.job])
          \/ r.route.right # "act" /\ r.who \in Auditors /\ Audited(l[r.job], r.who)

AccessInv ==
    /\ AccessTypeOK
    /\ \A j \in Jobs : Rightful(log[j])
    /\ \A c \in Requests : Entitled(request[c], log)
    /\ ReadIsAudited
    /\ StrangersGetNothing

RequestsKept ==
    /\ request' \in [Requests -> RequestStates]
    /\ \A c \in Requests : CallOK(request'[c]) /\ Entitled(request'[c], log')

AnswersKept ==
    told'.code \in Codes /\ StrangersGetNothing'

LEMMA OfferedIsOne ==
  ASSUME NEW route \in Offered
  PROVE  route \in Routes /\ (route.does \in {"act", "grant"} => route.right = "act")
<1> DEFINE Allowed(r) == r \in Routes /\ (r.does \in {"act", "grant"} => r.right = "act")
<1>1. /\ \A does \in {"show", "display", "act", "grant"} : Allowed(OwnersOnly(does))
      /\ \A does \in {"show", "display"} : Allowed(See(does))
      /\ Allowed(Unlooked)
  BY DEF See, OwnersOnly, Unlooked, Route, Routes
<1> HIDE DEF Allowed
<1>2. \A r \in Range(ApiJob) : Allowed(r)  BY <1>1 DEF Range, ApiJob
<1>3. \A r \in Range(ApiGate) : Allowed(r)  BY <1>1 DEF Range, ApiGate
<1>4. \A r \in Range(ApiActs) : Allowed(r)  BY <1>1 DEF Range, ApiActs
<1>5. \A r \in Range(StatementPages) : Allowed(r)  BY <1>1 DEF Range, StatementPages
<1>6. \A r \in Range(HistoryPage) : Allowed(r)  BY <1>1 DEF Range, HistoryPage
<1>7. \A r \in Range(JobPages) : Allowed(r)  BY <1>1 DEF Range, JobPages
<1>8. \A r \in Range(GatePages) : Allowed(r)  BY <1>1 DEF Range, GatePages
<1>9. \A r \in Range(PublishPages) : Allowed(r)  BY <1>1 DEF Range, PublishPages
<1>10. Allowed(route)
  BY <1>2, <1>3, <1>4, <1>5, <1>6, <1>7, <1>8, <1>9 DEF Offered
<1> QED  BY <1>10 DEF Allowed

LEMMA IdleIsOne ==
  /\ Idle \in RequestStates /\ CallOK(Idle) /\ \A l : Entitled(Idle, l)
  /\ Idle.pc = "idle" /\ Idle.route \in Routes
  /\ Idle.route.does = "show" /\ Idle.route.right = "see"
BY DEF Idle, RequestStates, CallOK, Entitled, Route, Routes

LEMMA EntitledStays ==
  ASSUME LogsKept, NEW r \in RequestStates, CallOK(r), Entitled(r, log)
  PROVE  Entitled(r, log')
<1>1. CASE r.pc \in {"acting", "granting"}
  <2>1. r.job \in Jobs /\ r.who \in People  BY <1>1 DEF CallOK
  <2>2. More(log[r.job], log'[r.job])  BY <2>1 DEF LogsKept
  <2> QED  BY <1>1, <2>1, <2>2 DEF Entitled, More
<1>2. CASE r.pc \notin {"acting", "granting"}  BY <1>2 DEF Entitled
<1> QED  BY <1>1, <1>2

LEMMA OneRequest ==
  ASSUME AccessInv, LogsKept, NEW c \in Requests,
         NEW r \in RequestStates, CallOK(r), Entitled(r, log'),
         request' = [request EXCEPT ![c] = r]
  PROVE  RequestsKept
<1>1. request \in [Requests -> RequestStates]  BY DEF AccessInv, AccessTypeOK
<1>2. request' \in [Requests -> RequestStates] /\ request'[c] = r
      /\ \A d \in Requests \ {c} : request'[d] = request[d]
  BY <1>1
<1>3. ASSUME NEW d \in Requests \ {c}
      PROVE  CallOK(request[d]) /\ Entitled(request[d], log')
  <2>1. request[d] \in RequestStates /\ CallOK(request[d]) /\ Entitled(request[d], log)
    BY DEF AccessInv, AccessTypeOK
  <2> QED  BY <2>1, EntitledStays
<1> QED  BY <1>2, <1>3 DEF RequestsKept

LEMMA RequestsStay ==
  ASSUME AccessInv, LogsKept, UNCHANGED request
  PROVE  RequestsKept
<1>1. ASSUME NEW d \in Requests
      PROVE  CallOK(request[d]) /\ Entitled(request[d], log')
  <2>1. request[d] \in RequestStates /\ CallOK(request[d]) /\ Entitled(request[d], log)
    BY DEF AccessInv, AccessTypeOK
  <2> QED  BY <2>1, EntitledStays
<1> QED  BY <1>1 DEF RequestsKept, AccessInv, AccessTypeOK

LEMMA ToldStays ==
  ASSUME AccessInv, told' = told \/ told' = Untold
  PROVE  AnswersKept
<1>1. Untold.to = "nobody" /\ Untold.code = "ok" /\ "ok" \in Codes
  BY DEF Untold, Told, Codes
<1> QED  BY <1>1 DEF AnswersKept, StrangersGetNothing, AccessInv, AccessTypeOK

LEMMA Answered ==
  ASSUME AccessInv, LogsKept, NEW c \in Requests, NEW code \in Codes, Reply(c, code),
         \/ code \in {"no such job", "hidden", "internal"}
         \/ request[c].who \in Owners(request[c].job) \cup Auditors
  PROVE  RequestsKept /\ AnswersKept
<1>1. RequestsKept  BY IdleIsOne, OneRequest DEF Reply
<1>2. told'.to = Is(request[c].job, request[c].who) /\ told'.code = code
  BY DEF Reply, Told
<1>3. code \notin {"no such job", "hidden", "internal"} =>
         Is(request[c].job, request[c].who) # "stranger"
  BY DEF Is
<1> QED  BY <1>1, <1>2, <1>3 DEF AnswersKept, StrangersGetNothing

LEMMA Gone ==
  ASSUME AccessInv, LogsKept, NEW c \in Requests,
         NEW pc \in {"asking", "acting", "granting"},
         request[c].pc \in {"looking", "asking", "acting"}, Goto(c, pc),
         pc = "granting" => request[c].route.does = "grant",
         pc # "asking" =>
            \/ request[c].who \in OwnersIn(log'[request[c].job])
            \/ /\ request[c].route.right # "act" /\ request[c].who \in Auditors
               /\ Audited(log'[request[c].job], request[c].who)
  PROVE  RequestsKept /\ AnswersKept
<1> DEFINE r == [request[c] EXCEPT !.pc = pc]
<1>0. request[c] \in RequestStates /\ CallOK(request[c]) /\ Entitled(request[c], log)
  BY DEF AccessInv, AccessTypeOK
<1>1. request' = [request EXCEPT ![c] = r] /\ UNCHANGED told  BY DEF Goto
<1>2. /\ r \in RequestStates /\ r.pc = pc /\ r.who = request[c].who /\ r.job = request[c].job
      /\ r.route = request[c].route /\ r.for = request[c].for
  BY <1>0 DEF RequestStates
<1> HIDE DEF r
<1>3. CallOK(r)  BY <1>0, <1>2 DEF CallOK
<1>4. Entitled(r, log')  BY <1>0, <1>2 DEF Entitled
<1> QED  BY <1>1, <1>2, <1>3, <1>4, OneRequest, ToldStays

\* A step that shows nothing.
LEMMA InvKept ==
  ASSUME AccessInv, LogsKept, RequestsKept, AnswersKept, UNCHANGED <<shown, listed>>
  PROVE  AccessInv'
<1>1. ASSUME NEW s \in shown
      PROVE  Audited(log'[s.job], s.who)
  <2>1. s.job \in Jobs /\ s.who \in People  BY DEF AccessInv, AccessTypeOK
  <2>2. Audited(log[s.job], s.who)  BY DEF AccessInv, ReadIsAudited, Audited
  <2> QED  BY <2>1, <2>2 DEF LogsKept, More
<1>2. ReadIsAudited'  BY <1>1 DEF ReadIsAudited, Audited
<1>3. AccessTypeOK'  BY DEF AccessTypeOK, AccessInv, LogsKept, RequestsKept, AnswersKept
<1> QED  BY <1>2, <1>3 DEF AccessInv, LogsKept, RequestsKept, AnswersKept

-----------------------------------------------------------------------------
(* The steps. *)

LEMMA CreateKeeps ==
  ASSUME AccessInv, NEW c \in Requests, NEW p \in People, NEW j \in Jobs, Create(c, p, j)
  PROVE  AccessInv'
<1> DEFINE r == [Idle EXCEPT !.pc = "creating", !.who = p, !.job = j]
<1>1. LogsKept
  <2>1. dir' \in [Jobs -> {"none", "there", "damaged"}] /\ UNCHANGED log
    BY DEF Create, AccessInv, AccessTypeOK
  <2> QED  BY <2>1, MoreOfTheSame DEF LogsKept, AccessInv, AccessTypeOK
<1>2. request' = [request EXCEPT ![c] = r] /\ told' = Untold /\ UNCHANGED <<shown, listed>>
  BY DEF Create
<1>3. /\ r.pc = "creating" /\ r.who = p /\ r.job = j /\ r.route = Idle.route
      /\ r \in RequestStates
  BY IdleIsOne DEF RequestStates, Idle
<1> HIDE DEF r
<1>4. CallOK(r) /\ Entitled(r, log')  BY <1>3, IdleIsOne DEF CallOK, Entitled
<1> QED  BY <1>1, <1>2, <1>3, <1>4, OneRequest, ToldStays, InvKept

LEMMA CreatedKeeps ==
  ASSUME AccessInv, NEW c \in Requests, Created(c)
  PROVE  AccessInv'
<1> DEFINE r == request[c]
           e == Event("created", r.who, r.who)
<1>1. /\ Record(r.job, e) /\ request' = [request EXCEPT ![c] = Idle] /\ r.pc = "creating"
      /\ UNCHANGED <<shown, listed, told>>
  BY DEF Created
<1>2. r.who \in People /\ r.job \in Jobs
  BY <1>1 DEF AccessInv, AccessTypeOK, CallOK
<1>3. e \in Entries /\ e.kind \notin Acts  BY <1>2, EventIsOne DEF Acts, Kinds
<1> HIDE DEF e
<1>4. LogsKept  BY <1>1, <1>2, <1>3, LogsGrow DEF AccessInv
<1> QED  BY <1>1, <1>4, IdleIsOne, OneRequest, ToldStays, InvKept

LEMMA AskKeeps ==
  ASSUME AccessInv, NEW c \in Requests, NEW p \in People, NEW j \in Jobs,
         NEW route \in Offered, Ask(c, p, j, route)
  PROVE  AccessInv'
<1>1. PICK other \in IF route.does = "grant" THEN People ELSE {NoOne} :
         request' = [request EXCEPT ![c] = [pc |-> IF route.looks THEN "looking" ELSE "asking",
                                    who |-> p, job |-> j, route |-> route, for |-> other]]
  BY DEF Ask
<1> DEFINE r == [pc |-> IF route.looks THEN "looking" ELSE "asking",
                 who |-> p, job |-> j, route |-> route, for |-> other]
<1>2. route \in Routes /\ (route.does \in {"act", "grant"} => route.right = "act")
  BY OfferedIsOne
<1>3. other \in People \cup {NoOne} /\ (route.does = "grant" => other \in People)
  BY <1>1
<1>4. /\ r \in RequestStates /\ r.pc \in {"looking", "asking"} /\ r.who = p
      /\ r.job = j /\ r.route = route /\ r.for = other
  BY <1>2, <1>3 DEF RequestStates
<1>5. request' = [request EXCEPT ![c] = r]  BY <1>1
<1> HIDE DEF r
<1>6. CallOK(r) /\ Entitled(r, log')
  BY <1>2, <1>3, <1>4 DEF CallOK, Entitled
<1>7. UNCHANGED <<dir, log, shown, listed>> /\ told' = Untold  BY DEF Ask
<1>8. LogsKept  BY <1>7, LogsStay DEF AccessInv
<1> QED  BY <1>4, <1>5, <1>6, <1>7, <1>8, OneRequest, ToldStays, InvKept

LEMMA LookKeeps ==
  ASSUME AccessInv, NEW c \in Requests, Look(c) \/ Unreadable(c)
  PROVE  AccessInv'
<1>1. UNCHANGED <<dir, log, shown, listed>>  BY DEF Look, Unreadable
<1>2. LogsKept  BY <1>1, LogsStay DEF AccessInv
<1>3. CASE Reply(c, "no such job") \/ Reply(c, "internal")
  <2>1. "no such job" \in Codes /\ "internal" \in Codes  BY DEF Codes
  <2>2. RequestsKept /\ AnswersKept  BY <1>2, <1>3, <2>1, Answered
  <2> QED  BY <1>1, <1>2, <2>2, InvKept
<1>4. CASE request[c].pc = "looking" /\ Goto(c, "asking")
  <2>1. RequestsKept /\ AnswersKept  BY <1>2, <1>4, Gone
  <2> QED  BY <1>1, <1>2, <2>1, InvKept
<1> QED  BY <1>3, <1>4 DEF Look, Unreadable

LEMMA RequireActorKeeps ==
  ASSUME AccessInv, NEW c \in Requests, RequireActor(c)
  PROVE  AccessInv'
<1>1. UNCHANGED <<dir, log, shown, listed>> /\ request[c].pc = "asking"
  BY DEF RequireActor
<1>2. LogsKept  BY <1>1, LogsStay DEF AccessInv
<1>3. CASE MayAct(request[c].job, request[c].who)
  <2>1. Goto(c, "acting")  BY <1>3 DEF RequireActor
  <2>2. request[c].who \in OwnersIn(log'[request[c].job])
    BY <1>1, <1>3 DEF MayAct, Owners
  <2>3. RequestsKept /\ AnswersKept  BY <1>1, <1>2, <2>1, <2>2, Gone
  <2> QED  BY <1>1, <1>2, <2>3, InvKept
<1>4. CASE ~MayAct(request[c].job, request[c].who)
  <2>1. \/ request[c].who \in Auditors /\ Reply(c, "refused")
        \/ Reply(c, "hidden")
    BY <1>4 DEF RequireActor
  <2>2. "hidden" \in Codes /\ "refused" \in Codes  BY DEF Codes
  <2>3. RequestsKept /\ AnswersKept  BY <1>2, <2>1, <2>2, Answered
  <2> QED  BY <1>1, <1>2, <2>3, InvKept
<1> QED  BY <1>3, <1>4

LEMMA RequireVisibleKeeps ==
  ASSUME AccessInv, NEW c \in Requests, RequireVisible(c)
  PROVE  AccessInv'
<1> DEFINE r == request[c]
<1>1. /\ UNCHANGED <<shown, listed>> /\ r.pc = "asking" /\ r.route.right = "see"
  BY DEF RequireVisible
<1>2. r.who \in People /\ r.job \in Jobs  BY <1>1 DEF AccessInv, AccessTypeOK, CallOK
<1>3. CASE /\ r.who \in Owners(r.job) /\ Goto(c, "acting") /\ UNCHANGED <<dir, log>>
  <2>1. LogsKept  BY <1>3, LogsStay DEF AccessInv
  <2>2. r.who \in OwnersIn(log'[r.job])  BY <1>3 DEF Owners
  <2>3. RequestsKept /\ AnswersKept  BY <1>1, <1>3, <2>1, <2>2, Gone
  <2> QED  BY <1>1, <2>1, <2>3, InvKept
<1>4. CASE r.who \in Auditors /\ Audit(r.job, r.who) /\ Goto(c, "acting")
  <2> DEFINE e == Event("audited", r.who, NoOne)
  <2>1. Record(r.job, e)  BY <1>4 DEF Audit
  <2>2. e \in Entries /\ e.kind = "audited" /\ e.by = r.who
    BY <1>2, EventIsOne DEF Kinds
  <2> HIDE DEF e
  <2>3. LogsKept /\ log'[r.job] = Append(log[r.job], e)
    BY <1>2, <2>1, <2>2, LogsGrow DEF AccessInv, Acts
  <2>4. Audited(log'[r.job], r.who)
    <3>1. log[r.job] \in Seq(Entries)  BY <1>2 DEF AccessInv, AccessTypeOK
    <3>2. Len(log[r.job]) + 1 \in DOMAIN Append(log[r.job], e)
          /\ Append(log[r.job], e)[Len(log[r.job]) + 1] = e
      BY <2>2, <3>1
    <3> QED  BY <2>2, <2>3, <3>2 DEF Audited
  <2>5. RequestsKept /\ AnswersKept
    BY <1>1, <1>4, <2>3, <2>4, Gone
  <2> QED  BY <1>1, <2>3, <2>5, InvKept
<1>5. CASE r.who \in Auditors /\ RecordFails(r.job) /\ Reply(c, "failed")
  <2>1. LogsKept  BY <1>2, <1>5, LogsFail DEF AccessInv
  <2>2. "failed" \in Codes  BY DEF Codes
  <2>3. RequestsKept /\ AnswersKept  BY <1>5, <2>1, <2>2, Answered
  <2> QED  BY <1>1, <2>1, <2>3, InvKept
<1>6. CASE Reply(c, "hidden") /\ UNCHANGED <<dir, log>>
  <2>1. LogsKept  BY <1>6, LogsStay DEF AccessInv
  <2>2. "hidden" \in Codes  BY DEF Codes
  <2>3. RequestsKept /\ AnswersKept  BY <1>6, <2>1, <2>2, Answered
  <2> QED  BY <1>1, <2>1, <2>3, InvKept
<1> QED  BY <1>3, <1>4, <1>5, <1>6 DEF RequireVisible, Tells

LEMMA ShowKeeps ==
  ASSUME AccessInv, NEW c \in Requests, Show(c)
  PROVE  AccessInv'
<1> DEFINE r == request[c]
<1>1. /\ r.pc = "acting" /\ UNCHANGED listed
      /\ shown' = IF r.who \in Owners(r.job) THEN shown
                  ELSE shown \cup {[who |-> r.who, job |-> r.job]}
  BY DEF Show
<1>2. /\ r.who \in People /\ r.job \in Jobs
      /\ \/ r.who \in Owners(r.job)
         \/ r.who \in Auditors /\ Audited(log[r.job], r.who)
  BY <1>1 DEF AccessInv, AccessTypeOK, CallOK, Entitled, Owners
<1>3. PICK code \in {"ok", "failed"} : Reply(c, code)  BY DEF Show
<1>4. LogsKept
  <2>1. CASE UNCHANGED <<dir, log>>  BY <2>1, LogsStay DEF AccessInv
  <2>2. CASE /\ MayAct(r.job, r.who) /\ Record(r.job, Event("displayed", r.who, NoOne))
    <3> DEFINE e == Event("displayed", r.who, NoOne)
    <3>1. e \in Entries /\ e.by = r.who  BY <1>2, EventIsOne DEF Kinds
    <3>2. Record(r.job, e) /\ r.who \in Owners(r.job)  BY <2>2 DEF MayAct
    <3> HIDE DEF e
    <3> QED  BY <1>2, <3>1, <3>2, LogsGrow DEF AccessInv
  <2>3. CASE RecordFails(r.job)  BY <1>2, <2>3, LogsFail DEF AccessInv
  <2> QED  BY <2>1, <2>2, <2>3 DEF Show
<1>5. RequestsKept /\ AnswersKept
  <2>1. code \in Codes  BY DEF Codes
  <2> QED  BY <1>2, <1>3, <1>4, <2>1, Answered
<1>6. \A s \in shown' : s.who \in People /\ s.job \in Jobs /\ Audited(log[s.job], s.who)
  <2>1. \A s \in shown : s.who \in People /\ s.job \in Jobs /\ Audited(log[s.job], s.who)
    BY DEF AccessInv, AccessTypeOK, ReadIsAudited, Audited
  <2> QED  BY <1>1, <1>2, <2>1
<1>7. \A s \in shown' : Audited(log'[s.job], s.who)
  BY <1>4, <1>6 DEF LogsKept, More
<1>8. ReadIsAudited'  BY <1>7 DEF ReadIsAudited, Audited
<1>9. shown' \subseteq [who : People, job : Jobs]
  BY <1>1, <1>2 DEF AccessInv, AccessTypeOK
<1>10. AccessTypeOK'
  BY <1>1, <1>4, <1>5, <1>9 DEF AccessTypeOK, AccessInv, LogsKept, RequestsKept, AnswersKept
<1> QED  BY <1>4, <1>5, <1>8, <1>10 DEF AccessInv, LogsKept, RequestsKept, AnswersKept

LEMMA ActKeeps ==
  ASSUME AccessInv, NEW c \in Requests, Act(c) \/ Grant(c)
  PROVE  AccessInv'
<1> DEFINE r == request[c]
<1>1. /\ r.pc \in {"acting", "granting"} /\ UNCHANGED <<shown, listed>>
      /\ r.pc = "acting" => r.route.does = "act"
  BY DEF Act, Grant
<1>2. /\ r.who \in People /\ r.job \in Jobs /\ r.who \in Owners(r.job)
      /\ r.pc = "granting" => r.for \in People
  BY <1>1 DEF AccessInv, AccessTypeOK, CallOK, Entitled, Owners
<1>3. {"ok", "failed", "unusable", "refused"} \subseteq Codes  BY DEF Codes
<1>4. PICK code \in {"ok", "failed", "unusable", "refused"} : Reply(c, code)
  BY DEF Act, Grant
<1>5. LogsKept
  <2>1. CASE UNCHANGED <<dir, log>>  BY <2>1, LogsStay DEF AccessInv
  <2>2. CASE RecordFails(r.job)  BY <1>2, <2>2, LogsFail DEF AccessInv
  <2>3. CASE Act(c) /\ Record(r.job, Event("act", r.who, NoOne))
    <3> DEFINE e == Event("act", r.who, NoOne)
    <3>1. e \in Entries /\ e.by = r.who  BY <1>2, EventIsOne DEF Kinds
    <3>2. Record(r.job, e)  BY <2>3
    <3> HIDE DEF e
    <3> QED  BY <1>2, <3>1, <3>2, LogsGrow DEF AccessInv
  <2>4. CASE Grant(c) /\ Record(r.job, Event("owner", r.who, r.for))
    <3> DEFINE e == Event("owner", r.who, r.for)
    <3>0. r.for \in People  BY <1>2, <2>4 DEF Grant
    <3>1. e \in Entries /\ e.by = r.who  BY <1>2, <3>0, EventIsOne DEF Kinds
    <3>2. Record(r.job, e)  BY <2>4
    <3> HIDE DEF e
    <3> QED  BY <1>2, <3>1, <3>2, LogsGrow DEF AccessInv
  <2> QED  BY <2>1, <2>2, <2>3, <2>4 DEF Act, Grant
<1>6. RequestsKept /\ AnswersKept  BY <1>2, <1>3, <1>4, <1>5, Answered
<1> QED  BY <1>1, <1>5, <1>6, InvKept

LEMMA AddOwnerKeeps ==
  ASSUME AccessInv, NEW c \in Requests, AddOwner(c)
  PROVE  AccessInv'
<1> DEFINE r == request[c]
<1>1. /\ r.pc = "acting" /\ r.route.does = "grant" /\ UNCHANGED <<dir, log, shown, listed>>
      /\ Reply(c, "ok") \/ Goto(c, "granting")
  BY DEF AddOwner
<1>2. r.job \in Jobs /\ r.who \in Owners(r.job)
  BY <1>1 DEF AccessInv, AccessTypeOK, CallOK, Entitled, Owners
<1>3. LogsKept  BY <1>1, LogsStay DEF AccessInv
<1>4. RequestsKept /\ AnswersKept
  <2>1. CASE Reply(c, "ok")
    <3>1. "ok" \in Codes  BY DEF Codes
    <3> QED  BY <1>2, <1>3, <2>1, <3>1, Answered
  <2>2. CASE Goto(c, "granting")
    <3>1. r.who \in OwnersIn(log'[r.job])  BY <1>1, <1>2 DEF Owners
    <3> QED  BY <1>1, <1>3, <2>2, <3>1, Gone
  <2> QED  BY <1>1, <2>1, <2>2
<1> QED  BY <1>1, <1>3, <1>4, InvKept

LEMMA ListKeeps ==
  ASSUME AccessInv, NEW c \in Requests, NEW p \in People, List(c, p)
  PROVE  AccessInv'
<1>1. UNCHANGED <<dir, log, request, shown>>  BY DEF List
<1>2. told'.to = "lister" /\ told'.code \in Codes
  <2>1. told' = Told("lister", "failed", "ok") \/ told' = Told("lister", "ok", "ok")
    BY DEF List
  <2>2. ASSUME NEW code \in {"failed", "ok"}, told' = Told("lister", code, "ok")
        PROVE  told'.to = "lister" /\ told'.code \in Codes
    BY <2>2 DEF Told, Codes
  <2> QED  BY <2>1, <2>2
<1>3. listed' \subseteq [who : People, job : Jobs]
  <2>1. JobsFor(p) \subseteq Jobs /\ SoleOwnedBy(p) \subseteq Jobs
    BY DEF JobsFor, SoleOwnedBy
  <2>2. PICK jobs \in {JobsFor(p), SoleOwnedBy(p)} :
          \/ UNCHANGED listed
          \/ listed' = listed \cup {[who |-> p, job |-> j] :
                                     j \in {i \in jobs : p \notin Owners(i)}}
    BY DEF List
  <2>3. listed \subseteq [who : People, job : Jobs]  BY DEF AccessInv, AccessTypeOK
  <2> QED  BY <2>1, <2>2, <2>3
<1>4. AccessTypeOK'  BY <1>1, <1>2, <1>3 DEF AccessInv, AccessTypeOK
<1> QED  BY <1>1, <1>2, <1>4
    DEF AccessInv, ReadIsAudited, StrangersGetNothing

LEMMA OthersKeep ==
  ASSUME AccessInv,
         \/ \E j \in Jobs : Damage(j)
         \/ \E j \in Jobs, p \in People : Command(p, j)
         \/ \E c \in Requests : Abandon(c)
  PROVE  AccessInv'
<1>1. CASE \E j \in Jobs : Damage(j)
  <2>1. PICK j \in Jobs : Damage(j)  BY <1>1
  <2>2. dir' \in [Jobs -> {"none", "there", "damaged"}] /\ UNCHANGED log
    BY <2>1 DEF Damage, AccessInv, AccessTypeOK
  <2>3. LogsKept  BY <2>2, MoreOfTheSame DEF LogsKept, AccessInv, AccessTypeOK
  <2>4. UNCHANGED <<request, shown, listed, told>>  BY <2>1 DEF Damage
  <2> QED  BY <2>3, <2>4, RequestsStay, ToldStays, InvKept
<1>2. CASE \E j \in Jobs, p \in People : Command(p, j)
  <2>1. PICK j \in Jobs, p \in People : Command(p, j)  BY <1>2
  <2> DEFINE e == Event("command", p, NoOne)
  <2>2. Record(j, e) /\ UNCHANGED <<request, shown, listed, told>>  BY <2>1 DEF Command
  <2>3. e \in Entries /\ e.kind \notin Acts  BY EventIsOne DEF Kinds, Acts
  <2> HIDE DEF e
  <2>4. LogsKept  BY <2>2, <2>3, LogsGrow DEF AccessInv
  <2> QED  BY <2>2, <2>4, RequestsStay, ToldStays, InvKept
<1>3. CASE \E c \in Requests : Abandon(c)
  <2>1. PICK c \in Requests : Abandon(c)  BY <1>3
  <2>2. /\ UNCHANGED <<dir, log, shown, listed, told>>
        /\ request' = [request EXCEPT ![c] = Idle]
    BY <2>1 DEF Abandon
  <2>3. LogsKept  BY <2>2, LogsStay DEF AccessInv
  <2> QED  BY <2>2, <2>3, IdleIsOne, OneRequest, ToldStays, InvKept
<1> QED  BY <1>1, <1>2, <1>3

LEMMA InvFirst == AccessInit => AccessInv
<1> SUFFICES ASSUME AccessInit  PROVE AccessInv
  OBVIOUS
<1>1. AccessTypeOK
  <2>1. log \in [Jobs -> Seq(Entries)] /\ dir \in [Jobs -> {"none", "there", "damaged"}]
    BY DEF AccessInit
  <2>2. request \in [Requests -> RequestStates] /\ \A c \in Requests : CallOK(request[c])
    BY IdleIsOne DEF AccessInit
  <2>3. told.code \in Codes  BY DEF AccessInit, Untold, Told, Codes
  <2> QED  BY <2>1, <2>2, <2>3 DEF AccessInit, AccessTypeOK
<1>2. \A j \in Jobs : Rightful(log[j])  BY DEF AccessInit, Rightful
<1>3. \A c \in Requests : Entitled(request[c], log)  BY IdleIsOne DEF AccessInit
<1>4. ReadIsAudited /\ StrangersGetNothing
  BY DEF AccessInit, ReadIsAudited, StrangersGetNothing, Untold, Told
<1> QED  BY <1>1, <1>2, <1>3, <1>4 DEF AccessInv

LEMMA InvStays == AccessInv /\ [AccessNext]_AccessVars => AccessInv'
<1> SUFFICES ASSUME AccessInv, [AccessNext]_AccessVars  PROVE AccessInv'
  OBVIOUS
<1>1. ASSUME NEW c \in Requests, Created(c)  PROVE AccessInv'
  BY <1>1, CreatedKeeps
<1>2. ASSUME NEW c \in Requests, Look(c) \/ Unreadable(c)  PROVE AccessInv'
  BY <1>2, LookKeeps
<1>3. ASSUME NEW c \in Requests, RequireActor(c)  PROVE AccessInv'
  BY <1>3, RequireActorKeeps
<1>4. ASSUME NEW c \in Requests, RequireVisible(c)  PROVE AccessInv'
  BY <1>4, RequireVisibleKeeps
<1>5. ASSUME NEW c \in Requests, Show(c)  PROVE AccessInv'
  BY <1>5, ShowKeeps
<1>6. ASSUME NEW c \in Requests, Act(c) \/ Grant(c)  PROVE AccessInv'
  BY <1>6, ActKeeps
<1>7. ASSUME NEW c \in Requests, AddOwner(c)  PROVE AccessInv'
  BY <1>7, AddOwnerKeeps
<1>8. ASSUME NEW c \in Requests, NEW p \in People, List(c, p)  PROVE AccessInv'
  BY <1>8, ListKeeps
<1>9. ASSUME NEW c \in Requests, NEW p \in People, NEW j \in Jobs, Create(c, p, j)
      PROVE  AccessInv'
  BY <1>9, CreateKeeps
<1>10. ASSUME NEW c \in Requests, NEW p \in People, NEW j \in Jobs,
              NEW route \in Offered, Ask(c, p, j, route)
       PROVE  AccessInv'
  BY <1>10, AskKeeps
<1>11. ASSUME \/ \E j \in Jobs : Damage(j)
              \/ \E j \in Jobs, p \in People : Command(p, j)
              \/ \E c \in Requests : Abandon(c)
       PROVE  AccessInv'
  BY <1>11, OthersKeep
<1>12. CASE UNCHANGED AccessVars
  BY <1>12 DEF AccessVars, AccessInv, AccessTypeOK, ReadIsAudited, StrangersGetNothing
<1> QED
  BY <1>1, <1>2, <1>3, <1>4, <1>5, <1>6, <1>7, <1>8, <1>9, <1>10, <1>11, <1>12 DEF AccessNext

LEMMA InvImplies ==
  AccessInv => AccessTypeOK /\ ActedAsOwner /\ ReadIsAudited /\ StrangersGetNothing
BY DEF AccessInv, ActedAsOwner, Rightful, Acts

(* Type correctness of access: for any people, auditors, jobs and number   *)
(* of requests at once.                                                    *)
THEOREM AccessTypeCorrect == AccessSpec => []AccessTypeOK
BY InvFirst, InvStays, InvImplies, PTL DEF AccessSpec

(* However requests look, ask and act between one another: what stands in  *)
(* a job's log as an act was the act of an owner, by what stands before it.*)
THEOREM OnlyOwnersAct == AccessSpec => []ActedAsOwner
BY InvFirst, InvStays, InvImplies, PTL DEF AccessSpec

(* Nobody who does not own a job is shown it before the log has it.        *)
THEOREM NoReadingUnaudited == AccessSpec => []ReadIsAudited
BY InvFirst, InvStays, InvImplies, PTL DEF AccessSpec

(* Nothing is done for a stranger, or shown to one, by any route and in    *)
(* any order of requests.                                                  *)
THEOREM NothingForStrangers == AccessSpec => []StrangersGetNothing
BY InvFirst, InvStays, InvImplies, PTL DEF AccessSpec
=============================================================================
