--------------------------- MODULE PairingGateway ---------------------------
(***************************************************************************)
(* Pairing a headset with the read-only LAN gateway.  The gateway and the  *)
(* command line are processes of their own that share two secret files;    *)
(* the command line shows the code of the pairing secret and the present   *)
(* window, the gateway takes it once, replaces the secret and issues a     *)
(* session.  Both may be killed between any two steps.                     *)
(*                                                                         *)
(* Time is counted in pairing windows, and a window of failures, as long,  *)
(* is taken to begin with one.  Codes of different secrets or windows are  *)
(* taken to differ, although six digits may collide.                       *)
(***************************************************************************)
EXTENDS Integers, FiniteSets, DaemonProcess

CONSTANTS
  Client,         \* addresses of headsets
  Post,           \* requests the gateway has in hand at once
  FailureLimit,   \* PAIR_FAILURE_LIMIT
  SessionTtl,     \* SESSION_TTL_MS, in pairing windows
  MaxTime,        \* bound on the clock
  MaxSecrets      \* bound on the secrets ever drawn

ASSUME PairingAssumption ==
  /\ Client # {}
  /\ FailureLimit \in Nat \ {0} /\ SessionTtl \in Nat \ {0}
  /\ MaxTime \in Nat /\ MaxSecrets \in Nat

VARIABLES
  file,        \* the secret files
  made,        \* how many secrets have been drawn; they are 1 .. made
  process,     \* the gateway's and the command line's process
  exchanging,  \* LanMrPairingAuthority.exchanging
  post,        \* requests to the gateway
  failures,    \* pairFailures
  shown,       \* codes the command line has shown
  issued,      \* sessions ever issued, with the secret that was given for them
  now

disk == <<file, made>>
memory == <<exchanging, post, failures>>
gatewayVars == <<file, made, process, exchanging, post, failures, shown, issued, now>>

File == {"pairing", "session"}
Absent == -1
Empty == 0
Complete(content) == content > 0

Off == [stage |-> "off", next |-> "pairing", drawn |-> Empty,
        secret |-> [f \in File |-> Absent]]
NoPost == [stage |-> "idle", client |-> CHOOSE c \in Client : TRUE,
           code |-> [secret |-> Absent, window |-> 0], drawn |-> Empty]
NoFailure == [count |-> 0, at |-> 0]

GatewayInit ==
  /\ file = [f \in File |-> Absent]
  /\ made = 0
  /\ process = [p \in {"gateway", "cli"} |-> Off]
  /\ exchanging = FALSE
  /\ post = [r \in Post |-> NoPost]
  /\ failures = [c \in Client |-> NoFailure]
  /\ shown = {}
  /\ issued = {}
  /\ now = 0

Draw(n) == made + n <= MaxSecrets /\ made' = made + n

Tick ==
  /\ now < MaxTime
  /\ now' = now + 1
  /\ UNCHANGED <<disk, process, memory, shown, issued>>

-----------------------------------------------------------------------------
(* Starting: loadOrCreateSecret on one file and then on the other *)

Launch(p) ==
  /\ process[p].stage = "off"
  /\ process' = [process EXCEPT ![p] = [Off EXCEPT !.stage = "opening"]]
  /\ UNCHANGED <<disk, memory, shown, issued, now>>

\* A process that has its second secret goes on: the command line shows the
\* code and ends, the gateway waits for the daemon.
CodeOf(secret, window) == [secret |-> secret, window |-> window]

Loaded(p, secret) ==
  LET q == [process[p] EXCEPT !.secret[process[p].next] = secret, !.drawn = Empty]
  IN IF q.next = "pairing"
     THEN /\ process' = [process EXCEPT ![p] = [q EXCEPT !.stage = "opening", !.next = "session"]]
          /\ UNCHANGED shown
     ELSE IF p = "cli"
     THEN /\ process' = [process EXCEPT ![p] = Off]
          /\ shown' = shown \cup {CodeOf(q.secret["pairing"], now)}
     ELSE /\ process' = [process EXCEPT ![p] = [q EXCEPT !.stage = "waiting"]]
          /\ UNCHANGED shown

\* open(path, 'wx'): whoever comes first creates the file and draws its secret.
CreateFile(p) ==
  /\ process[p].stage = "opening"
  /\ file[process[p].next] = Absent
  /\ Draw(1)
  /\ file' = [file EXCEPT ![process[p].next] = Empty]
  /\ process' = [process EXCEPT ![p].stage = "writing", ![p].drawn = made + 1]
  /\ UNCHANGED <<memory, shown, issued, now>>

WriteFile(p) ==
  /\ process[p].stage = "writing"
  /\ file' = [file EXCEPT ![process[p].next] = process[p].drawn]
  /\ Loaded(p, process[p].drawn)
  /\ UNCHANGED <<made, memory, issued, now>>

ReadFile(p) ==
  /\ process[p].stage = "opening"
  /\ Complete(file[process[p].next])
  /\ Loaded(p, file[process[p].next])
  /\ UNCHANGED <<disk, memory, issued, now>>

\* "Invalid Boron LAN MR secret": the file is there and not of 32 bytes.
RefuseFile(p) ==
  /\ process[p].stage = "opening"
  /\ file[process[p].next] = Empty
  /\ process' = [process EXCEPT ![p] = Off]
  /\ UNCHANGED <<disk, memory, shown, issued, now>>

\* waitForLanMrDaemon, listen
Serve ==
  /\ process["gateway"].stage = "waiting"
  /\ daemon = "up"
  /\ process' = [process EXCEPT !["gateway"].stage = "up"]
  /\ UNCHANGED <<disk, memory, shown, issued, now>>

NoDaemon ==
  /\ process["gateway"].stage = "waiting"
  /\ daemon = "down"
  /\ process' = [process EXCEPT !["gateway"] = Off]
  /\ UNCHANGED <<disk, memory, shown, issued, now>>

\* What a process had in memory goes with it.
KillCli ==
  /\ process["cli"].stage # "off"
  /\ process' = [process EXCEPT !["cli"] = Off]
  /\ UNCHANGED <<disk, memory, shown, issued, now>>

KillGateway ==
  /\ process["gateway"].stage # "off"
  /\ process' = [process EXCEPT !["gateway"] = Off]
  /\ exchanging' = FALSE
  /\ post' = [r \in Post |-> NoPost]
  /\ failures' = [c \in Client |-> NoFailure]
  /\ UNCHANGED <<disk, shown, issued, now>>

-----------------------------------------------------------------------------
(* POST /pair *)

Up == process["gateway"].stage = "up"
Held == process["gateway"].secret

Elapsed(entry) == now - entry.at >= 1

\* recordPairFailure
Failed(c) ==
  failures' = [failures EXCEPT ![c] =
    IF failures[c].count = 0 \/ Elapsed(failures[c]) THEN [count |-> 1, at |-> now]
    ELSE [failures[c] EXCEPT !.count = @ + 1]]

Answered(r) == post' = [post EXCEPT ![r] = NoPost]

\* The limit is checked before the body is read; a client over the limit is
\* answered 429, which changes nothing.
PostCode(r, c, code) ==
  /\ Up
  /\ post[r].stage = "idle"
  /\ failures[c].count < FailureLimit \/ Elapsed(failures[c])
  /\ failures' = [failures EXCEPT ![c] = IF Elapsed(@) THEN NoFailure ELSE @]
  /\ post' = [post EXCEPT ![r] =
       [NoPost EXCEPT !.stage = "reading", !.client = c, !.code = code]]
  /\ UNCHANGED <<disk, process, exchanging, shown, issued, now>>

\* The body is too long or does not parse: 413 or 502, and no failure counted.
RejectBody(r) ==
  /\ post[r].stage = "reading"
  /\ Answered(r)
  /\ UNCHANGED <<disk, process, exchanging, failures, shown, issued, now>>

\* (Mutant of Admitted: an exchange that is under way is not looked at.)
AdmittedAnyTime(code) == code = CodeOf(Held["pairing"], now)
Admitted(code) == ~exchanging /\ code = CodeOf(Held["pairing"], now)

Exchange(r) ==
  /\ post[r].stage = "reading"
  /\ Admitted(post[r].code)
  /\ Draw(1)
  /\ exchanging' = TRUE
  /\ post' = [post EXCEPT ![r].stage = "replacing", ![r].drawn = made + 1]
  /\ UNCHANGED <<file, process, failures, shown, issued, now>>

Refuse(r) ==
  /\ post[r].stage = "reading"
  /\ ~Admitted(post[r].code)
  /\ Failed(post[r].client)
  /\ Answered(r)
  /\ UNCHANGED <<disk, process, exchanging, shown, issued, now>>

\* replaceSecret: the replacement is written to a file of its own ...
\* (Mutant of WriteTemporary: it is written where the secret is.)
WriteInPlace(r) ==
  /\ post[r].stage = "replacing"
  /\ file' = [file EXCEPT !["pairing"] = Empty]
  /\ post' = [post EXCEPT ![r].stage = "written"]
  /\ UNCHANGED <<made, process, exchanging, failures, shown, issued, now>>
WriteTemporary(r) ==
  /\ post[r].stage = "replacing"
  /\ post' = [post EXCEPT ![r].stage = "written"]
  /\ UNCHANGED <<disk, process, exchanging, failures, shown, issued, now>>

\* ... and renamed.
Rename(r) ==
  /\ post[r].stage = "written"
  /\ file' = [file EXCEPT !["pairing"] = post[r].drawn]
  /\ post' = [post EXCEPT ![r].stage = "renamed"]
  /\ UNCHANGED <<made, process, exchanging, failures, shown, issued, now>>

ReplaceFails(r) ==
  /\ post[r].stage \in {"replacing", "written"}
  /\ exchanging' = FALSE
  /\ Answered(r)
  /\ UNCHANGED <<disk, process, failures, shown, issued, now>>

\* Back in exchange: the secret in memory follows, and the session is issued.
Issue(r) ==
  /\ post[r].stage = "renamed"
  /\ process' = [process EXCEPT !["gateway"].secret["pairing"] = post[r].drawn]
  /\ issued' = issued \cup
       {[nonce |-> Cardinality(issued) + 1, client |-> post[r].client, code |-> post[r].code,
         exp |-> now + SessionTtl, key |-> Held["session"]]}
  /\ exchanging' = FALSE
  /\ failures' = [failures EXCEPT ![post[r].client] = NoFailure]
  /\ Answered(r)
  /\ UNCHANGED <<disk, shown, now>>

-----------------------------------------------------------------------------
(* Reads of a paired client *)

\* verifySession
HasSession(c) ==
  \E s \in issued : s.key = Held["session"] /\ s.client = c /\ s.exp > now

\* Without a session a read is redirected or refused, which changes nothing.
PostRead(r, c) ==
  /\ Up
  /\ post[r].stage = "idle"
  /\ HasSession(c)
  /\ post' = [post EXCEPT ![r] = [NoPost EXCEPT !.stage = "forwarding", !.client = c]]
  /\ UNCHANGED <<disk, process, exchanging, failures, shown, issued, now>>

\* forwardRead: the daemon's answer, or 502 when it is down or late.
AnswerRead(r) ==
  /\ post[r].stage = "forwarding"
  /\ Answered(r)
  /\ UNCHANGED <<disk, process, exchanging, failures, shown, issued, now>>

-----------------------------------------------------------------------------
\* What a headset may send: a code it has been shown, or a wrong one.
WrongCode == CodeOf(Absent, 0)

GatewayNext ==
  \/ Tick
  \/ \E p \in {"gateway", "cli"} :
       Launch(p) \/ CreateFile(p) \/ WriteFile(p) \/ ReadFile(p) \/ RefuseFile(p)
  \/ Serve \/ NoDaemon \/ KillCli \/ KillGateway
  \/ \E r \in Post, c \in Client :
       \/ \E code \in shown \cup {WrongCode} : PostCode(r, c, code)
       \/ PostRead(r, c)
  \/ \E r \in Post :
       \/ RejectBody(r) \/ Exchange(r) \/ Refuse(r)
       \/ WriteTemporary(r) \/ Rename(r) \/ ReplaceFails(r) \/ Issue(r)
       \/ AnswerRead(r)

\* Whatever the daemon does meanwhile.
GatewaySpec == GatewayInit /\ [][GatewayNext]_gatewayVars

-----------------------------------------------------------------------------
Secret == 0 .. made
ProcessState ==
  [stage : {"off", "opening", "writing", "waiting", "up"}, next : File, drawn : Secret,
   secret : [File -> Secret \cup {Absent}]]
PostState ==
  [stage : {"idle", "reading", "replacing", "written", "renamed", "forwarding"},
   client : Client, code : [secret : Secret \cup {Absent}, window : Nat], drawn : Secret]
Failures == [count : Nat, at : Nat]
Issued == [nonce : Nat, client : Client, code : [secret : Secret, window : Nat],
           exp : Nat, key : Secret]

GatewayTypeOK ==
  /\ made \in Nat /\ now \in Nat
  /\ file \in [File -> Secret \cup {Absent}]
  /\ process \in [{"gateway", "cli"} -> ProcessState]
  /\ exchanging \in BOOLEAN
  /\ post \in [Post -> PostState]
  /\ failures \in [Client -> Failures]
  /\ shown \subseteq [secret : Secret, window : Nat]
  /\ issued \subseteq Issued

\* No two sessions are ever issued for one pairing secret: not to two requests
\* that give the same code while its secret is being replaced, and not after
\* the gateway was killed between replacing the secret and answering.
CodeUsedOnce == \A s, t \in issued : s.code.secret = t.code.secret => s = t

\* A secret file once written is never without a whole secret again, wherever
\* a process is killed or a replacement fails: the next start can read it.
SecretSurvives == [][\A f \in File : Complete(file[f]) => Complete(file'[f])]_gatewayVars
==============================================================================
