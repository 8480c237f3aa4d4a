------------------------ MODULE PairingGatewayProofs -------------------------
(***************************************************************************)
(* Proofs about PairingGateway, for any headsets, any number of requests   *)
(* in hand, any limits and whatever the daemon does.  The inductive        *)
(* invariant follows a pairing secret from the file it is created in to    *)
(* the exchange that retires it.                                           *)
(***************************************************************************)
EXTENDS PairingGateway, FiniteSetTheorems, TLAPS

Process == {"gateway", "cli"}
Drawn == 1 .. made

\* An empty file has one process that is about to write it.  A process that has
\* loaded a secret has a complete one, and the pairing file stays complete.
LoadedWhole ==
  /\ \A p \in Process :
       /\ process[p].stage = "writing" =>
            file[process[p].next] = Empty /\ process[p].drawn \in Drawn
       /\ process[p].next = "session" =>
            process[p].secret["pairing"] \in Drawn /\ Complete(file["pairing"])
       /\ process[p].stage \in {"waiting", "up"} =>
            process[p].next = "session" /\ process[p].secret["session"] \in Drawn
  /\ \A p, q \in Process :
       /\ process[p].stage = "writing" /\ process[q].stage = "writing"
       /\ process[p].next = process[q].next
       => p = q

Exchanging(r) == post[r].stage \in {"replacing", "written", "renamed"}

\* At most one exchange is under way; it was admitted with the secret the
\* gateway still has in memory, and its replacement is another one.
OneExchange ==
  /\ \A r \in Post : post[r].stage # "idle" => Up
  /\ \A r \in Post : Exchanging(r) =>
       /\ exchanging
       /\ post[r].drawn \in Drawn
       /\ post[r].code.secret = Held["pairing"]
       /\ post[r].drawn # Held["pairing"]
       /\ post[r].stage = "renamed" => file["pairing"] = post[r].drawn
  /\ \A q, r \in Post : Exchanging(q) /\ Exchanging(r) => q = r

\* A secret that a session was issued for is nowhere any more: not in the file,
\* not in the gateway's memory, not about to be written to either.
Retired(n) ==
  /\ n \in Drawn
  /\ n # file["pairing"]
  /\ process["gateway"].next = "session" => n # Held["pairing"]
  /\ \A r \in Post : Exchanging(r) => n # post[r].drawn
  /\ \A p \in Process :
       process[p].stage = "writing" /\ process[p].next = "pairing" => n # process[p].drawn

SecretsRetire == \A s \in issued : Retired(s.code.secret)

PairingInv ==
  /\ GatewayTypeOK /\ IsFiniteSet(issued)
  /\ LoadedWhole
  /\ OneExchange
  /\ SecretsRetire
  /\ CodeUsedOnce

-----------------------------------------------------------------------------
LEMMA InitPairing == GatewayInit => PairingInv
<1> SUFFICES ASSUME GatewayInit PROVE PairingInv
  OBVIOUS
<1>1. Off \in ProcessState /\ Off.stage = "off" /\ Off.next = "pairing"
  BY DEF Off, ProcessState, GatewayInit, Secret, Absent, Empty, File
<1>2. NoPost.client \in Client /\ NoPost.stage = "idle"
  BY PairingAssumption DEF NoPost
<1>3. GatewayTypeOK
  <2>1. NoPost \in PostState
    BY <1>2 DEF GatewayInit, NoPost, PostState, Secret, Absent, Empty
  <2>2. NoFailure \in Failures
    BY DEF NoFailure, Failures
  <2>3. made \in Nat /\ now \in Nat /\ file \in [File -> Secret \cup {Absent}]
    BY DEF GatewayInit
  <2>4. exchanging \in BOOLEAN
    BY DEF GatewayInit
  <2> QED
    BY <1>1, <2>1, <2>2, <2>3, <2>4 DEF GatewayInit, GatewayTypeOK
<1>4. IsFiniteSet(issued)
  BY FS_EmptySet DEF GatewayInit
<1>5. LoadedWhole
  BY <1>1 DEF GatewayInit, LoadedWhole, Process
<1>6. OneExchange
  BY <1>2 DEF GatewayInit, OneExchange, Exchanging
<1> QED
  BY <1>3, <1>4, <1>5, <1>6 DEF GatewayInit, PairingInv, SecretsRetire, CodeUsedOnce

\* What loading a secret leaves of a process.
LEMMA LoadedProcess ==
  ASSUME NEW p \in Process, NEW secret \in Drawn, GatewayTypeOK, Loaded(p, secret)
  PROVE  /\ process'[p] \in ProcessState
         /\ process' = [process EXCEPT ![p] = process'[p]]
         /\ process'[p].stage # "writing" /\ process'[p].stage # "up"
         /\ process'[p].stage = "waiting" =>
              /\ p = "gateway" /\ process[p].next = "session"
              /\ process'[p].next = "session" /\ process'[p].secret["session"] = secret
         /\ process'[p].next = "session" =>
              process'[p].secret["pairing"] =
                IF process[p].next = "pairing" THEN secret ELSE process[p].secret["pairing"]
         /\ shown' \subseteq shown \cup {CodeOf(process[p].secret["pairing"], now)}
         /\ shown' # shown => process[p].next = "session"
<1> DEFINE q == [process[p] EXCEPT !.secret[process[p].next] = secret, !.drawn = Empty]
<1>1. process[p] \in ProcessState /\ process \in [Process -> ProcessState] /\ made \in Nat
  BY DEF GatewayTypeOK, Process
<1>2. /\ q \in ProcessState /\ q.next = process[p].next
      /\ q.secret[process[p].next] = secret
      /\ process[p].next = "session" => q.secret["pairing"] = process[p].secret["pairing"]
  <2> DEFINE known == [process[p].secret EXCEPT ![process[p].next] = secret]
  <2>1. process[p].secret \in [File -> Secret \cup {Absent}] /\ process[p].next \in File
    BY <1>1 DEF ProcessState
  <2>2. secret \in Secret /\ Empty \in Secret
    BY <1>1 DEF Drawn, Secret, Empty
  <2>3. /\ known \in [File -> Secret \cup {Absent}]
        /\ known[process[p].next] = secret
        /\ process[p].next = "session" => known["pairing"] = process[p].secret["pairing"]
    BY <2>1, <2>2 DEF File
  <2>4. q = [process[p] EXCEPT !.secret = known, !.drawn = Empty]
    OBVIOUS
  <2> HIDE DEF known
  <2> QED
    BY <1>1, <2>2, <2>3, <2>4 DEF ProcessState
<1>3. Off \in ProcessState /\ Off.stage = "off" /\ Off.next = "pairing"
  BY <1>1 DEF Off, ProcessState, Secret, Absent, Empty, File
<1>4. CASE q.next = "pairing"
  <2>1. /\ process' = [process EXCEPT ![p] = [q EXCEPT !.stage = "opening", !.next = "session"]]
        /\ shown' = shown
    BY <1>4 DEF Loaded
  <2>2. process'[p] = [q EXCEPT !.stage = "opening", !.next = "session"]
    BY <1>1, <2>1
  <2> QED
    BY <1>1, <1>2, <1>4, <2>1, <2>2 DEF ProcessState, File
<1>5. CASE q.next # "pairing" /\ p = "cli"
  <2>1. /\ process' = [process EXCEPT ![p] = Off]
        /\ shown' = shown \cup {CodeOf(q.secret["pairing"], now)}
    BY <1>5 DEF Loaded
  <2>2. process'[p] = Off
    BY <1>1, <2>1
  <2> QED
    BY <1>1, <1>2, <1>3, <1>5, <2>1, <2>2 DEF ProcessState, File
<1>6. CASE q.next # "pairing" /\ p # "cli"
  <2>1. process' = [process EXCEPT ![p] = [q EXCEPT !.stage = "waiting"]] /\ shown' = shown
    BY <1>6 DEF Loaded
  <2>2. process'[p] = [q EXCEPT !.stage = "waiting"]
    BY <1>1, <2>1
  <2> QED
    BY <1>1, <1>2, <1>6, <2>1, <2>2 DEF ProcessState, File, Process
<1> QED
  BY <1>4, <1>5, <1>6

-----------------------------------------------------------------------------
\* Secrets drawn earlier stay secrets when more are drawn.
LEMMA TypesGrow ==
  ASSUME GatewayTypeOK, NEW n \in Nat, made' = made + n
  PROVE  /\ Secret \subseteq Secret' /\ Drawn \subseteq Drawn'
         /\ ProcessState \subseteq ProcessState' /\ PostState \subseteq PostState'
         /\ Issued \subseteq Issued'
         /\ made' \in Nat /\ (n = 1 => made + 1 \in Drawn' /\ made + 1 \in Secret')
         /\ File' = File /\ Failures' = Failures /\ Absent' = Absent
<1>1. Secret \subseteq Secret' /\ Drawn \subseteq Drawn'
      /\ (n = 1 => made + 1 \in Drawn' /\ made + 1 \in Secret') /\ made' \in Nat
  BY DEF GatewayTypeOK, Secret, Drawn
<1>2. ProcessState \subseteq ProcessState' /\ PostState \subseteq PostState'
      /\ Issued \subseteq Issued'
  BY <1>1 DEF ProcessState, PostState, Issued, File, Absent
<1> QED
  BY <1>1, <1>2 DEF File, Failures, Absent

LEMMA TypeStep == PairingInv /\ [GatewayNext]_gatewayVars => (GatewayTypeOK /\ IsFiniteSet(issued))'
<1> SUFFICES ASSUME PairingInv, [GatewayNext]_gatewayVars
             PROVE  (GatewayTypeOK /\ IsFiniteSet(issued))'
  OBVIOUS
<1> USE DEF PairingInv
<1>0. /\ Off \in ProcessState /\ NoPost \in PostState /\ NoFailure \in Failures
      /\ Empty \in Secret /\ Absent \notin Secret /\ Drawn \subseteq Secret
  <2>1. Empty \in Secret /\ Absent \notin Secret /\ Drawn \subseteq Secret
    BY DEF GatewayTypeOK, Secret, Empty, Absent, Drawn
  <2>2. NoPost.client \in Client
    BY PairingAssumption DEF NoPost
  <2> QED
    BY <2>1, <2>2 DEF Off, NoPost, NoFailure, ProcessState, PostState, Failures, File
<1>1. ASSUME made' = made
      PROVE  /\ Secret' = Secret /\ ProcessState' = ProcessState /\ PostState' = PostState
             /\ Issued' = Issued /\ made' \in Nat
  BY <1>1 DEF Secret, ProcessState, PostState, Issued, GatewayTypeOK
<1>2. CASE UNCHANGED gatewayVars
  BY <1>1, <1>2 DEF GatewayTypeOK, gatewayVars, disk, memory
<1>3. CASE Tick
  BY <1>1, <1>3 DEF Tick, GatewayTypeOK, disk, memory
<1>4. ASSUME NEW p \in Process, Launch(p) \/ RefuseFile(p)
      PROVE  (GatewayTypeOK /\ IsFiniteSet(issued))'
  <2>1. [Off EXCEPT !.stage = "opening"] \in ProcessState
    BY <1>0 DEF ProcessState
  <2> QED
    BY <1>0, <1>1, <1>4, <2>1 DEF Launch, RefuseFile, GatewayTypeOK, disk, memory
<1>5. ASSUME NEW p \in Process, CreateFile(p)
      PROVE  (GatewayTypeOK /\ IsFiniteSet(issued))'
  <2>1. made' = made + 1 /\ 1 \in Nat
    BY <1>5 DEF CreateFile, Draw
  <2>2. /\ Secret \subseteq Secret' /\ made' \in Nat /\ made + 1 \in Secret'
        /\ ProcessState \subseteq ProcessState' /\ PostState \subseteq PostState'
        /\ Issued \subseteq Issued'
    BY <2>1, TypesGrow
  <2>3. [process[p] EXCEPT !.stage = "writing", !.drawn = made + 1] \in ProcessState'
    BY <2>2 DEF GatewayTypeOK, ProcessState, Process
  <2>4. process' \in [Process -> ProcessState']
    BY <1>5, <2>2, <2>3 DEF CreateFile, GatewayTypeOK, Process
  <2>5. file' \in [File -> Secret' \cup {Absent}]
    BY <1>0, <1>5, <2>2 DEF CreateFile, GatewayTypeOK
  <2>6. shown \subseteq [secret : Secret', window : Nat]
    BY <2>2 DEF GatewayTypeOK
  <2> QED
    BY <1>5, <2>2, <2>4, <2>5, <2>6 DEF CreateFile, GatewayTypeOK, Process, memory
<1>6. ASSUME NEW p \in Process, WriteFile(p) \/ ReadFile(p)
      PROVE  (GatewayTypeOK /\ IsFiniteSet(issued))'
  <2>1. PICK secret \in Drawn :
          /\ Loaded(p, secret)
          /\ \/ file' = file
             \/ file' = [file EXCEPT ![process[p].next] = secret]
    <3>1. CASE WriteFile(p)
      BY <1>6, <3>1 DEF WriteFile, LoadedWhole
    <3>2. CASE ReadFile(p)
      <4>1. file[process[p].next] \in Drawn
        BY <3>2 DEF ReadFile, GatewayTypeOK, Complete, Process, ProcessState, Secret, Drawn, Absent
      <4> QED
        BY <3>2, <4>1 DEF ReadFile, disk
    <3> QED
      BY <1>6, <3>1, <3>2
  <2>2. made' = made /\ UNCHANGED <<memory, issued, now>>
    BY <1>6 DEF WriteFile, ReadFile, disk
  <2>3. process' \in [Process -> ProcessState]
    BY <2>1, LoadedProcess DEF GatewayTypeOK, Process
  <2>4. shown' \subseteq [secret : Secret, window : Nat]
    <3>1. CASE process[p].next = "session"
      <4>1. process[p].secret["pairing"] \in Secret
        BY <1>0, <3>1 DEF LoadedWhole
      <4>2. CodeOf(process[p].secret["pairing"], now) \in [secret : Secret, window : Nat]
        BY <4>1 DEF CodeOf, GatewayTypeOK
      <4> QED
        BY <2>1, <4>2, LoadedProcess DEF GatewayTypeOK
    <3>2. CASE process[p].next # "session"
      BY <2>1, <3>2, LoadedProcess DEF GatewayTypeOK
    <3> QED
      BY <3>1, <3>2
  <2>5. file' \in [File -> Secret \cup {Absent}]
    BY <1>0, <2>1 DEF GatewayTypeOK
  <2> QED
    BY <1>1, <2>2, <2>3, <2>4, <2>5 DEF GatewayTypeOK, Process, memory
<1>7. CASE Serve
  <2>1. [process["gateway"] EXCEPT !.stage = "up"] \in ProcessState
    BY DEF GatewayTypeOK, ProcessState
  <2> QED
    BY <1>1, <1>7, <2>1 DEF Serve, GatewayTypeOK, disk, memory
<1>8. CASE NoDaemon \/ KillCli \/ KillGateway
  BY <1>0, <1>1, <1>8 DEF NoDaemon, KillCli, KillGateway, GatewayTypeOK, disk, memory
<1>9. ASSUME NEW r \in Post, NEW c \in Client, NEW code \in shown \cup {WrongCode},
             PostCode(r, c, code)
      PROVE  (GatewayTypeOK /\ IsFiniteSet(issued))'
  <2>1. code \in [secret : Secret \cup {Absent}, window : Nat]
    BY DEF GatewayTypeOK, WrongCode, CodeOf
  <2>2. [NoPost EXCEPT !.stage = "reading", !.client = c, !.code = code] \in PostState
    BY <1>0, <2>1 DEF PostState
  <2>3. failures' \in [Client -> Failures]
    BY <1>0, <1>9 DEF PostCode, GatewayTypeOK
  <2> QED
    BY <1>1, <1>9, <2>2, <2>3 DEF PostCode, GatewayTypeOK, disk
<1>10. ASSUME NEW r \in Post, NEW c \in Client, PostRead(r, c)
       PROVE  (GatewayTypeOK /\ IsFiniteSet(issued))'
  <2>1. [NoPost EXCEPT !.stage = "forwarding", !.client = c] \in PostState
    BY <1>0 DEF PostState
  <2> QED
    BY <1>1, <1>10, <2>1 DEF PostRead, GatewayTypeOK, disk
<1>11. ASSUME NEW r \in Post, RejectBody(r) \/ AnswerRead(r) \/ ReplaceFails(r)
       PROVE  (GatewayTypeOK /\ IsFiniteSet(issued))'
  <2>1. post' \in [Post -> PostState]
    BY <1>0, <1>11 DEF RejectBody, AnswerRead, ReplaceFails, Answered, GatewayTypeOK
  <2>2. exchanging' \in BOOLEAN
    BY <1>11 DEF RejectBody, AnswerRead, ReplaceFails, GatewayTypeOK
  <2> QED
    BY <1>1, <1>11, <2>1, <2>2 DEF RejectBody, AnswerRead, ReplaceFails, GatewayTypeOK, disk
<1>12. ASSUME NEW r \in Post, Exchange(r)
       PROVE  (GatewayTypeOK /\ IsFiniteSet(issued))'
  <2>1. made' = made + 1 /\ 1 \in Nat
    BY <1>12 DEF Exchange, Draw
  <2>2. /\ Secret \subseteq Secret' /\ made' \in Nat /\ made + 1 \in Secret'
        /\ ProcessState \subseteq ProcessState' /\ PostState \subseteq PostState'
        /\ Issued \subseteq Issued'
    BY <2>1, TypesGrow
  <2>3. [post[r] EXCEPT !.stage = "replacing", !.drawn = made + 1] \in PostState'
    BY <2>2 DEF GatewayTypeOK, PostState
  <2>4. post' \in [Post -> PostState']
    BY <1>12, <2>2, <2>3 DEF Exchange, GatewayTypeOK
  <2>5. file \in [File -> Secret' \cup {Absent}] /\ shown \subseteq [secret : Secret', window : Nat]
    BY <2>2 DEF GatewayTypeOK
  <2>6. exchanging' \in BOOLEAN
    BY <1>12 DEF Exchange
  <2> QED
    BY <1>12, <2>2, <2>4, <2>5, <2>6 DEF Exchange, GatewayTypeOK
<1>13. ASSUME NEW r \in Post, Refuse(r)
       PROVE  (GatewayTypeOK /\ IsFiniteSet(issued))'
  <2>1. \A e \in Failures : [count |-> 1, at |-> now] \in Failures
                           /\ [e EXCEPT !.count = @ + 1] \in Failures
    BY DEF Failures, GatewayTypeOK
  <2>2. failures' \in [Client -> Failures]
    <3>1. \A c \in Client : failures[c] \in Failures
      BY DEF GatewayTypeOK
    <3>2. ASSUME NEW c \in Client, Failed(c)
          PROVE  failures' \in [Client -> Failures]
      <4> DEFINE entry == IF failures[c].count = 0 \/ Elapsed(failures[c])
                          THEN [count |-> 1, at |-> now]
                          ELSE [failures[c] EXCEPT !.count = @ + 1]
      <4>1. failures' = [failures EXCEPT ![c] = entry]
        BY <3>2 DEF Failed, Elapsed
      <4>2. entry \in Failures
        BY <2>1, <3>1
      <4> HIDE DEF entry
      <4> QED
        BY <4>1, <4>2 DEF GatewayTypeOK
    <3> QED
      BY <1>13, <3>2 DEF Refuse, GatewayTypeOK, PostState
  <2> QED
    BY <1>0, <1>1, <1>13, <2>2 DEF Refuse, Answered, GatewayTypeOK, disk
<1>14. ASSUME NEW r \in Post, WriteTemporary(r) \/ Rename(r)
       PROVE  (GatewayTypeOK /\ IsFiniteSet(issued))'
  <2>1. \A stage \in {"written", "renamed"} : [post[r] EXCEPT !.stage = stage] \in PostState
    BY DEF GatewayTypeOK, PostState
  <2>2. post' \in [Post -> PostState]
    BY <1>14, <2>1 DEF WriteTemporary, Rename, GatewayTypeOK
  <2>3. file' \in [File -> Secret \cup {Absent}]
    BY <1>14 DEF WriteTemporary, Rename, GatewayTypeOK, PostState, disk
  <2> QED
    BY <1>1, <1>14, <2>2, <2>3 DEF WriteTemporary, Rename, GatewayTypeOK, disk
<1>15. ASSUME NEW r \in Post, Issue(r)
       PROVE  (GatewayTypeOK /\ IsFiniteSet(issued))'
  <2> DEFINE s == [nonce |-> Cardinality(issued) + 1, client |-> post[r].client,
                   code |-> post[r].code, exp |-> now + SessionTtl, key |-> Held["session"]]
  <2>1. /\ Up /\ Held["session"] \in Drawn /\ Held["pairing"] \in Drawn
        /\ post[r].code.secret \in Drawn /\ post[r].drawn \in Drawn
    BY <1>15 DEF Issue, OneExchange, Exchanging, LoadedWhole, Up, Held, Process
  <2>2. s \in Issued
    <3>1. Cardinality(issued) + 1 \in Nat
      BY FS_CardinalityType
    <3>2. now + SessionTtl \in Nat
      BY PairingAssumption DEF GatewayTypeOK
    <3>3. post[r].client \in Client /\ post[r].code \in [secret : Secret, window : Nat]
      BY <1>0, <2>1 DEF GatewayTypeOK, PostState
    <3> QED
      BY <1>0, <2>1, <3>1, <3>2, <3>3 DEF Issued
  <2>3. issued' = issued \cup {s}
    BY <1>15 DEF Issue
  <2>4. IsFiniteSet(issued')
    BY <2>3, FS_AddElement
  <2>5. process' \in [{"gateway", "cli"} -> ProcessState]
    <3> DEFINE known == [Held EXCEPT !["pairing"] = post[r].drawn]
    <3>1. Held \in [File -> Secret \cup {Absent}] /\ process["gateway"] \in ProcessState
      BY DEF GatewayTypeOK, Held, ProcessState
    <3>2. known \in [File -> Secret \cup {Absent}]
      BY <1>0, <2>1, <3>1
    <3>3. process' = [process EXCEPT !["gateway"] = [process["gateway"] EXCEPT !.secret = known]]
      BY <1>15 DEF Issue, Held
    <3> HIDE DEF known
    <3>4. [process["gateway"] EXCEPT !.secret = known] \in ProcessState
      BY <3>1, <3>2 DEF ProcessState
    <3> QED
      BY <3>3, <3>4 DEF GatewayTypeOK
  <2>6. failures' \in [Client -> Failures] /\ post' \in [Post -> PostState]
    BY <1>0, <1>15 DEF Issue, Answered, GatewayTypeOK
  <2>7. exchanging' \in BOOLEAN
    BY <1>15 DEF Issue
  <2> HIDE DEF s
  <2> QED
    BY <1>1, <1>15, <2>2, <2>3, <2>4, <2>5, <2>6, <2>7 DEF Issue, GatewayTypeOK, disk
<1> QED
  BY <1>2, <1>3, <1>4, <1>5, <1>6, <1>7, <1>8, <1>9, <1>10, <1>11, <1>12, <1>13, <1>14, <1>15
  DEF GatewayNext, Process

-----------------------------------------------------------------------------
\* What loads a secret, and from where.
LEMMA LoadsFromFile ==
  ASSUME PairingInv, NEW p \in Process, WriteFile(p) \/ ReadFile(p)
  PROVE  \E secret \in Drawn :
           /\ Loaded(p, secret)
           /\ file'[process[p].next] = secret
           /\ \A f \in File : f # process[p].next => file'[f] = file[f]
           /\ process[p].stage = "writing" => secret = process[p].drawn
           /\ process[p].stage # "writing" => file' = file
           /\ file' \in [File -> Drawn \cup {Empty, Absent}]
<1> USE DEF PairingInv
<1>1. process[p].next \in File /\ file \in [File -> Drawn \cup {Empty, Absent}]
  BY DEF GatewayTypeOK, ProcessState, Process, Secret, Drawn, Empty
<1>2. CASE WriteFile(p)
  BY <1>1, <1>2 DEF WriteFile, LoadedWhole
<1>3. CASE ReadFile(p)
  <2>1. file[process[p].next] \in Drawn
    BY <1>1, <1>3 DEF ReadFile, Complete, Empty, Absent
  <2> QED
    BY <1>1, <1>3, <2>1 DEF ReadFile, disk
<1> QED
  BY <1>2, <1>3

LEMMA LoadedStep == PairingInv /\ [GatewayNext]_gatewayVars => LoadedWhole'
<1> SUFFICES ASSUME PairingInv, [GatewayNext]_gatewayVars
             PROVE  LoadedWhole'
  OBVIOUS
<1> USE DEF PairingInv
<1>0. /\ process \in [Process -> ProcessState] /\ Process' = Process
      /\ made \in Nat /\ file \in [File -> Secret \cup {Absent}]
      /\ \A p \in Process : process[p].next \in File
      /\ "gateway" \in Process /\ "pairing" \in File
  BY DEF GatewayTypeOK, Process, ProcessState, File
<1>1. CASE UNCHANGED <<process, file, made>>
  BY <1>1 DEF LoadedWhole, Drawn, Process
<1>2. ASSUME NEW p \in Process, UNCHANGED <<file, made>>,
             \E state \in {Off, [Off EXCEPT !.stage = "opening"]} :
               process' = [process EXCEPT ![p] = state]
      PROVE  LoadedWhole'
  <2>1. /\ process'[p].stage \in {"off", "opening"} /\ process'[p].next = "pairing"
        /\ \A q \in Process : q # p => process'[q] = process[q]
    BY <1>0, <1>2 DEF Off
  <2> QED
    BY <1>0, <1>2, <2>1 DEF LoadedWhole, Drawn
<1>3. ASSUME NEW p \in Process, CreateFile(p) PROVE LoadedWhole'
  <2>1. made' = made + 1 /\ made + 1 \in Drawn' /\ Drawn \subseteq Drawn'
    BY <1>0, <1>3 DEF CreateFile, Draw, Drawn
  <2>2. /\ process'[p] = [process[p] EXCEPT !.stage = "writing", !.drawn = made + 1]
        /\ \A q \in Process : q # p => process'[q] = process[q]
    BY <1>0, <1>3 DEF CreateFile
  <2>3. /\ process'[p].stage = "writing" /\ process'[p].next = process[p].next
        /\ process'[p].drawn = made + 1 /\ process'[p].secret = process[p].secret
    BY <1>0, <2>2 DEF ProcessState
  <2>4. /\ file[process[p].next] = Absent /\ file'[process[p].next] = Empty
        /\ \A f \in File : f # process[p].next => file'[f] = file[f]
    BY <1>0, <1>3 DEF CreateFile
  <2>5. \A q \in Process : q # p /\ process[q].stage = "writing" =>
          process[q].next # process[p].next
    BY <2>4 DEF LoadedWhole, Empty, Absent
  <2>6. Complete(file["pairing"]) => Complete(file'["pairing"])
    BY <1>0, <2>4 DEF Complete, Absent
  <2>7. ASSUME NEW q \in Process, process'[q].stage = "writing"
        PROVE  file'[process'[q].next] = Empty /\ process'[q].drawn \in Drawn'
    <3>1. CASE q = p
      BY <2>1, <2>3, <2>4, <3>1
    <3>2. CASE q # p
      BY <1>0, <2>1, <2>2, <2>4, <2>5, <2>7, <3>2 DEF LoadedWhole
    <3> QED
      BY <3>1, <3>2
  <2>8. ASSUME NEW q \in Process, process'[q].next = "session"
        PROVE  process'[q].secret["pairing"] \in Drawn' /\ Complete(file'["pairing"])
    <3>1. process[q].next = "session" /\ process'[q].secret = process[q].secret
      BY <2>2, <2>3, <2>8
    <3> QED
      BY <2>1, <2>6, <3>1 DEF LoadedWhole
  <2>9. ASSUME NEW q \in Process, process'[q].stage \in {"waiting", "up"}
        PROVE  process'[q].next = "session" /\ process'[q].secret["session"] \in Drawn'
    <3>1. q # p /\ process'[q] = process[q]
      BY <2>2, <2>3, <2>9
    <3> QED
      BY <2>1, <2>9, <3>1 DEF LoadedWhole
  <2>10. ASSUME NEW q \in Process, NEW v \in Process,
                process'[q].stage = "writing", process'[v].stage = "writing",
                process'[q].next = process'[v].next
         PROVE  q = v
    <3>1. CASE q # p /\ v # p
      BY <2>2, <2>10, <3>1 DEF LoadedWhole
    <3>2. CASE q = p /\ v # p
      BY <2>2, <2>3, <2>5, <2>10, <3>2
    <3>3. CASE q # p /\ v = p
      BY <2>2, <2>3, <2>5, <2>10, <3>3
    <3> QED
      BY <3>1, <3>2, <3>3
  <2> QED
    BY <1>0, <2>7, <2>8, <2>9, <2>10 DEF LoadedWhole
<1>4. ASSUME NEW p \in Process, WriteFile(p) \/ ReadFile(p) PROVE LoadedWhole'
  <2>1. PICK secret \in Drawn :
          /\ Loaded(p, secret)
          /\ file'[process[p].next] = secret
          /\ \A f \in File : f # process[p].next => file'[f] = file[f]
          /\ process[p].stage # "writing" => file' = file
    BY <1>4, LoadsFromFile
  <2>2. made' = made /\ Drawn' = Drawn
    BY <1>4 DEF WriteFile, ReadFile, disk, Drawn
  <2>3. /\ process' = [process EXCEPT ![p] = process'[p]]
        /\ process'[p].stage \notin {"writing", "up"}
        /\ process'[p].stage = "waiting" =>
             process'[p].next = "session" /\ process'[p].secret["session"] = secret
        /\ process'[p].next = "session" =>
             process'[p].secret["pairing"] =
               IF process[p].next = "pairing" THEN secret ELSE process[p].secret["pairing"]
    BY <2>1, LoadedProcess
  <2>4. \A q \in Process : q # p => process'[q] = process[q]
    BY <1>0, <2>3
  <2>5. Complete(file["pairing"]) => Complete(file'["pairing"])
    BY <1>0, <2>1 DEF Complete, Drawn
  <2>6. ASSUME NEW q \in Process, process'[q].stage = "writing"
        PROVE  file'[process'[q].next] = Empty /\ process'[q].drawn \in Drawn
    <3>1. q # p /\ process'[q] = process[q]
      BY <2>3, <2>4, <2>6
    <3>2. process[p].stage = "writing" => process[q].next # process[p].next
      BY <2>6, <3>1 DEF LoadedWhole
    <3> QED
      BY <1>0, <2>1, <2>6, <3>1, <3>2 DEF LoadedWhole
  <2>7. ASSUME NEW q \in Process, process'[q].next = "session"
        PROVE  process'[q].secret["pairing"] \in Drawn /\ Complete(file'["pairing"])
    <3>1. CASE q # p
      BY <2>4, <2>5, <2>7, <3>1 DEF LoadedWhole
    <3>2. CASE q = p /\ process[p].next = "pairing"
      BY <2>1, <2>3, <2>7, <3>2 DEF Complete, Drawn
    <3>3. CASE q = p /\ process[p].next = "session"
      BY <2>3, <2>5, <2>7, <3>3 DEF LoadedWhole
    <3> QED
      BY <1>0, <3>1, <3>2, <3>3 DEF File
  <2>8. ASSUME NEW q \in Process, process'[q].stage \in {"waiting", "up"}
        PROVE  process'[q].next = "session" /\ process'[q].secret["session"] \in Drawn
    BY <2>3, <2>4, <2>8 DEF LoadedWhole
  <2>9. \A q, v \in Process :
          process'[q].stage = "writing" /\ process'[v].stage = "writing"
          /\ process'[q].next = process'[v].next => q = v
    BY <2>3, <2>4 DEF LoadedWhole
  <2> QED
    BY <1>0, <2>2, <2>6, <2>7, <2>8, <2>9 DEF LoadedWhole
<1>5. CASE Serve
  <2>1. /\ process'["gateway"] = [process["gateway"] EXCEPT !.stage = "up"]
        /\ process["gateway"].stage = "waiting"
        /\ \A q \in Process : q # "gateway" => process'[q] = process[q]
        /\ UNCHANGED <<file, made>>
    BY <1>0, <1>5 DEF Serve, disk
  <2>2. /\ process'["gateway"].stage = "up"
        /\ process'["gateway"].next = process["gateway"].next
        /\ process'["gateway"].secret = process["gateway"].secret
    BY <1>0, <2>1 DEF ProcessState
  <2>3. Drawn' = Drawn
    BY <2>1 DEF Drawn
  <2>4. \A q \in Process :
          /\ process'[q].next = process[q].next /\ process'[q].secret = process[q].secret
          /\ process'[q].stage = "writing" =>
               process'[q] = process[q] /\ process[q].stage = "writing"
          /\ process'[q].stage \in {"waiting", "up"} => process[q].stage \in {"waiting", "up"}
    BY <2>1, <2>2
  <2> QED
    BY <1>0, <2>1, <2>3, <2>4 DEF LoadedWhole
<1>6. ASSUME NEW r \in Post, Exchange(r) PROVE LoadedWhole'
  BY <1>0, <1>6 DEF Exchange, Draw, Drawn, LoadedWhole
<1>7. ASSUME NEW r \in Post, Rename(r) PROVE LoadedWhole'
  <2>1. /\ Exchanging(r) /\ Up /\ post[r].drawn \in Drawn
        /\ process["gateway"].next = "session" /\ Complete(file["pairing"])
    BY <1>0, <1>7 DEF Rename, Exchanging, OneExchange, LoadedWhole, Up
  <2>2. /\ Complete(file'["pairing"]) /\ UNCHANGED <<process, made>>
        /\ \A f \in File : f # "pairing" => file'[f] = file[f]
    BY <1>0, <1>7, <2>1 DEF Rename, Complete, Drawn
  <2>3. \A q \in Process : process[q].stage = "writing" => process[q].next # "pairing"
    BY <2>1 DEF LoadedWhole, Complete, Empty
  <2> QED
    BY <1>0, <2>2, <2>3 DEF LoadedWhole, Drawn
<1>8. ASSUME NEW r \in Post, Issue(r) PROVE LoadedWhole'
  <2>1. /\ Exchanging(r) /\ Up /\ post[r].drawn \in Drawn
        /\ process["gateway"].next = "session" /\ Complete(file["pairing"])
    BY <1>0, <1>8 DEF Issue, Exchanging, OneExchange, LoadedWhole, Up
  <2>2. /\ process' = [process EXCEPT !["gateway"].secret["pairing"] = post[r].drawn]
        /\ UNCHANGED <<file, made>>
    BY <1>8 DEF Issue, disk
  <2>3. /\ process'["gateway"].stage = process["gateway"].stage
        /\ process'["gateway"].next = process["gateway"].next
        /\ process'["gateway"].secret["pairing"] = post[r].drawn
        /\ process'["gateway"].secret["session"] = process["gateway"].secret["session"]
        /\ \A q \in Process : q # "gateway" => process'[q] = process[q]
    BY <1>0, <2>2 DEF ProcessState, File
  <2> QED
    BY <1>0, <2>1, <2>2, <2>3 DEF LoadedWhole, Drawn, Up
<1> QED
  <2>1. CASE UNCHANGED gatewayVars
    BY <1>1, <2>1 DEF gatewayVars, disk
  <2>2. ASSUME NEW p \in Process, Launch(p) \/ RefuseFile(p) PROVE LoadedWhole'
    BY <1>2, <2>2 DEF Launch, RefuseFile, disk
  <2>3. CASE NoDaemon \/ KillGateway
    BY <1>0, <1>2, <2>3 DEF NoDaemon, KillGateway, disk
  <2>4. CASE KillCli
    BY <1>2, <2>4 DEF KillCli, disk, Process
  <2>5. CASE Tick
    BY <1>1, <2>5 DEF Tick, disk
  <2>6. ASSUME NEW r \in Post, NEW c \in Client,
               PostRead(r, c) \/ \E code \in shown \cup {WrongCode} : PostCode(r, c, code)
        PROVE  LoadedWhole'
    BY <1>1, <2>6 DEF PostRead, PostCode, disk
  <2>7. ASSUME NEW r \in Post,
               RejectBody(r) \/ Refuse(r) \/ WriteTemporary(r) \/ ReplaceFails(r) \/ AnswerRead(r)
        PROVE  LoadedWhole'
    BY <1>1, <2>7 DEF RejectBody, Refuse, WriteTemporary, ReplaceFails, AnswerRead, disk
  <2> QED
    BY <1>3, <1>4, <1>5, <1>6, <1>7, <1>8, <2>1, <2>2, <2>3, <2>4, <2>5, <2>6, <2>7
    DEF GatewayNext, Process

-----------------------------------------------------------------------------
LEMMA ExchangeStep == PairingInv /\ [GatewayNext]_gatewayVars => OneExchange'
<1> SUFFICES ASSUME PairingInv, [GatewayNext]_gatewayVars
             PROVE  OneExchange'
  OBVIOUS
<1> USE DEF PairingInv
<1>0. /\ process \in [Process -> ProcessState] /\ post \in [Post -> PostState]
      /\ made \in Nat /\ file \in [File -> Secret \cup {Absent}]
      /\ \A p \in Process : process[p].next \in File
      /\ "gateway" \in Process /\ "pairing" \in File
  BY DEF GatewayTypeOK, Process, ProcessState, File
<1>1. Up => process["gateway"].next = "session" /\ Complete(file["pairing"])
  BY <1>0 DEF Up, LoadedWhole
<1>2. ASSUME post' = post, exchanging' = exchanging, Drawn \subseteq Drawn',
             Up => Up' /\ Held'["pairing"] = Held["pairing"],
             Complete(file["pairing"]) => file'["pairing"] = file["pairing"]
      PROVE  OneExchange'
  BY <1>1, <1>2 DEF OneExchange, Exchanging
<1>3. CASE UNCHANGED <<disk, process, exchanging, post>>
  BY <1>2, <1>3 DEF disk, Drawn, Up, Held
<1>4. ASSUME NEW p \in Process, process[p].stage # "up",
             \A q \in Process : q # p => process'[q] = process[q]
      PROVE  Up => Up' /\ Held'["pairing"] = Held["pairing"]
  BY <1>0, <1>4 DEF Up, Held
<1>5. ASSUME NEW p \in Process, Launch(p) \/ RefuseFile(p) PROVE OneExchange'
  <2>1. process[p].stage # "up" /\ \A q \in Process : q # p => process'[q] = process[q]
    BY <1>0, <1>5 DEF Launch, RefuseFile
  <2> QED
    BY <1>2, <1>4, <1>5, <2>1 DEF Launch, RefuseFile, disk, memory, Drawn
<1>6. ASSUME NEW p \in Process, CreateFile(p) PROVE OneExchange'
  <2>1. process[p].stage # "up" /\ \A q \in Process : q # p => process'[q] = process[q]
    BY <1>0, <1>6 DEF CreateFile
  <2>2. Complete(file["pairing"]) => file'["pairing"] = file["pairing"]
    BY <1>0, <1>6 DEF CreateFile, Complete, Absent
  <2>3. Drawn \subseteq Drawn'
    BY <1>0, <1>6 DEF CreateFile, Draw, Drawn
  <2> QED
    BY <1>2, <1>4, <1>6, <2>1, <2>2, <2>3 DEF CreateFile, memory
<1>7. ASSUME NEW p \in Process, WriteFile(p) \/ ReadFile(p) PROVE OneExchange'
  <2>1. PICK secret \in Drawn :
          /\ Loaded(p, secret)
          /\ \A f \in File : f # process[p].next => file'[f] = file[f]
          /\ process[p].stage # "writing" => file' = file
    BY <1>7, LoadsFromFile
  <2>2. process[p].stage # "up" /\ \A q \in Process : q # p => process'[q] = process[q]
    <3>1. process' = [process EXCEPT ![p] = process'[p]]
      BY <2>1, LoadedProcess
    <3> QED
      BY <1>0, <1>7, <3>1 DEF WriteFile, ReadFile
  <2>3. Complete(file["pairing"]) => file'["pairing"] = file["pairing"]
    BY <1>0, <2>1 DEF LoadedWhole, Complete, Empty
  <2> QED
    BY <1>2, <1>4, <1>7, <2>2, <2>3 DEF WriteFile, ReadFile, memory, disk, Drawn
<1>8. CASE Serve \/ NoDaemon
  <2>1. /\ process["gateway"].stage # "up"
        /\ \A q \in Process : q # "gateway" => process'[q] = process[q]
    BY <1>0, <1>8 DEF Serve, NoDaemon
  <2> QED
    BY <1>0, <1>2, <1>4, <1>8, <2>1 DEF Serve, NoDaemon, disk, memory, Drawn
<1>9. CASE KillCli
  <2>1. process'["gateway"] = process["gateway"]
    BY <1>0, <1>9 DEF KillCli
  <2> QED
    BY <1>2, <1>9, <2>1 DEF KillCli, disk, memory, Drawn, Up, Held
<1>10. CASE KillGateway
  BY <1>10 DEF KillGateway, NoPost, OneExchange, Exchanging
<1>11. ASSUME NEW r \in Post, NEW c \in Client,
              PostRead(r, c) \/ \E code \in shown \cup {WrongCode} : PostCode(r, c, code)
       PROVE  OneExchange'
  <2>1. /\ Up /\ UNCHANGED <<disk, process, exchanging>>
        /\ post'[r].stage \in {"reading", "forwarding"}
        /\ \A q \in Post : q # r => post'[q] = post[q]
    <3>1. CASE PostRead(r, c)
      BY <1>0, <3>1 DEF PostRead, NoPost
    <3>2. ASSUME NEW code \in shown \cup {WrongCode}, PostCode(r, c, code)
          PROVE  /\ Up /\ UNCHANGED <<disk, process, exchanging>>
                 /\ post'[r].stage \in {"reading", "forwarding"}
                 /\ \A q \in Post : q # r => post'[q] = post[q]
      BY <1>0, <3>2 DEF PostCode, NoPost
    <3> QED
      BY <1>11, <3>1, <3>2
  <2> QED
    BY <2>1 DEF OneExchange, Exchanging, Up, Held, disk, Drawn
<1>12. ASSUME NEW r \in Post, RejectBody(r) \/ Refuse(r) \/ AnswerRead(r) PROVE OneExchange'
  <2>1. /\ UNCHANGED <<disk, process, exchanging>>
        /\ post'[r].stage = "idle"
        /\ \A q \in Post : q # r => post'[q] = post[q]
    BY <1>0, <1>12 DEF RejectBody, Refuse, AnswerRead, Answered, NoPost
  <2> QED
    BY <2>1 DEF OneExchange, Exchanging, Up, Held, disk, Drawn
<1>13. ASSUME NEW r \in Post, ReplaceFails(r) PROVE OneExchange'
  <2>1. /\ UNCHANGED <<disk, process>> /\ Exchanging(r)
        /\ post'[r].stage = "idle"
        /\ \A q \in Post : q # r => post'[q] = post[q]
    BY <1>0, <1>13 DEF ReplaceFails, Answered, NoPost, Exchanging
  <2>2. \A q \in Post : ~ Exchanging(q)'
    BY <2>1 DEF OneExchange, Exchanging
  <2> QED
    BY <2>1, <2>2 DEF OneExchange, Exchanging, Up
<1>14. ASSUME NEW r \in Post, Exchange(r) PROVE OneExchange'
  <2>1. /\ Up /\ UNCHANGED <<file, process>> /\ Held["pairing"] \in Drawn
        /\ made' = made + 1 /\ Drawn' = 1 .. made + 1
    BY <1>0, <1>1, <1>14 DEF Exchange, Draw, OneExchange, LoadedWhole, Held, Drawn
  <2>2. /\ post'[r].stage = "replacing" /\ post'[r].drawn = made + 1
        /\ post'[r].code = post[r].code
        /\ \A q \in Post : q # r => post'[q] = post[q]
    BY <1>0, <1>14 DEF Exchange, PostState
  <2>3. /\ exchanging' /\ ~ exchanging /\ post[r].code.secret = Held["pairing"]
    BY <1>14 DEF Exchange, Admitted, CodeOf
  <2>4. \A q \in Post : q # r => ~ Exchanging(q)'
    BY <2>2, <2>3 DEF OneExchange, Exchanging
  <2>5. made + 1 \in Drawn' /\ made + 1 # Held["pairing"]
    BY <1>0, <2>1 DEF Drawn
  <2> QED
    BY <2>1, <2>2, <2>3, <2>4, <2>5 DEF OneExchange, Exchanging, Up, Held
<1>15. ASSUME NEW r \in Post, WriteTemporary(r) \/ Rename(r) PROVE OneExchange'
  <2>1. /\ Exchanging(r) /\ UNCHANGED <<made, process, exchanging>>
        /\ \A q \in Post : q # r => post'[q] = post[q] /\ ~ Exchanging(q)
    BY <1>0, <1>15 DEF WriteTemporary, Rename, Exchanging, OneExchange, disk
  <2>2. /\ post'[r].code = post[r].code /\ post'[r].drawn = post[r].drawn
        /\ \/ post'[r].stage = "written"
           \/ post'[r].stage = "renamed" /\ file'["pairing"] = post[r].drawn
    <3>1. CASE WriteTemporary(r)
      <4>1. post'[r] = [post[r] EXCEPT !.stage = "written"] /\ post[r] \in PostState
        BY <1>0, <3>1 DEF WriteTemporary
      <4> QED
        BY <4>1 DEF PostState
    <3>2. CASE Rename(r)
      <4>1. post'[r] = [post[r] EXCEPT !.stage = "renamed"] /\ post[r] \in PostState
        BY <1>0, <3>2 DEF Rename
      <4>2. file'["pairing"] = post[r].drawn
        BY <1>0, <3>2 DEF Rename
      <4> QED
        BY <4>1, <4>2 DEF PostState
    <3> QED
      BY <1>15, <3>1, <3>2
  <2> QED
    BY <2>1, <2>2 DEF OneExchange, Exchanging, Up, Held, Drawn
<1>16. ASSUME NEW r \in Post, Issue(r) PROVE OneExchange'
  <2>1. /\ Exchanging(r) /\ post'[r].stage = "idle" /\ process'["gateway"].stage = process["gateway"].stage
        /\ \A q \in Post : q # r => post'[q] = post[q] /\ ~ Exchanging(q)
    BY <1>0, <1>16 DEF Issue, Answered, NoPost, Exchanging, OneExchange, ProcessState
  <2>2. \A q \in Post : ~ Exchanging(q)'
    BY <2>1 DEF Exchanging
  <2> QED
    BY <2>1, <2>2 DEF OneExchange, Exchanging, Up
<1> QED
  <2>1. CASE UNCHANGED gatewayVars \/ Tick
    BY <1>3, <2>1 DEF gatewayVars, Tick, memory, disk
  <2> QED
    BY <1>5, <1>6, <1>7, <1>8, <1>9, <1>10, <1>11, <1>12, <1>13, <1>14, <1>15, <1>16, <2>1
    DEF GatewayNext, Process

-----------------------------------------------------------------------------
\* A retired secret never comes back.
LEMMA RetiredStep ==
  ASSUME PairingInv, [GatewayNext]_gatewayVars, NEW n, Retired(n)
  PROVE  Retired(n)'
<1> USE DEF PairingInv
<1>0. /\ process \in [Process -> ProcessState] /\ post \in [Post -> PostState]
      /\ made \in Nat /\ file \in [File -> Secret \cup {Absent}]
      /\ \A p \in Process : process[p].next \in File
      /\ "gateway" \in Process /\ "pairing" \in File /\ Process' = Process
      /\ n \in Drawn /\ n # Empty
  BY DEF GatewayTypeOK, Process, ProcessState, File, Retired, Drawn, Empty
<1>1. ASSUME UNCHANGED <<disk, process>>,
             \A r \in Post : Exchanging(r)' => Exchanging(r) /\ post'[r].drawn = post[r].drawn
      PROVE  Retired(n)'
  BY <1>0, <1>1 DEF Retired, disk, Drawn, Held
<1>2. ASSUME post' = post, UNCHANGED disk, NEW p \in Process,
             process'[p].next = "pairing" \/ process'[p] = [process[p] EXCEPT !.stage = "up"],
             process'[p].stage # "writing",
             \A q \in Process : q # p => process'[q] = process[q]
      PROVE  Retired(n)'
  <2>1. \A q \in Process : process'[q].stage = "writing" => process'[q] = process[q]
    BY <1>2
  <2>2. process'["gateway"].next = "session" => n # Held'["pairing"]
    <3>1. CASE p # "gateway" \/ process'[p].next = "pairing"
      BY <1>0, <1>2, <3>1 DEF Retired, Held
    <3>2. CASE p = "gateway" /\ process'[p] = [process[p] EXCEPT !.stage = "up"]
      BY <1>0, <3>2 DEF Retired, Held, ProcessState
    <3> QED
      BY <1>2, <3>1, <3>2
  <2> QED
    BY <1>0, <1>2, <2>1, <2>2 DEF Retired, disk, Drawn, Exchanging
<1>3. ASSUME NEW p \in Process, CreateFile(p) PROVE Retired(n)'
  <2>1. made' = made + 1 /\ n # made + 1 /\ n \in Drawn'
    BY <1>0, <1>3 DEF CreateFile, Draw, Drawn
  <2>2. /\ process'[p] = [process[p] EXCEPT !.stage = "writing", !.drawn = made + 1]
        /\ \A q \in Process : q # p => process'[q] = process[q]
        /\ post' = post
    BY <1>0, <1>3 DEF CreateFile, memory
  <2>3. /\ process'[p].next = process[p].next
        /\ process'[p].drawn = made + 1 /\ process'[p].secret = process[p].secret
    BY <1>0, <2>2 DEF ProcessState
  <2>4. n # file'["pairing"]
    BY <1>0, <1>3 DEF CreateFile, Retired
  <2>5. process'["gateway"].next = "session" => n # Held'["pairing"]
    BY <1>0, <2>2, <2>3 DEF Retired, Held
  <2>6. \A q \in Process : process'[q].stage = "writing" /\ process'[q].next = "pairing"
                            => n # process'[q].drawn
    BY <2>1, <2>2, <2>3 DEF Retired
  <2> QED
    BY <1>0, <2>1, <2>2, <2>4, <2>5, <2>6 DEF Retired, Exchanging
<1>4. ASSUME NEW p \in Process, WriteFile(p) \/ ReadFile(p) PROVE Retired(n)'
  <2>1. PICK secret \in Drawn :
          /\ Loaded(p, secret)
          /\ file'[process[p].next] = secret
          /\ \A f \in File : f # process[p].next => file'[f] = file[f]
          /\ process[p].stage = "writing" => secret = process[p].drawn
          /\ process[p].stage # "writing" => file' = file
    BY <1>4, LoadsFromFile
  <2>2. made' = made /\ post' = post /\ Drawn' = Drawn
    BY <1>4 DEF WriteFile, ReadFile, disk, memory, Drawn
  <2>3. /\ process' = [process EXCEPT ![p] = process'[p]]
        /\ process'[p].stage # "writing"
        /\ process'[p].next = "session" =>
             process'[p].secret["pairing"] =
               IF process[p].next = "pairing" THEN secret ELSE process[p].secret["pairing"]
    BY <2>1, LoadedProcess
  <2>4. \A q \in Process : q # p => process'[q] = process[q]
    BY <1>0, <2>3
  <2>5. process[p].next = "pairing" => n # secret
    BY <1>0, <2>1 DEF Retired
  <2>6. n # file'["pairing"]
    BY <1>0, <2>1, <2>5 DEF Retired
  <2>7. process'["gateway"].next = "session" => n # Held'["pairing"]
    <3>1. CASE p # "gateway"
      BY <1>0, <2>4, <3>1 DEF Retired, Held
    <3>2. CASE p = "gateway" /\ process[p].next = "pairing"
      BY <2>3, <2>5, <3>2 DEF Held
    <3>3. CASE p = "gateway" /\ process[p].next = "session"
      BY <2>3, <3>3 DEF Retired, Held
    <3> QED
      BY <1>0, <3>1, <3>2, <3>3 DEF File
  <2>8. \A q \in Process : process'[q].stage = "writing" /\ process'[q].next = "pairing"
                            => n # process'[q].drawn
    BY <2>3, <2>4 DEF Retired
  <2> QED
    BY <1>0, <2>2, <2>6, <2>7, <2>8 DEF Retired, Exchanging
<1>5. ASSUME NEW r \in Post, Exchange(r) PROVE Retired(n)'
  <2>1. /\ made' = made + 1 /\ n # made + 1 /\ n \in Drawn' /\ UNCHANGED <<file, process>>
    BY <1>0, <1>5 DEF Exchange, Draw, Drawn
  <2>2. post'[r].drawn = made + 1 /\ \A q \in Post : q # r => post'[q] = post[q]
    BY <1>0, <1>5 DEF Exchange, PostState
  <2> QED
    BY <1>0, <2>1, <2>2 DEF Retired, Exchanging, Held
<1>6. ASSUME NEW r \in Post, Rename(r) PROVE Retired(n)'
  <2>1. Exchanging(r) /\ UNCHANGED <<made, process>> /\ file'["pairing"] = post[r].drawn
    BY <1>0, <1>6 DEF Rename, Exchanging
  <2>2. /\ post'[r] = [post[r] EXCEPT !.stage = "renamed"] /\ post[r] \in PostState
        /\ \A q \in Post : q # r => post'[q] = post[q]
    BY <1>0, <1>6 DEF Rename
  <2>3. post'[r].drawn = post[r].drawn
    BY <2>2 DEF PostState
  <2> QED
    BY <1>0, <2>1, <2>2, <2>3 DEF Retired, Exchanging, Held, Drawn
<1>7. ASSUME NEW r \in Post, Issue(r) PROVE Retired(n)'
  <2>1. /\ Exchanging(r) /\ UNCHANGED <<disk>>
        /\ process' = [process EXCEPT !["gateway"].secret["pairing"] = post[r].drawn]
        /\ \A q \in Post : Exchanging(q)' => post'[q] = post[q] /\ Exchanging(q)
    BY <1>0, <1>7 DEF Issue, Exchanging, Answered, NoPost
  <2>2. /\ \A q \in Process : q # "gateway" => process'[q] = process[q]
        /\ process'["gateway"].stage = process["gateway"].stage
        /\ process'["gateway"].next = process["gateway"].next
        /\ process'["gateway"].drawn = process["gateway"].drawn
        /\ process'["gateway"].secret["pairing"] = post[r].drawn
    BY <1>0, <2>1 DEF ProcessState, File
  <2>3. n # post[r].drawn
    BY <2>1 DEF Retired
  <2> QED
    BY <1>0, <2>1, <2>2, <2>3 DEF Retired, Held, Drawn, disk
<1>8. CASE UNCHANGED gatewayVars \/ Tick
  BY <1>1, <1>8 DEF gatewayVars, Tick, memory, disk, Exchanging
<1>9. ASSUME NEW p \in Process, Launch(p) \/ RefuseFile(p) PROVE Retired(n)'
  <2>1. /\ process'[p].stage \in {"off", "opening"} /\ process'[p].next = "pairing"
        /\ \A q \in Process : q # p => process'[q] = process[q]
    BY <1>0, <1>9 DEF Launch, RefuseFile, Off
  <2> QED
    BY <1>2, <1>9, <2>1 DEF Launch, RefuseFile, memory
<1>10. CASE Serve \/ NoDaemon
  <2>1. /\ \/ process'["gateway"] = [process["gateway"] EXCEPT !.stage = "up"]
           \/ process'["gateway"] = Off
        /\ \A q \in Process : q # "gateway" => process'[q] = process[q]
    BY <1>0, <1>10 DEF Serve, NoDaemon
  <2>2. process'["gateway"].stage # "writing"
    BY <1>0, <2>1 DEF Off, ProcessState
  <2> QED
    BY <1>0, <1>2, <1>10, <2>1, <2>2 DEF Serve, NoDaemon, memory, Off
<1>11. CASE KillCli
  <2>1. /\ process'["cli"] = Off /\ "cli" \in Process
        /\ \A q \in Process : q # "cli" => process'[q] = process[q]
    BY <1>0, <1>11 DEF KillCli, Process
  <2>2. process'["cli"].next = "pairing" /\ process'["cli"].stage = "off"
    BY <2>1 DEF Off
  <2>3. UNCHANGED disk /\ post' = post
    BY <1>11 DEF KillCli, memory
  <2> QED
    BY <1>2, <2>1, <2>2, <2>3
<1>12. CASE KillGateway
  <2>1. /\ process'["gateway"] = Off
        /\ \A q \in Process : q # "gateway" => process'[q] = process[q]
        /\ \A r \in Post : post'[r] = NoPost
        /\ UNCHANGED disk
    BY <1>0, <1>12 DEF KillGateway
  <2>2. \A r \in Post : ~ Exchanging(r)'
    <3>1. NoPost.stage = "idle"
      BY DEF NoPost
    <3> QED
      BY <2>1, <3>1 DEF Exchanging
  <2> QED
    BY <1>0, <2>1, <2>2 DEF Retired, Off, disk, Drawn
<1>13. ASSUME NEW r \in Post, NEW c \in Client,
              PostRead(r, c) \/ \E code \in shown \cup {WrongCode} : PostCode(r, c, code)
       PROVE  Retired(n)'
  <2>1. ASSUME PostRead(r, c) PROVE Retired(n)'
    BY <1>0, <1>1, <2>1 DEF PostRead, NoPost, Exchanging
  <2>2. ASSUME NEW code \in shown \cup {WrongCode}, PostCode(r, c, code) PROVE Retired(n)'
    BY <1>0, <1>1, <2>2 DEF PostCode, NoPost, Exchanging
  <2> QED
    BY <1>13, <2>1, <2>2
<1>14. ASSUME NEW r \in Post, RejectBody(r) \/ Refuse(r) \/ AnswerRead(r) \/ ReplaceFails(r)
       PROVE  Retired(n)'
  BY <1>0, <1>1, <1>14 DEF RejectBody, Refuse, AnswerRead, ReplaceFails, Answered, NoPost, Exchanging
<1>15. ASSUME NEW r \in Post, WriteTemporary(r) PROVE Retired(n)'
  <2>1. /\ post'[r] = [post[r] EXCEPT !.stage = "written"] /\ post[r] \in PostState
        /\ post[r].stage = "replacing" /\ \A q \in Post : q # r => post'[q] = post[q]
        /\ UNCHANGED <<disk, process>>
    BY <1>0, <1>15 DEF WriteTemporary
  <2>2. post'[r].drawn = post[r].drawn
    BY <2>1 DEF PostState
  <2> QED
    BY <1>1, <2>1, <2>2 DEF Exchanging
<1> QED
  BY <1>3, <1>4, <1>5, <1>6, <1>7, <1>8, <1>9, <1>10, <1>11, <1>12, <1>13, <1>14, <1>15
  DEF GatewayNext, Process

-----------------------------------------------------------------------------
\* The secret a session is issued for is retired with it, and had not been
\* retired before.
LEMMA IssueStep == PairingInv /\ [GatewayNext]_gatewayVars => (SecretsRetire /\ CodeUsedOnce)'
<1> SUFFICES ASSUME PairingInv, [GatewayNext]_gatewayVars
             PROVE  (SecretsRetire /\ CodeUsedOnce)'
  OBVIOUS
<1>1. \A s \in issued : Retired(s.code.secret)'
  BY RetiredStep DEF PairingInv, SecretsRetire
<1>2. CASE issued' = issued
  BY <1>1, <1>2 DEF SecretsRetire, CodeUsedOnce, PairingInv
<1>3. ASSUME NEW r \in Post, Issue(r) PROVE (SecretsRetire /\ CodeUsedOnce)'
  <2> USE DEF PairingInv
  <2> DEFINE n == post[r].code.secret
  <2>1. /\ Exchanging(r) /\ Up /\ n = Held["pairing"] /\ n # post[r].drawn
        /\ file["pairing"] = post[r].drawn
        /\ \A q \in Post : Exchanging(q) => q = r
    BY <1>3 DEF Issue, OneExchange, Exchanging
  <2>2. process["gateway"].next = "session" /\ n \in Drawn /\ Complete(file["pairing"])
    BY <2>1 DEF LoadedWhole, Up, Held, Process
  <2>3. \A s \in issued : s.code.secret # n
    BY <2>1, <2>2 DEF SecretsRetire, Retired
  <2>4. /\ process' = [process EXCEPT !["gateway"].secret["pairing"] = post[r].drawn]
        /\ UNCHANGED disk
        /\ post' = [post EXCEPT ![r] = NoPost]
        /\ \E s : s.code = post[r].code /\ issued' = issued \cup {s}
    <3>1. /\ process' = [process EXCEPT !["gateway"].secret["pairing"] = post[r].drawn]
          /\ UNCHANGED disk
          /\ post' = [post EXCEPT ![r] = NoPost]
      BY <1>3 DEF Issue, Answered
    <3>2. \E s : s.code = post[r].code /\ issued' = issued \cup {s}
      BY <1>3 DEF Issue
    <3> QED
      BY <3>1, <3>2
  <2>5. ASSUME NEW m, m = n PROVE Retired(m)'
    <3>1. \A q \in Post : ~ Exchanging(q)'
      <4>1. NoPost.stage = "idle"
        BY DEF NoPost
      <4> QED
        BY <2>1, <2>4, <4>1 DEF Exchanging, GatewayTypeOK
    <3>2. Held'["pairing"] = post[r].drawn
      BY <2>4 DEF Held, GatewayTypeOK, ProcessState, File
    <3>3. \A p \in Process : process'[p].stage = "writing" => process'[p].next # "pairing"
      <4>1. \A p \in Process : process'[p].stage = process[p].stage /\ process'[p].next = process[p].next
        BY <2>4 DEF Process, GatewayTypeOK, ProcessState
      <4> QED
        BY <2>2, <4>1 DEF LoadedWhole, Complete, Empty
    <3> QED
      BY <2>1, <2>2, <2>4, <2>5, <3>1, <3>2, <3>3 DEF Retired, disk, Drawn, Process
  <2>6. PICK s : s.code = post[r].code /\ issued' = issued \cup {s}
    BY <2>4
  <2>7. SecretsRetire'
    BY <1>1, <2>5, <2>6 DEF SecretsRetire
  <2>8. CodeUsedOnce'
    BY <2>3, <2>6 DEF CodeUsedOnce
  <2> QED
    BY <2>7, <2>8
<1> QED
  BY <1>2, <1>3 DEF GatewayNext, gatewayVars, Tick, Launch, CreateFile, WriteFile, ReadFile, RefuseFile,
     Serve, NoDaemon, KillCli, KillGateway, PostCode, PostRead, RejectBody, Exchange, Refuse,
     WriteTemporary, Rename, ReplaceFails, AnswerRead

LEMMA PairingStep == PairingInv /\ [GatewayNext]_gatewayVars => PairingInv'
BY TypeStep, LoadedStep, ExchangeStep, IssueStep DEF PairingInv

THEOREM PairingInvariance == GatewaySpec => []PairingInv
BY InitPairing, PairingStep, PTL DEF GatewaySpec

\* The gateway's variables keep their types, whatever the daemon does.
THEOREM GatewayTypes == GatewaySpec => []GatewayTypeOK
<1>1. PairingInv => GatewayTypeOK
  BY DEF PairingInv
<1> QED
  BY <1>1, PairingInvariance, PTL

\* A pairing secret is good for one session, for any number of requests at
\* once and with the gateway killed at any step of an exchange.
THEOREM PairingSecretUsedOnce == GatewaySpec => []CodeUsedOnce
<1>1. PairingInv => CodeUsedOnce
  BY DEF PairingInv
<1> QED
  BY <1>1, PairingInvariance, PTL

\* No crash or failed replacement leaves a secret file without its secret.
THEOREM SecretFilesSurvive == GatewaySpec => SecretSurvives
<1> DEFINE A == \A f \in File : Complete(file[f]) => Complete(file'[f])
<1>1. ASSUME PairingInv, [GatewayNext]_gatewayVars PROVE A
  <2> USE DEF PairingInv
  <2>0. file \in [File -> Secret \cup {Absent}] /\ "pairing" \in File
    BY <1>1 DEF GatewayTypeOK, File
  <2>1. CASE file' = file
    BY <2>1
  <2>2. ASSUME NEW p \in Process, CreateFile(p) PROVE A
    BY <2>0, <2>2 DEF CreateFile, Complete, Absent
  <2>3. ASSUME NEW p \in Process, WriteFile(p) \/ ReadFile(p) PROVE A
    <3>1. PICK secret \in Drawn :
            /\ file'[process[p].next] = secret
            /\ \A f \in File : f # process[p].next => file'[f] = file[f]
      BY <1>1, <2>3, LoadsFromFile
    <3> QED
      BY <3>1 DEF Complete, Drawn
  <2>4. ASSUME NEW r \in Post, Rename(r) PROVE A
    <3>1. post[r].drawn \in Drawn
      BY <1>1, <2>4 DEF Rename, OneExchange, Exchanging
    <3> QED
      BY <2>0, <2>4, <3>1 DEF Rename, Complete, Drawn
  <2> QED
    BY <1>1, <2>1, <2>2, <2>3, <2>4
    DEF GatewayNext, gatewayVars, disk, Tick, Launch, RefuseFile, Serve, NoDaemon, KillCli,
        KillGateway, PostCode, PostRead, RejectBody, Exchange, Refuse, WriteTemporary,
        ReplaceFails, Issue, AnswerRead, Process
<1> QED
  BY <1>1, PairingInvariance, PTL DEF GatewaySpec, SecretSurvives
==============================================================================
