--------------------- MODULE RefreshTokenRotationProofs ---------------------
(***************************************************************************)
(* For any number of servers, calls, rows and sign-ins: a spent refresh    *)
(* token is not sent again, a rotation does not overwrite a newer sign-in, *)
(* and a refresh is answered after its rotation is committed. The lock     *)
(* makes its holder the only refresh that rotates the row, so a row's      *)
(* token can be spent only while the exchange that spent it is under way,  *)
(* or by an edit: one that overlapped a write, or one whose own exchange   *)
(* spent the token. Slots are counted apart, as they do not bear on the    *)
(* tokens.                                                                 *)
(***************************************************************************)
EXTENDS RefreshTokenRotation, SequenceTheorems, FiniteSetTheorems, TLAPS

InLock == {"locked", "read", "exchanged", "persisted"}
Sent == {"exchanged", "persisted"}

Types ==
    /\ pc \in [Call -> {"idle", "joined"} \union Leading \union Settled]
    /\ leader \in [Call -> Call]
    /\ active \in [Server -> Int]
    /\ waiters \in [Server -> Seq(Call)]
    /\ lock \in [Row -> Call \union {Nobody}]
    /\ stored \in [Row -> Token]
    /\ current \in [Call -> Token]
    /\ result \in [Call -> Token]
    /\ written \in [Call -> BOOLEAN]
    /\ signIns \in [Row -> SignIn]
    /\ latest \in [Row \X SignIn -> Nat]
    /\ lost \subseteq Row \X SignIn
    /\ draft \in [Row -> SUBSET Token] /\ validated \in [Row -> SUBSET Token]
    /\ reverted \subseteq Row \X SignIn /\ editSpent \subseteq Row \X Token

Queued ==
    \A s \in Server : \A i \in 1..Len(waiters[s]) :
        /\ pc[waiters[s][i]] = "waiting"
        /\ ServerOf[waiters[s][i]] = s
        /\ \A j \in 1..Len(waiters[s]) : waiters[s][i] = waiters[s][j] => i = j

Joined == \A c \in Call : pc[c] = "joined" => leader[c] # c

LockHeld == \A c \in Call : pc[c] \in InLock => lock[RowOf[c]] = c

Unissued == \A r \in Row, n \in SignIn : n > signIns[r] => latest[<<r, n>>] = 0

(* No sign-in is stored or read before it is made; an older one than the   *)
(* last is stored only where an edit brought it back.                      *)
Issued ==
    \A r \in Row :
        /\ stored[r][1] <= signIns[r]
        /\ \A token \in draft[r] : token[1] <= signIns[r]
        /\ stored[r][1] = signIns[r] \/ <<r, stored[r][1]>> \in reverted

(* A token in use is the stored one until a new sign-in, or an edit that   *)
(* brings back another or has replaced it by the next.                     *)
Replaced(r, token) ==
    /\ <<r, token>> \in editSpent
    /\ stored[r][1] = token[1] /\ stored[r][2] > token[2]
Held ==
    \A c \in Call :
        /\ current[c][1] <= signIns[RowOf[c]]
        /\ pc[c] \in InLock \ {"locked"} /\ current[c][1] = signIns[RowOf[c]]
            => \/ stored[RowOf[c]] = current[c]
               \/ Key(c) \in reverted
               \/ Replaced(RowOf[c], current[c])

AnswerKnown ==
    \A c \in Call : pc[c] \in Sent =>
        /\ result[c][1] = current[c][1]
        /\ result[c][2] >= current[c][2] /\ result[c][2] <= latest[Key(c)]
        /\ \/ result[c][2] = latest[Key(c)]
           \/ Key(c) \in lost
           \/ <<RowOf[c], result[c]>> \in editSpent
        /\ <<RowOf[c], current[c]>> \in editSpent => result[c] = current[c]

SpentIsOld ==
    \A r \in Row, token \in Token :
        <<r, token>> \in editSpent => token[2] < latest[<<r, token[1]>>]

(* The row never falls behind what an edit has read, while the edit goes   *)
(* on; and the edit is going to save that token, or the next, which nobody *)
(* can spend before.                                                       *)
AtLeast(a, b) == a[1] > b[1] \/ (a[1] = b[1] /\ a[2] >= b[2])
Turned(r, old, token) ==
    /\ <<r, old>> \in editSpent
    /\ token[1] = old[1] /\ token[2] > old[2]
    /\ \/ IsLatest(r, token)
       \/ <<r, token[1]>> \in lost \union reverted
       \/ stored[r] # old
Drafts ==
    \A r \in Row :
        /\ \A old \in draft[r] :
            /\ AtLeast(stored[r], old)
            /\ \A other \in draft[r] : other = old
        /\ \A token \in validated[r] :
            \E old \in draft[r] : token = old \/ Turned(r, old, token)

(* Why a persisted call has written, or why it need not have.              *)
Saved ==
    \A c \in Call : pc[c] = "persisted" =>
        /\ written[c] => stored[RowOf[c]] = current[c]
        /\ ~written[c] =>
            \/ result[c] = current[c]
            \/ Key(c) \in lost \union reverted
            \/ current[c][1] < signIns[RowOf[c]]

(* A stored token is spent only by an exchange that is about to replace it.*)
Replaces(c, r) ==
    /\ RowOf[c] = r /\ pc[c] \in Sent /\ current[c] = stored[r]
    /\ pc[c] = "persisted" => written[c]
Fresh ==
    \A r \in Row :
        \/ IsLatest(r, stored[r])
        \/ <<r, stored[r][1]>> \in lost \union reverted
        \/ <<r, stored[r]>> \in editSpent
        \/ \E c \in Call : Replaces(c, r)

Kept ==
    \A c \in Call :
        /\ pc[c] \in {"committed", "resolved"} /\ leader[c] = c
        /\ current[c][1] = signIns[RowOf[c]]
        => \/ stored[RowOf[c]][2] >= result[c][2]
           \/ ~written[c] /\ Key(c) \in lost
           \/ Key(c) \in reverted

RotationInv ==
    /\ Types /\ Queued /\ Joined /\ LockHeld /\ Unissued /\ Issued /\ Held
    /\ SentTokenIsLatest /\ NewestSignInIsStored
    /\ AnswerKnown /\ Saved /\ Fresh /\ Kept
    /\ SpentIsOld /\ Drafts

-----------------------------------------------------------------------------
LEMMA InitInv == Init => RotationInv
<1> SUFFICES ASSUME Init PROVE RotationInv
  OBVIOUS
<1> USE RotationAssumption
<1>1. Types
  BY DEF Init, Types, Token, SignIn
<1>2. Queued /\ Joined /\ LockHeld /\ Unissued /\ AnswerKnown /\ Saved /\ Kept
  BY DEF Init, Queued, Joined, LockHeld, Unissued, AnswerKnown, Saved, Kept,
     InLock, Sent
<1>3. Issued /\ Held /\ SentTokenIsLatest /\ NewestSignInIsStored
  BY DEF Init, Issued, Held, SentTokenIsLatest, NewestSignInIsStored
<1>5. SpentIsOld /\ Drafts
  BY DEF Init, SpentIsOld, Drafts
<1>4. Fresh
  <2>1. ASSUME NEW r \in Row PROVE IsLatest(r, stored[r])
    <3>1. stored[r] = <<0, 0>> /\ <<r, 0>> \in Row \X SignIn
      BY DEF Init, SignIn
    <3>2. latest[<<r, 0>>] = 0
      BY <3>1 DEF Init
    <3> QED BY <3>1, <3>2 DEF IsLatest
  <2> QED BY <2>1 DEF Fresh
<1> QED BY <1>1, <1>2, <1>3, <1>4, <1>5 DEF RotationInv

LEMMA KeyType ==
    ASSUME Types, NEW c \in Call
    PROVE  /\ RowOf[c] \in Row /\ ServerOf[c] \in Server
           /\ current[c] \in Token /\ Key(c) \in Row \X SignIn
  BY RotationAssumption DEF Types, Token, Key

-----------------------------------------------------------------------------
(* The queue of waiters.                                                   *)

LEMMA Removing ==
    ASSUME NEW S, NEW w \in Seq(S), NEW k \in 1..Len(w),
           \A i, j \in 1..Len(w) : w[i] = w[j] => i = j
    PROVE  /\ RemoveAt(w, k) \in Seq(S)
           /\ \A i \in 1..Len(RemoveAt(w, k)) :
                /\ \E m \in 1..Len(w) : RemoveAt(w, k)[i] = w[m] /\ m # k
                /\ \A j \in 1..Len(RemoveAt(w, k)) :
                    RemoveAt(w, k)[i] = RemoveAt(w, k)[j] => i = j
<1> DEFINE front == SubSeq(w, 1, k - 1)
           rest == SubSeq(w, k + 1, Len(w))
           v == RemoveAt(w, k)
           at(i) == IF i < k THEN i ELSE i + 1
<1>1. /\ front \in Seq(S) /\ Len(front) = k - 1
      /\ \A i \in 1..(k - 1) : front[i] = w[i]
  OBVIOUS
<1>2. /\ rest \in Seq(S) /\ Len(rest) = Len(w) - k
      /\ \A i \in 1..(Len(w) - k) : rest[i] = w[k + i]
  OBVIOUS
<1>v. v = front \o rest
  BY DEF RemoveAt
<1> HIDE DEF v, front, rest
<1>3. v \in Seq(S) /\ Len(v) = Len(w) - 1
  <2>1. v \in Seq(S)
    BY <1>1, <1>2, <1>v
  <2>2. Len(v) = Len(front) + Len(rest)
    BY <1>1, <1>2, <1>v, ConcatProperties
  <2>3. Len(w) \in Nat /\ k \in Nat
    OBVIOUS
  <2> QED BY <1>1, <1>2, <2>1, <2>2, <2>3
<1>4. ASSUME NEW i \in 1..Len(v)
      PROVE at(i) \in 1..Len(w) /\ at(i) # k /\ v[i] = w[at(i)]
  <2>1. CASE i < k
    <3>1. v[i] = front[i]
      BY <1>1, <1>2, <1>3, <1>v, <2>1
    <3> QED BY <1>1, <1>3, <2>1, <3>1
  <2>2. CASE i >= k
    <3>1. v[i] = rest[i - (k - 1)]
      BY <1>1, <1>2, <1>3, <1>v, <2>2
    <3> QED BY <1>2, <1>3, <2>2, <3>1
  <2> QED BY <2>1, <2>2
<1>5. ASSUME NEW i \in 1..Len(v), NEW j \in 1..Len(v), v[i] = v[j] PROVE i = j
  <2>1. at(i) = at(j)
    BY <1>4, <1>5
  <2> QED BY <2>1, <1>3
<1> QED BY <1>3, <1>4, <1>5 DEF v

(* Steps that leave the queues alone and move no call into or out of them. *)
LEMMA QueueKept ==
    ASSUME Types, Queued, UNCHANGED waiters,
           \A d \in Call : pc[d] = "waiting" => pc'[d] = "waiting"
    PROVE  Queued'
  BY DEF Types, Queued

-----------------------------------------------------------------------------
(* Flights: what joining, admission and answering change is the state of   *)
(* calls outside the lock.                                                 *)

TokenInv ==
    /\ LockHeld /\ Unissued /\ Issued /\ Held
    /\ SentTokenIsLatest /\ NewestSignInIsStored
    /\ AnswerKnown /\ Saved /\ Fresh
    /\ SpentIsOld /\ Drafts

(* Steps that leave the row, the provider and the edits alone.             *)
LEMMA EditsKept ==
    ASSUME SpentIsOld, Drafts, UNCHANGED <<stored, latest, editVars>>, lost \subseteq lost'
    PROVE  (SpentIsOld /\ Drafts)'
  BY DEF SpentIsOld, Drafts, AtLeast, Turned, IsLatest, editVars

LEMMA OutsideTheLock ==
    ASSUME TokenInv, UNCHANGED <<lock, tokenVars, rowVars, providerVars, editVars>>,
           \A d \in Call : pc'[d] \in InLock => pc'[d] = pc[d],
           \A d \in Call : pc[d] \in InLock => pc'[d] = pc[d]
    PROVE  TokenInv'
<1> USE DEF tokenVars, rowVars, providerVars, editVars, InLock, Sent
<1>1. LockHeld'
  BY DEF TokenInv, LockHeld
<1>2. Unissued' /\ Issued' /\ NewestSignInIsStored'
  BY DEF TokenInv, Unissued, Issued, NewestSignInIsStored
<1>3. Held'
  BY DEF TokenInv, Held, Replaced, Key
<1>7. SpentIsOld' /\ Drafts'
  BY EditsKept DEF TokenInv
<1>4. SentTokenIsLatest'
  BY DEF TokenInv, SentTokenIsLatest, IsLatest, Key
<1>5. AnswerKnown' /\ Saved'
  BY DEF TokenInv, AnswerKnown, Saved, Key
<1>6. Fresh'
  BY DEF TokenInv, Fresh, IsLatest, Replaces
<1> QED BY <1>1, <1>2, <1>3, <1>4, <1>5, <1>6, <1>7 DEF TokenInv

LEMMA JoinStep ==
    ASSUME RotationInv, NEW c \in Call, Join(c)
    PROVE  RotationInv'
<1> USE RotationAssumption DEF Join, InFlight, RotationInv
<1>1. Types'
  BY DEF Types, tokenVars, rowVars, providerVars, editVars
<1>2. \A d \in Call : pc'[d] = IF d = c THEN "joined" ELSE pc[d]
  BY DEF Types
<1>3. TokenInv'
  BY <1>2, OutsideTheLock DEF TokenInv, InLock
<1>4. Queued'
  BY <1>2, QueueKept
<1>5. Joined'
  BY DEF Joined, Types, Leading, Admitted
<1>6. Kept'
  <2> SUFFICES ASSUME NEW d \in Call, pc'[d] \in {"committed", "resolved"},
                      leader'[d] = d, current'[d][1] = signIns'[RowOf[d]]
               PROVE  \/ stored'[RowOf[d]][2] >= result'[d][2]
                      \/ ~written'[d] /\ Key(d)' \in lost'
                      \/ Key(d)' \in reverted'
    BY DEF Kept
  <2>1. d # c /\ pc[d] = pc'[d] /\ leader[d] = d
    BY <1>2 DEF Types
  <2> QED BY <2>1 DEF Kept, Key, tokenVars, rowVars, providerVars, editVars
<1> QED BY <1>1, <1>3, <1>4, <1>5, <1>6 DEF TokenInv

LEMMA LeadStep ==
    ASSUME RotationInv, NEW c \in Call, Lead(c)
    PROVE  RotationInv'
<1> DEFINE s == ServerOf[c]
<1> USE RotationAssumption DEF RotationInv
<1>a. s \in Server /\ waiters[s] \in Seq(Call) /\ pc[c] = "idle"
  BY DEF Types, Lead
<1>b. UNCHANGED <<leader, lock, tokenVars, rowVars, providerVars, editVars>>
  BY DEF Lead
<1>c. /\ active' \in [Server -> Int] /\ waiters' \in [Server -> Seq(Call)]
      /\ pc' = [pc EXCEPT ![c] = "admitted"] \/ pc' = [pc EXCEPT ![c] = "waiting"]
  <2>1. Append(waiters[s], c) \in Seq(Call)
    BY <1>a
  <2>2. active \in [Server -> Int] /\ waiters \in [Server -> Seq(Call)]
    BY DEF Types
  <2>3. \/ /\ active' = [active EXCEPT ![s] = @ + 1]
           /\ pc' = [pc EXCEPT ![c] = "admitted"]
           /\ waiters' = waiters
        \/ /\ waiters' = [waiters EXCEPT ![s] = Append(@, c)]
           /\ pc' = [pc EXCEPT ![c] = "waiting"]
           /\ active' = active
    BY DEF Lead
  <2>4. active' \in [Server -> Int]
    BY <1>a, <2>2, <2>3
  <2>5. waiters' \in [Server -> Seq(Call)]
    BY <1>a, <2>1, <2>2, <2>3
  <2> QED BY <2>3, <2>4, <2>5
<1>1. Types'
  BY <1>b, <1>c DEF Types, tokenVars, rowVars, providerVars, editVars, Leading, Admitted
<1>2. /\ pc'[c] \in {"admitted", "waiting"}
      /\ \A d \in Call \ {c} : pc'[d] = pc[d]
  BY <1>c DEF Types
<1>3. TokenInv'
  BY <1>a, <1>b, <1>2, OutsideTheLock DEF TokenInv, InLock
<1>4. Queued'
  <2>1. CASE waiters' = waiters
    BY <1>a, <1>2, <2>1, QueueKept
  <2>2. CASE waiters' = [waiters EXCEPT ![s] = Append(@, c)]
            /\ pc' = [pc EXCEPT ![c] = "waiting"]
    <3>1. ASSUME NEW t \in Server, NEW i \in 1..Len(waiters'[t])
          PROVE  /\ pc'[waiters'[t][i]] = "waiting"
                 /\ ServerOf[waiters'[t][i]] = t
                 /\ \A j \in 1..Len(waiters'[t]) :
                        waiters'[t][i] = waiters'[t][j] => i = j
      <4>1. CASE t # s
        <5>1. waiters'[t] = waiters[t] /\ waiters[t] \in Seq(Call)
          BY <2>2, <4>1 DEF Types
        <5> QED BY <5>1, <1>a, <1>2, <2>2 DEF Queued
      <4>2. CASE t = s
        <5>1. waiters'[s] = Append(waiters[s], c)
          BY <1>a, <2>2 DEF Types
        <5>2. /\ Len(waiters'[s]) = Len(waiters[s]) + 1
              /\ waiters'[s][Len(waiters[s]) + 1] = c
              /\ \A j \in 1..Len(waiters[s]) : waiters'[s][j] = waiters[s][j]
          BY <1>a, <5>1
        <5>3. \A j \in 1..Len(waiters[s]) : /\ waiters[s][j] \in Call \ {c}
                                            /\ pc[waiters[s][j]] = "waiting"
                                            /\ ServerOf[waiters[s][j]] = s
          BY <1>a DEF Queued
        <5>4. Len(waiters[s]) \in Nat
          BY <1>a
        <5>5. pc'[c] = "waiting"
          BY <2>2 DEF Types
        <5>6. \A j, k \in 1..Len(waiters[s]) : waiters[s][j] = waiters[s][k] => j = k
          BY <1>a DEF Queued
        <5>7. \A j \in 1..Len(waiters'[s]) : j \in 1..Len(waiters[s]) \/ j = Len(waiters[s]) + 1
          BY <5>2, <5>4
        <5>8. \A j, k \in 1..Len(waiters'[s]) : waiters'[s][j] = waiters'[s][k] => j = k
          BY <5>2, <5>3, <5>6, <5>7
        <5>9. \A j \in 1..Len(waiters'[s]) : /\ pc'[waiters'[s][j]] = "waiting"
                                             /\ ServerOf[waiters'[s][j]] = s
          BY <5>2, <5>3, <5>5, <5>7, <1>2
        <5> QED BY <4>2, <5>8, <5>9
      <4> QED BY <4>1, <4>2
    <3> QED BY <3>1 DEF Queued
  <2> QED BY <2>1, <2>2 DEF Lead
<1>5. Joined'
  BY <1>b, <1>2 DEF Joined
<1>6. Kept'
  BY <1>b, <1>2 DEF Kept, Key, tokenVars, rowVars, providerVars, editVars
<1> QED BY <1>1, <1>3, <1>4, <1>5, <1>6 DEF TokenInv

LEMMA TimeoutStep ==
    ASSUME RotationInv, NEW c \in Call, AdmissionTimeout(c)
    PROVE  RotationInv'
<1> DEFINE s == ServerOf[c]
<1> USE RotationAssumption DEF RotationInv
<1>a. s \in Server /\ waiters[s] \in Seq(Call) /\ pc[c] = "waiting"
  BY DEF Types, AdmissionTimeout
<1>b. UNCHANGED <<leader, active, lock, tokenVars, rowVars, providerVars, editVars>>
  BY DEF AdmissionTimeout
<1>c. \A d \in Call : pc'[d] = IF d \in Flight(c) THEN "rejected" ELSE pc[d]
  BY DEF AdmissionTimeout
<1>d. \A d \in Flight(c) : d = c \/ pc[d] = "joined"
  BY DEF Flight
<1>e. PICK k \in 1..Len(waiters[s]) :
        /\ waiters[s][k] = c
        /\ waiters' = [waiters EXCEPT ![s] = RemoveAt(@, k)]
  <2>1. DOMAIN waiters[s] = 1..Len(waiters[s])
    BY <1>a
  <2>2. LeaveQueue(c)
    BY DEF AdmissionTimeout
  <2> QED BY <2>1, <2>2, Zenon DEF LeaveQueue
<1>f. \A i, j \in 1..Len(waiters[s]) : waiters[s][i] = waiters[s][j] => i = j
  BY <1>a DEF Queued
<1> DEFINE v == RemoveAt(waiters[s], k)
<1>g. /\ v \in Seq(Call)
      /\ \A i \in 1..Len(v) :
            /\ \E m \in 1..Len(waiters[s]) : v[i] = waiters[s][m] /\ m # k
            /\ \A j \in 1..Len(v) : v[i] = v[j] => i = j
  BY <1>a, <1>f, Removing
<1>1. Types'
  <2>1. waiters' \in [Server -> Seq(Call)]
    BY <1>a, <1>e, <1>g DEF Types
  <2>2. pc' \in [Call -> {"idle", "joined"} \union Leading \union Settled]
    BY DEF AdmissionTimeout, Types, Settled
  <2> QED BY <1>b, <2>1, <2>2 DEF Types, tokenVars, rowVars, providerVars, editVars
<1>2. TokenInv'
  BY <1>a, <1>b, <1>c, <1>d, OutsideTheLock DEF TokenInv, InLock
<1>3. Queued'
  <2> SUFFICES ASSUME NEW t \in Server, NEW i \in 1..Len(waiters'[t])
      PROVE  /\ pc'[waiters'[t][i]] = "waiting"
             /\ ServerOf[waiters'[t][i]] = t
             /\ \A j \in 1..Len(waiters'[t]) :
                    waiters'[t][i] = waiters'[t][j] => i = j
    BY DEF Queued
  <2>1. CASE t # s
    <3>1. waiters'[t] = waiters[t] /\ waiters[t] \in Seq(Call)
      BY <1>e, <2>1 DEF Types
    <3>2. waiters[t][i] \in Call \ {c} /\ pc[waiters[t][i]] = "waiting"
      BY <3>1, <2>1 DEF Queued
    <3> QED BY <3>1, <3>2, <1>c, <1>d DEF Queued
  <2>2. CASE t = s
    <3>1. waiters'[s] = v
      BY <1>a, <1>e DEF Types
    <3>2. PICK m \in 1..Len(waiters[s]) : v[i] = waiters[s][m] /\ m # k
      BY <1>g, <2>2, <3>1
    <3>3. v[i] \in Call \ {c} /\ pc[v[i]] = "waiting" /\ ServerOf[v[i]] = s
      BY <1>a, <1>e, <1>f, <3>2 DEF Queued
    <3> QED BY <1>c, <1>d, <1>g, <2>2, <3>1, <3>3
  <2> QED BY <2>1, <2>2
<1>4. Joined'
  BY <1>b, <1>c DEF Joined
<1>5. Kept'
  BY <1>b, <1>c DEF Kept, Key, tokenVars, rowVars, providerVars, editVars
<1> QED BY <1>1, <1>2, <1>3, <1>4, <1>5 DEF TokenInv

LEMMA FinishStep ==
    ASSUME RotationInv, NEW c \in Call, Finish(c)
    PROVE  RotationInv'
<1> DEFINE s == ServerOf[c]
           next == IF waiters[s] = <<>> THEN {} ELSE {Head(waiters[s])}
<1> USE RotationAssumption DEF RotationInv
<1>a. /\ s \in Server /\ waiters[s] \in Seq(Call)
      /\ pc[c] \in {"committed", "failed"}
  BY DEF Types, Finish
<1>b. UNCHANGED <<leader, lock, tokenVars, rowVars, providerVars, editVars>>
  BY DEF Finish
<1>c. \A d \in Call : pc'[d] = IF d \in Flight(c) THEN Answer(c)
                               ELSE IF d \in next THEN "admitted" ELSE pc[d]
  BY DEF Finish
<1>d. \A d \in Flight(c) : d = c \/ (pc[d] = "joined" /\ leader[d] # d)
  BY DEF Flight, Joined
<1>e. Answer(c) \in {"resolved", "rejected"}
  BY DEF Answer
<1>f. waiters[s] # <<>> =>
        /\ Len(waiters[s]) \in Nat \ {0}
        /\ Head(waiters[s]) = waiters[s][1] /\ Tail(waiters[s]) \in Seq(Call)
        /\ Len(Tail(waiters[s])) = Len(waiters[s]) - 1
        /\ \A i \in 1..Len(Tail(waiters[s])) : Tail(waiters[s])[i] = waiters[s][i + 1]
  BY <1>a
<1>g. \A d \in next : d \in Call /\ pc[d] = "waiting" /\ ServerOf[d] = s
  BY <1>a, <1>f DEF Queued
<1>1. Types'
  <2>1. pc' \in [Call -> {"idle", "joined"} \union Leading \union Settled]
    BY <1>e DEF Finish, Types, Settled, Leading, Admitted
  <2>2. active' \in [Server -> Int]
    <3>1. active' = [active EXCEPT ![s] = IF next = {} THEN @ - 1 ELSE @]
      BY Zenon DEF Finish
    <3>2. active \in [Server -> Int]
      BY DEF Types
    <3> HIDE DEF next
    <3> QED BY <1>a, <3>1, <3>2
  <2>3. waiters' = [waiters EXCEPT ![s] = IF next = {} THEN @ ELSE Tail(@)]
    BY Zenon DEF Finish
  <2>4. (IF next = {} THEN waiters[s] ELSE Tail(waiters[s])) \in Seq(Call)
    BY <1>a, <1>f
  <2>5. waiters \in [Server -> Seq(Call)]
    BY DEF Types
  <2>6. waiters' \in [Server -> Seq(Call)]
    BY <1>a, <2>3, <2>4, <2>5
  <2> QED BY <1>b, <2>1, <2>2, <2>6 DEF Types, tokenVars, rowVars, providerVars, editVars
<1>2. TokenInv'
  BY <1>a, <1>b, <1>c, <1>d, <1>e, <1>g, OutsideTheLock DEF TokenInv, InLock
<1>3. Queued'
  <2> SUFFICES ASSUME NEW t \in Server, NEW i \in 1..Len(waiters'[t])
      PROVE  /\ pc'[waiters'[t][i]] = "waiting"
             /\ ServerOf[waiters'[t][i]] = t
             /\ \A j \in 1..Len(waiters'[t]) :
                    waiters'[t][i] = waiters'[t][j] => i = j
    BY DEF Queued
  <2>1. CASE t # s
    <3>1. waiters'[t] = waiters[t] /\ waiters[t] \in Seq(Call)
      BY <2>1 DEF Finish, Types
    <3>2. /\ waiters[t][i] \in Call /\ pc[waiters[t][i]] = "waiting"
          /\ ServerOf[waiters[t][i]] = t
      BY <3>1, <2>1 DEF Queued
    <3>3. waiters[t][i] \notin Flight(c) /\ waiters[t][i] \notin next
      BY <1>a, <1>d, <1>g, <2>1, <3>2
    <3> QED BY <3>1, <3>2, <3>3, <1>c DEF Queued
  <2>2. CASE t = s /\ waiters[s] # <<>>
    <3>1. waiters'[s] = Tail(waiters[s])
      BY <1>a, <2>2 DEF Finish, Types
    <3>2. i \in 1..(Len(waiters[s]) - 1) /\ i + 1 \in 1..Len(waiters[s])
      BY <1>f, <2>2, <3>1
    <3>3. /\ waiters'[s][i] = waiters[s][i + 1] /\ waiters[s][i + 1] \in Call
          /\ pc[waiters[s][i + 1]] = "waiting" /\ ServerOf[waiters[s][i + 1]] = s
      BY <1>a, <1>f, <2>2, <3>1, <3>2 DEF Queued
    <3>4. \A m, n \in 1..Len(waiters[s]) : waiters[s][m] = waiters[s][n] => m = n
      BY <1>a DEF Queued
    <3>5. waiters[s][i + 1] # waiters[s][1]
      BY <1>f, <2>2, <3>2, <3>4
    <3>6. waiters[s][i + 1] \notin Flight(c) /\ waiters[s][i + 1] \notin next
      BY <1>a, <1>d, <1>f, <2>2, <3>3, <3>5
    <3>7. ASSUME NEW j \in 1..Len(waiters'[s]), waiters'[s][i] = waiters'[s][j]
          PROVE  i = j
      <4>1. j \in 1..(Len(waiters[s]) - 1) /\ j + 1 \in 1..Len(waiters[s])
        BY <1>f, <2>2, <3>1
      <4>2. waiters[s][i + 1] = waiters[s][j + 1]
        BY <1>f, <2>2, <3>1, <3>3, <3>7
      <4>3. i + 1 = j + 1
        BY <3>2, <3>4, <4>1, <4>2
      <4> QED BY <3>2, <4>1, <4>3
    <3> QED BY <1>c, <2>2, <3>3, <3>6, <3>7
  <2>3. CASE t = s /\ waiters[s] = <<>>
    <3>1. waiters'[s] = <<>>
      BY <1>a, <2>3 DEF Finish, Types
    <3> QED BY <2>3, <3>1
  <2> QED BY <2>1, <2>2, <2>3
<1>4. Joined'
  BY <1>b, <1>c, <1>e DEF Joined
<1>5. Kept'
  <2> SUFFICES ASSUME NEW d \in Call, pc'[d] \in {"committed", "resolved"},
                      leader[d] = d, current[d][1] = signIns[RowOf[d]]
               PROVE  \/ stored[RowOf[d]][2] >= result[d][2]
                      \/ ~written[d] /\ Key(d) \in lost
                      \/ Key(d) \in reverted
    BY <1>b DEF Kept, Key, tokenVars, rowVars, providerVars, editVars
  <2>1. pc[d] \in {"committed", "resolved"}
    BY <1>a, <1>c, <1>d, <1>e DEF Answer
  <2> QED BY <2>1 DEF Kept
<1> QED BY <1>1, <1>2, <1>3, <1>4, <1>5 DEF TokenInv

-----------------------------------------------------------------------------
(* The leader's transaction.                                               *)

LEMMA OnlyHolder ==
    ASSUME RotationInv, NEW c \in Call, NEW d \in Call,
           pc[c] \in InLock, pc[d] \in InLock, RowOf[c] = RowOf[d]
    PROVE  c = d
  BY DEF RotationInv, LockHeld

LEMMA LeaderMoves ==
    ASSUME RotationInv, NEW c \in Call, NEW from, NEW to, Advance(c, from, to),
           UNCHANGED flightVars, from # "waiting", to # "joined"
    PROVE  /\ Queued' /\ Joined'
           /\ pc[c] = from /\ pc'[c] = to
           /\ \A d \in Call \ {c} : pc'[d] = pc[d]
<1>1. pc[c] = from /\ pc'[c] = to /\ \A d \in Call \ {c} : pc'[d] = pc[d]
  BY DEF Advance, RotationInv, Types
<1>2. Queued'
  BY <1>1, QueueKept DEF RotationInv, flightVars
<1>3. Joined'
  BY <1>1 DEF RotationInv, Joined, flightVars
<1> QED BY <1>1, <1>2, <1>3

LEMMA UnlockedHolds ==
    ASSUME RotationInv, NEW c \in Call, lock' = Unlocked(c),
           pc'[c] \notin InLock, \A d \in Call \ {c} : pc'[d] = pc[d]
    PROVE  LockHeld' /\ lock' \in [Row -> Call \union {Nobody}]
<1> USE RotationAssumption DEF RotationInv
<1>1. lock' \in [Row -> Call \union {Nobody}]
  BY DEF Unlocked, Types
<1>2. ASSUME NEW d \in Call, pc'[d] \in InLock PROVE lock'[RowOf[d]] = d
  <2>1. d # c /\ lock[RowOf[d]] = d
    BY <1>2 DEF LockHeld
  <2> QED BY <2>1 DEF Unlocked, Types
<1> QED BY <1>1, <1>2 DEF LockHeld

LEMMA BeginStep ==
    ASSUME RotationInv, NEW c \in Call, Begin(c)
    PROVE  RotationInv'
<1> USE DEF RotationInv
<1>1. Queued' /\ Joined' /\ pc[c] = "admitted" /\ pc'[c] = "locking"
      /\ \A d \in Call \ {c} : pc'[d] = pc[d]
  BY LeaderMoves DEF Begin
<1>2. Types'
  BY DEF Types, Begin, Advance, Leading, Admitted, flightVars, tokenVars, rowVars,
     providerVars, editVars
<1>3. TokenInv'
  BY <1>1, OutsideTheLock DEF Begin, TokenInv, InLock
<1>4. Kept'
  BY <1>1 DEF Begin, Kept, Key, flightVars, tokenVars, rowVars, providerVars, editVars
<1> QED BY <1>1, <1>2, <1>3, <1>4 DEF TokenInv

LEMMA TakeLockStep ==
    ASSUME RotationInv, NEW c \in Call, TakeLock(c)
    PROVE  RotationInv'
<1> USE RotationAssumption DEF RotationInv, flightVars, tokenVars, rowVars, providerVars, editVars
<1>1. Queued' /\ Joined' /\ pc[c] = "locking" /\ pc'[c] = "locked"
      /\ \A d \in Call \ {c} : pc'[d] = pc[d]
  BY LeaderMoves DEF TakeLock
<1>2. Types'
  BY DEF Types, TakeLock, Advance, Leading, Admitted
<1>3. LockHeld'
  <2>1. ASSUME NEW d \in Call, pc'[d] \in InLock PROVE lock'[RowOf[d]] = d
    <3>1. CASE d = c
      BY <3>1 DEF TakeLock, Types
    <3>2. CASE d # c
      <4>1. lock[RowOf[d]] = d
        BY <1>1, <2>1, <3>2 DEF LockHeld
      <4>2. RowOf[d] # RowOf[c]
        BY <4>1 DEF TakeLock
      <4> QED BY <4>1, <4>2 DEF TakeLock, Types
    <3> QED BY <3>1, <3>2
  <2> QED BY <2>1 DEF LockHeld
<1>4. Unissued' /\ NewestSignInIsStored' /\ Issued' /\ Held' /\ SentTokenIsLatest'
  BY <1>1 DEF TakeLock, Unissued, NewestSignInIsStored, Issued, Held, Replaced,
     SentTokenIsLatest, IsLatest, Key, InLock
<1>5. AnswerKnown' /\ Saved' /\ Fresh' /\ Kept'
  BY <1>1 DEF TakeLock, AnswerKnown, Saved, Fresh, Replaces, Kept, IsLatest, Key, Sent
<1>6. SpentIsOld' /\ Drafts'
  BY EditsKept DEF TakeLock
<1> QED BY <1>1, <1>2, <1>3, <1>4, <1>5, <1>6

LEMMA ReadStep ==
    ASSUME RotationInv, NEW c \in Call, Read(c)
    PROVE  RotationInv'
<1> USE RotationAssumption
    DEF RotationInv, flightVars, tokenVars, rowVars, providerVars, editVars
<1>1. Queued' /\ Joined' /\ pc[c] = "locked" /\ pc'[c] = "read"
      /\ \A d \in Call \ {c} : pc'[d] = pc[d]
  BY LeaderMoves DEF Read
<1>2. /\ current' = [current EXCEPT ![c] = stored[RowOf[c]]]
      /\ UNCHANGED <<leader, active, waiters, lock, result, written, stored, signIns,
                     latest, lost, editVars>>
  BY DEF Read
<1>3. /\ current'[c] = stored[RowOf[c]]
      /\ \A d \in Call \ {c} : current'[d] = current[d] /\ Key(d)' = Key(d)
      /\ RowOf[c] \in Row
  BY <1>2 DEF Types, Key
<1>4. Types'
  <2>1. current' \in [Call -> Token]
    BY <1>2, <1>3 DEF Types
  <2>2. pc' \in [Call -> {"idle", "joined"} \union Leading \union Settled]
    BY DEF Types, Read, Advance, Leading, Admitted
  <2> QED BY <1>2, <2>1, <2>2 DEF Read, Types
<1>5. LockHeld' /\ Unissued' /\ NewestSignInIsStored' /\ Issued'
  BY <1>1, <1>2 DEF Read, LockHeld, Unissued, NewestSignInIsStored, Issued, InLock
<1>6. Held'
  <2>1. ASSUME NEW d \in Call
        PROVE  /\ current'[d][1] <= signIns[RowOf[d]]
               /\ pc'[d] \in InLock \ {"locked"} /\ current'[d][1] = signIns[RowOf[d]]
                    => \/ stored[RowOf[d]] = current'[d]
                       \/ Key(d)' \in reverted
                       \/ Replaced(RowOf[d], current'[d])
    <3>1. CASE d = c
      BY <3>1, <1>3 DEF Issued, Types, SignIn
    <3>2. CASE d # c
      BY <3>2, <1>1, <1>3 DEF Held
    <3> QED BY <3>1, <3>2
  <2> QED BY <2>1, <1>2 DEF Held, Replaced
<1>7. SentTokenIsLatest'
  <2>1. \A d \in Call : ~Replaces(d, RowOf[c])
    BY <1>1, OnlyHolder DEF Replaces, Sent, InLock
  <2>2. \/ IsLatest(RowOf[c], stored[RowOf[c]])
        \/ <<RowOf[c], stored[RowOf[c]][1]>> \in lost \union reverted
        \/ <<RowOf[c], stored[RowOf[c]]>> \in editSpent
    BY <1>3, <2>1 DEF Fresh
  <2>3. ASSUME NEW d \in Call, pc'[d] = "read"
        PROVE  \/ IsLatest(RowOf[d], current[d])'
               \/ Key(d)' \in lost \union reverted
               \/ <<RowOf[d], current'[d]>> \in editSpent
    <3>1. CASE d = c
      BY <3>1, <1>2, <1>3, <2>2 DEF IsLatest, Key
    <3>2. CASE d # c
      BY <3>2, <2>3, <1>1, <1>2, <1>3 DEF SentTokenIsLatest, IsLatest
    <3> QED BY <3>1, <3>2
  <2> QED BY <2>3, <1>2 DEF SentTokenIsLatest
<1>8. AnswerKnown' /\ Saved'
  BY <1>1, <1>2, <1>3 DEF AnswerKnown, Saved, Sent
<1>9. Fresh'
  <2>1. \A d \in Call, r \in Row : Replaces(d, r) => Replaces(d, r)'
    BY <1>1, <1>2, <1>3 DEF Replaces, Sent
  <2> QED BY <2>1, <1>2 DEF Fresh, IsLatest
<1>10. Kept'
  BY <1>1, <1>2, <1>3 DEF Kept
<1>11. SpentIsOld' /\ Drafts'
  BY <1>2, EditsKept
<1> QED BY <1>1, <1>4, <1>5, <1>6, <1>7, <1>8, <1>9, <1>10, <1>11

LEMMA FailUnsentStep ==
    ASSUME RotationInv, NEW c \in Call, FailUnsent(c)
    PROVE  RotationInv'
<1> USE RotationAssumption DEF RotationInv, flightVars, tokenVars, rowVars, providerVars, editVars
<1>1. PICK from \in {"admitted", "locking", "locked"} : Advance(c, from, "failed")
  BY DEF FailUnsent
<1>2. Queued' /\ Joined' /\ pc[c] = from /\ pc'[c] = "failed"
      /\ \A d \in Call \ {c} : pc'[d] = pc[d]
  BY <1>1, LeaderMoves DEF FailUnsent
<1>3. LockHeld' /\ lock' \in [Row -> Call \union {Nobody}]
  BY <1>2, UnlockedHolds DEF FailUnsent, InLock
<1>4. Types'
  BY <1>1, <1>3 DEF FailUnsent, Types, Advance, Leading, Admitted
<1>5. Unissued' /\ NewestSignInIsStored' /\ Issued' /\ Held' /\ SentTokenIsLatest'
  BY <1>2 DEF FailUnsent, Unissued, NewestSignInIsStored, Issued, Held, Replaced,
     SentTokenIsLatest, IsLatest, Key, InLock
<1>7. SpentIsOld' /\ Drafts'
  BY EditsKept DEF FailUnsent
<1>6. AnswerKnown' /\ Saved' /\ Fresh' /\ Kept'
  BY <1>2 DEF FailUnsent, AnswerKnown, Saved, Fresh, Replaces, Kept, IsLatest, Key, Sent
<1> QED BY <1>2, <1>3, <1>4, <1>5, <1>6, <1>7

(* A call under another row's lock has another key.                        *)
LEMMA OtherKey ==
    ASSUME RotationInv, NEW c \in Call, NEW d \in Call \ {c},
           pc[c] \in InLock, pc[d] \in InLock
    PROVE  RowOf[d] # RowOf[c] /\ Key(d) # Key(c)
<1>1. RowOf[d] # RowOf[c]
  BY OnlyHolder
<1> QED BY <1>1 DEF Key

(* A token that is read is the stored one, or its sign-in was overwritten. *)
LEMMA StillStored ==
    ASSUME RotationInv, NEW c \in Call, pc[c] = "read",
           <<RowOf[c], current[c]>> \notin editSpent,
           stored[RowOf[c]][1] = current[c][1]
    PROVE  stored[RowOf[c]] = current[c] \/ Key(c) \in reverted
<1> USE RotationAssumption DEF RotationInv
<1>1. RowOf[c] \in Row /\ pc[c] \in InLock \ {"locked"}
  BY DEF InLock
<1>2. CASE current[c][1] = signIns[RowOf[c]]
  BY <1>1, <1>2 DEF Held, Replaced
<1>3. CASE current[c][1] # signIns[RowOf[c]]
  BY <1>1, <1>3 DEF Issued, Key
<1> QED BY <1>2, <1>3

(* What a refresh that sends its token does to the edits under way.        *)
LEMMA EditsUnderExchange ==
    ASSUME RotationInv, NEW c \in Call, pc[c] = "read",
           UNCHANGED <<stored, editVars>>, lost \subseteq lost',
           latest' \in [Row \X SignIn -> Nat],
           latest'[Key(c)] >= latest[Key(c)],
           \A k \in Row \X SignIn : k # Key(c) => latest'[k] = latest[k],
           \/ latest'[Key(c)] = latest[Key(c)]
           \/ Key(c) \in lost'
           \/ <<RowOf[c], current[c]>> \notin editSpent
    PROVE  (SpentIsOld /\ Drafts)'
<1> USE RotationAssumption DEF RotationInv, editVars
<1>1. SpentIsOld'
  <2>1. ASSUME NEW r \in Row, NEW token \in Token, <<r, token>> \in editSpent
        PROVE  token[2] < latest'[<<r, token[1]>>]
    <3>1. <<r, token[1]>> \in Row \X SignIn /\ token[2] \in Nat
      BY DEF Token
    <3>2. latest[<<r, token[1]>>] \in Nat /\ latest'[<<r, token[1]>>] \in Nat
      BY <3>1 DEF Types
    <3>3. token[2] < latest[<<r, token[1]>>]
      BY <2>1 DEF SpentIsOld
    <3>4. latest'[<<r, token[1]>>] >= latest[<<r, token[1]>>]
      BY <3>1, <3>2
    <3> QED BY <3>1, <3>2, <3>3, <3>4
  <2> QED BY <2>1 DEF SpentIsOld
<1>2. ASSUME NEW r \in Row, NEW old \in draft[r], NEW token \in validated[r],
             Turned(r, old, token)
      PROVE  Turned(r, old, token)'
  <2>1. token \in Token /\ <<r, token[1]>> \in Row \X SignIn
    BY DEF Types, Token
  <2>2. CASE latest'[<<r, token[1]>>] = latest[<<r, token[1]>>]
    BY <1>2, <2>2 DEF Turned, IsLatest
  <2>3. CASE Key(c) \in lost' /\ <<r, token[1]>> = Key(c)
    BY <1>2, <2>3 DEF Turned
  <2>4. CASE <<RowOf[c], current[c]>> \notin editSpent /\ <<r, token[1]>> = Key(c)
    <3>1. r = RowOf[c] /\ token[1] = current[c][1] /\ old[1] = token[1]
          /\ <<r, old>> \in editSpent
      BY <1>2, <2>4 DEF Key, Turned
    <3>2. CASE stored[r] # old
      BY <1>2, <3>2 DEF Turned
    <3>3. CASE stored[r] = old
      <4>1. Key(c) \in reverted
        BY <2>4, <3>1, <3>3, StillStored
      <4> QED BY <1>2, <2>4, <4>1 DEF Turned
    <3> QED BY <3>2, <3>3
  <2> QED BY <2>1, <2>2, <2>3, <2>4
<1>3. Drafts'
  BY <1>2 DEF Drafts
<1> QED BY <1>1, <1>3

LEMMA ExchangeStep ==
    ASSUME RotationInv, NEW c \in Call, NEW rotate \in BOOLEAN, Exchange(c, rotate)
    PROVE  RotationInv'
<1> DEFINE r == RowOf[c]
<1> USE RotationAssumption DEF RotationInv, flightVars, tokenVars, rowVars, providerVars, editVars
<1>1. Queued' /\ Joined' /\ pc[c] = "read" /\ pc'[c] = "exchanged"
      /\ \A d \in Call \ {c} : pc'[d] = pc[d]
  BY LeaderMoves DEF Exchange
<1>2. /\ r \in Row /\ current[c] \in Token
      /\ Key(c) = <<r, current[c][1]>> /\ Key(c) \in Row \X SignIn
      /\ current[c][2] = latest[Key(c)]
      /\ \A d \in Call : Key(d)' = Key(d)
      /\ UNCHANGED <<leader, active, waiters, lock, current, written, stored, signIns, lost,
                     editVars>>
  BY KeyType DEF Exchange, Key, IsLatest
<1>3. /\ latest' \in [Row \X SignIn -> Nat]
      /\ latest'[Key(c)] \in Nat /\ latest'[Key(c)] >= latest[Key(c)]
      /\ \A k \in Row \X SignIn : k # Key(c) => latest'[k] = latest[k]
  BY <1>2 DEF Exchange, Types
<1>4. /\ result'[c] = <<current[c][1], latest'[Key(c)]>>
      /\ \A d \in Call \ {c} : result'[d] = result[d]
      /\ result' \in [Call -> Token]
  BY <1>2, <1>3 DEF Exchange, Types, Token
<1>5. Types'
  <2>1. pc' \in [Call -> {"idle", "joined"} \union Leading \union Settled]
    BY DEF Types, Exchange, Advance, Leading, Admitted
  <2> QED BY <1>2, <1>3, <1>4, <2>1 DEF Types
<1>6. LockHeld' /\ NewestSignInIsStored' /\ Issued' /\ Held'
  BY <1>1, <1>2 DEF LockHeld, NewestSignInIsStored, Issued, Held, Replaced, InLock
<1>12. <<r, current[c]>> \notin editSpent
  BY <1>2, <1>3 DEF SpentIsOld, Types
<1>13. SpentIsOld' /\ Drafts'
  BY <1>1, <1>2, <1>3, <1>12, EditsUnderExchange
<1>7. Unissued'
  <2>1. ASSUME NEW q \in Row, NEW n \in SignIn, n > signIns[q] PROVE <<q, n>> # Key(c)
    BY <1>2, <2>1 DEF Held, Types, Token, SignIn
  <2> QED BY <1>2, <1>3, <2>1 DEF Unissued
<1>8. SentTokenIsLatest'
  <2>1. ASSUME NEW d \in Call, pc'[d] = "read"
        PROVE  \/ IsLatest(RowOf[d], current[d])'
               \/ Key(d)' \in lost \union reverted
               \/ <<RowOf[d], current[d]>> \in editSpent
    <3>1. d # c /\ pc[d] = "read"
      BY <1>1, <2>1
    <3>2. Key(d) # Key(c) /\ Key(d) \in Row \X SignIn
      BY <1>1, <3>1, OtherKey, KeyType DEF InLock
    <3>3. latest'[Key(d)] = latest[Key(d)]
      BY <1>3, <3>2
    <3> QED BY <1>2, <3>1, <3>3 DEF SentTokenIsLatest, IsLatest, Key
  <2> QED BY <1>2, <2>1 DEF SentTokenIsLatest
<1>9. AnswerKnown'
  <2>1. ASSUME NEW d \in Call, pc'[d] \in Sent
        PROVE  /\ result'[d][1] = current[d][1]
               /\ result'[d][2] >= current[d][2] /\ result'[d][2] <= latest'[Key(d)]
               /\ \/ result'[d][2] = latest'[Key(d)]
                  \/ Key(d) \in lost
                  \/ <<RowOf[d], result'[d]>> \in editSpent
               /\ <<RowOf[d], current[d]>> \in editSpent => result'[d] = current[d]
    <3>1. CASE d = c
      BY <1>2, <1>3, <1>4, <1>12, <3>1
    <3>2. CASE d # c
      <4>1. pc[d] \in Sent
        BY <1>1, <2>1, <3>2
      <4>2. Key(d) # Key(c) /\ Key(d) \in Row \X SignIn
        BY <1>1, <4>1, <3>2, OtherKey, KeyType DEF InLock, Sent
      <4> QED BY <1>3, <1>4, <3>2, <4>1, <4>2 DEF AnswerKnown
    <3> QED BY <3>1, <3>2
  <2> QED BY <1>2, <2>1 DEF AnswerKnown
<1>10. Saved' /\ Kept'
  BY <1>1, <1>2, <1>4 DEF Saved, Kept
<1>11. Fresh'
  <2>1. ASSUME NEW q \in Row
        PROVE  \/ stored[q][2] = latest'[<<q, stored[q][1]>>]
               \/ <<q, stored[q][1]>> \in lost \union reverted
               \/ <<q, stored[q]>> \in editSpent
               \/ \E d \in Call : Replaces(d, q)'
    <3>a. stored[q] \in Token /\ <<q, stored[q][1]>> \in Row \X SignIn
      BY DEF Types, Token
    <3>1. CASE q = r /\ current[c] = stored[r]
      BY <1>1, <1>2, <3>1 DEF Replaces, Sent
    <3>2. CASE q = r /\ current[c] # stored[r]
      <4>1. CASE current[c][1] # stored[r][1]
        <5>1. \A d \in Call : ~Replaces(d, r)
          BY <1>1, OnlyHolder DEF Replaces, Sent, InLock
        <5> QED BY <1>2, <1>3, <3>2, <3>a, <4>1, <5>1 DEF Fresh, IsLatest
      <4>2. CASE current[c][1] = stored[r][1]
        BY <1>1, <1>2, <1>12, <3>2, <4>2, StillStored
      <4> QED BY <4>1, <4>2
    <3>3. CASE q # r
      <4>1. \A d \in Call : Replaces(d, q) => Replaces(d, q)'
        BY <1>1, <1>2, <3>3 DEF Replaces, Sent
      <4> QED BY <1>2, <1>3, <3>3, <3>a, <4>1 DEF Fresh, IsLatest
    <3> QED BY <3>1, <3>2, <3>3
  <2> QED BY <1>2, <2>1 DEF Fresh, IsLatest
<1> QED BY <1>1, <1>5, <1>6, <1>7, <1>8, <1>9, <1>10, <1>11, <1>13

LEMMA ExchangeFailsStep ==
    ASSUME RotationInv, NEW c \in Call, NEW rotated \in BOOLEAN,
           ExchangeFails(c, rotated)
    PROVE  RotationInv'
<1> DEFINE r == RowOf[c]
<1> USE RotationAssumption DEF RotationInv, flightVars, tokenVars, rowVars, providerVars, editVars
<1>1. Queued' /\ Joined' /\ pc[c] = "read" /\ pc'[c] = "failed"
      /\ \A d \in Call \ {c} : pc'[d] = pc[d]
  BY LeaderMoves DEF ExchangeFails
<1>2. /\ r \in Row /\ Key(c) \in Row \X SignIn
      /\ current[c] \in Token /\ Key(c) = <<r, current[c][1]>>
      /\ \A d \in Call : Key(d)' = Key(d)
      /\ lock' = Unlocked(c)
      /\ UNCHANGED <<leader, active, waiters, current, result, written, stored, signIns,
                     editVars>>
  BY KeyType DEF ExchangeFails, Key
<1>3. /\ latest' \in [Row \X SignIn -> Nat] /\ lost' \subseteq Row \X SignIn
      /\ lost \subseteq lost'
      /\ latest'[Key(c)] >= latest[Key(c)]
      /\ \A k \in Row \X SignIn : latest'[k] = latest[k] \/ (k = Key(c) /\ k \in lost')
      /\ \A k \in Row \X SignIn : k # Key(c) => latest'[k] = latest[k]
  <2>1. CASE rotated
    <3>1. latest' = [latest EXCEPT ![Key(c)] = @ + 1] /\ lost' = lost \union {Key(c)}
      BY <2>1 DEF ExchangeFails
    <3> QED BY <1>2, <3>1 DEF Types
  <2>2. CASE ~rotated
    <3>1. latest' = [latest EXCEPT ![Key(c)] = @] /\ lost' = lost
      BY <2>2 DEF ExchangeFails
    <3>2. latest \in [Row \X SignIn -> Nat] /\ lost \subseteq Row \X SignIn
      BY DEF Types
    <3>3. latest' \in [Row \X SignIn -> Nat] /\ latest[Key(c)] \in Nat
      BY <1>2, <3>1, <3>2
    <3>4. \A k \in Row \X SignIn : latest'[k] = latest[k]
      BY <3>1, <3>2
    <3> QED BY <1>2, <3>1, <3>2, <3>3, <3>4
  <2> QED BY <2>1, <2>2
<1>4. LockHeld' /\ lock' \in [Row -> Call \union {Nobody}]
  BY <1>1, <1>2, UnlockedHolds DEF InLock
<1>5. Types'
  <2>1. pc' \in [Call -> {"idle", "joined"} \union Leading \union Settled]
    BY DEF Types, ExchangeFails, Advance, Leading, Admitted
  <2> QED BY <1>2, <1>3, <1>4, <2>1 DEF Types
<1>6. NewestSignInIsStored' /\ Issued' /\ Held' /\ Saved' /\ Kept'
  BY <1>1, <1>2, <1>3 DEF NewestSignInIsStored, Issued, Held, Replaced, Saved, Kept, InLock
<1>11. SpentIsOld' /\ Drafts'
  BY <1>1, <1>2, <1>3, EditsUnderExchange
<1>7. Unissued'
  <2>1. ASSUME NEW q \in Row, NEW n \in SignIn, n > signIns[q] PROVE <<q, n>> # Key(c)
    BY <1>2, <2>1 DEF Held, Types, Token, SignIn
  <2> QED BY <1>2, <1>3, <2>1 DEF Unissued
<1>8. SentTokenIsLatest'
  <2>1. ASSUME NEW d \in Call, pc'[d] = "read"
        PROVE  \/ IsLatest(RowOf[d], current[d])'
               \/ Key(d)' \in lost' \union reverted
               \/ <<RowOf[d], current[d]>> \in editSpent
    <3>1. d # c /\ pc[d] = "read"
      BY <1>1, <2>1
    <3>2. Key(d) # Key(c) /\ Key(d) \in Row \X SignIn
      BY <1>1, <3>1, OtherKey, KeyType DEF InLock
    <3> QED BY <1>2, <1>3, <3>1, <3>2 DEF SentTokenIsLatest, IsLatest, Key
  <2> QED BY <1>2, <2>1 DEF SentTokenIsLatest
<1>9. AnswerKnown'
  <2>1. ASSUME NEW d \in Call, pc'[d] \in Sent
        PROVE  /\ result[d][1] = current[d][1]
               /\ result[d][2] >= current[d][2] /\ result[d][2] <= latest'[Key(d)]
               /\ \/ result[d][2] = latest'[Key(d)]
                  \/ Key(d) \in lost'
                  \/ <<RowOf[d], result[d]>> \in editSpent
               /\ <<RowOf[d], current[d]>> \in editSpent => result[d] = current[d]
    <3>1. d # c /\ pc[d] \in Sent
      BY <1>1, <2>1 DEF Sent
    <3>2. Key(d) # Key(c) /\ Key(d) \in Row \X SignIn
      BY <1>1, <3>1, OtherKey, KeyType DEF InLock, Sent
    <3> QED BY <1>3, <3>1, <3>2 DEF AnswerKnown
  <2> QED BY <1>2, <2>1 DEF AnswerKnown
<1>10. Fresh'
  <2>1. ASSUME NEW q \in Row
        PROVE  \/ stored[q][2] = latest'[<<q, stored[q][1]>>]
               \/ <<q, stored[q][1]>> \in lost' \union reverted
               \/ <<q, stored[q]>> \in editSpent
               \/ \E d \in Call : Replaces(d, q)'
    <3>1. <<q, stored[q][1]>> \in Row \X SignIn
      BY DEF Types, Token
    <3>2. \A d \in Call : Replaces(d, q) => Replaces(d, q)'
      BY <1>1, <1>2 DEF Replaces, Sent
    <3> QED BY <1>3, <3>1, <3>2 DEF Fresh, IsLatest
  <2> QED BY <1>2, <2>1 DEF Fresh, IsLatest
<1> QED BY <1>1, <1>4, <1>5, <1>6, <1>7, <1>8, <1>9, <1>10, <1>11

LEMMA PersistStep ==
    ASSUME RotationInv, NEW c \in Call, Persist(c)
    PROVE  RotationInv'
<1> DEFINE r == RowOf[c]
<1> USE RotationAssumption DEF RotationInv, flightVars, tokenVars, rowVars, providerVars, editVars
<1>1. Queued' /\ Joined' /\ pc[c] = "exchanged" /\ pc'[c] = "persisted"
      /\ \A d \in Call \ {c} : pc'[d] = pc[d]
  BY LeaderMoves DEF Persist
<1>2. /\ r \in Row /\ Key(c) = <<r, current[c][1]>> /\ current[c] \in Token
      /\ \A d \in Call : Key(d)' = Key(d)
      /\ UNCHANGED <<leader, active, waiters, lock, current, result, stored, signIns,
                     latest, lost, editVars>>
  BY KeyType DEF Persist, Key
<1>3. /\ written' \in [Call -> BOOLEAN]
      /\ \A d \in Call \ {c} : written'[d] = written[d]
      /\ written'[c] <=> result[c] # current[c] /\ stored[r] = current[c]
  BY DEF Persist, Types
<1>4. Types'
  <2>1. pc' \in [Call -> {"idle", "joined"} \union Leading \union Settled]
    BY DEF Types, Persist, Advance, Leading, Admitted
  <2> QED BY <1>2, <1>3, <2>1 DEF Types
<1>5. LockHeld' /\ Unissued' /\ NewestSignInIsStored' /\ Issued' /\ Held' /\ AnswerKnown'
  BY <1>1, <1>2 DEF LockHeld, Unissued, NewestSignInIsStored, Issued, Held, Replaced,
     AnswerKnown, InLock, Sent
<1>6. SentTokenIsLatest'
  BY <1>1, <1>2 DEF SentTokenIsLatest, IsLatest
<1>7. Saved'
  <2>1. ~written'[c] => \/ result[c] = current[c] \/ current[c][1] < signIns[r]
                        \/ Key(c) \in reverted
    <3>1. pc[c] \in InLock \ {"locked"}
      BY <1>1 DEF InLock
    <3>2. /\ current[c][1] \in Int /\ signIns[r] \in Int /\ current[c][1] <= signIns[r]
          /\ current[c][1] = signIns[r] => \/ stored[r] = current[c] \/ Key(c) \in reverted
                                          \/ Replaced(r, current[c])
      BY <3>1 DEF Held, Types, Token, SignIn
    <3>3. Replaced(r, current[c]) => result[c] = current[c]
      BY <1>1 DEF Replaced, AnswerKnown, Sent
    <3> QED BY <1>3, <3>2, <3>3
  <2> QED BY <1>1, <1>2, <1>3, <2>1 DEF Saved
<1>8. Kept'
  BY <1>1, <1>2, <1>3 DEF Kept
<1>9. Fresh'
  <2>1. ASSUME NEW q \in Row
        PROVE  \/ IsLatest(q, stored[q])
               \/ <<q, stored[q][1]>> \in lost \union reverted
               \/ <<q, stored[q]>> \in editSpent
               \/ \E d \in Call : Replaces(d, q)'
    <3>1. CASE q = r /\ current[c] = stored[r]
      <4>1. CASE written'[c]
        BY <1>1, <1>2, <3>1, <4>1 DEF Replaces, Sent
      <4>2. CASE ~written'[c]
        <5>1. result[c] = stored[r]
          BY <1>3, <3>1, <4>2
        <5> QED BY <1>1, <1>2, <3>1, <5>1 DEF AnswerKnown, Sent, IsLatest
      <4> QED BY <4>1, <4>2
    <3>2. CASE q # r \/ current[c] # stored[r]
      <4>1. \A d \in Call : Replaces(d, q) => Replaces(d, q)'
        BY <1>1, <1>2, <1>3, <3>2 DEF Replaces, Sent
      <4> QED BY <4>1 DEF Fresh
    <3> QED BY <3>1, <3>2
  <2> QED BY <1>2, <2>1 DEF Fresh, IsLatest
<1>10. SpentIsOld' /\ Drafts'
  BY <1>2, EditsKept
<1> QED BY <1>1, <1>4, <1>5, <1>6, <1>7, <1>8, <1>9, <1>10

LEMMA PersistFailsStep ==
    ASSUME RotationInv, NEW c \in Call, NEW swallowed \in BOOLEAN,
           PersistFails(c, swallowed)
    PROVE  RotationInv'
<1> DEFINE r == RowOf[c]
<1> USE RotationAssumption DEF RotationInv, flightVars, tokenVars, rowVars, providerVars, editVars
<1>1. Queued' /\ Joined' /\ pc[c] = "exchanged"
      /\ pc'[c] = (IF swallowed THEN "persisted" ELSE "failed")
      /\ \A d \in Call \ {c} : pc'[d] = pc[d]
  BY LeaderMoves DEF PersistFails
<1>2. /\ r \in Row /\ Key(c) = <<r, current[c][1]>> /\ Key(c) \in Row \X SignIn
      /\ lost' = lost \union {Key(c)}
      /\ \A d \in Call : Key(d)' = Key(d)
      /\ UNCHANGED <<leader, active, waiters, current, result, stored, signIns, latest,
                     editVars>>
  BY KeyType DEF PersistFails, Key
<1>3. /\ written' \in [Call -> BOOLEAN] /\ ~written'[c]
      /\ \A d \in Call \ {c} : written'[d] = written[d]
  BY DEF PersistFails, Types
<1>4. LockHeld' /\ lock' \in [Row -> Call \union {Nobody}]
  <2>1. CASE swallowed
    BY <1>1, <2>1 DEF PersistFails, LockHeld, InLock, Types
  <2>2. CASE ~swallowed
    BY <1>1, <2>2, UnlockedHolds DEF PersistFails, InLock
  <2> QED BY <2>1, <2>2
<1>5. Types'
  <2>1. pc' \in [Call -> {"idle", "joined"} \union Leading \union Settled]
    BY DEF Types, PersistFails, Advance, Leading, Admitted
  <2> QED BY <1>2, <1>3, <1>4, <2>1 DEF Types
<1>6. Unissued' /\ NewestSignInIsStored' /\ Issued' /\ Held' /\ AnswerKnown'
  BY <1>1, <1>2 DEF Unissued, NewestSignInIsStored, Issued, Held, Replaced,
     AnswerKnown, InLock, Sent
<1>7. SentTokenIsLatest'
  BY <1>1, <1>2 DEF SentTokenIsLatest, IsLatest
<1>8. Saved' /\ Kept'
  BY <1>1, <1>2, <1>3 DEF Saved, Kept
<1>9. Fresh'
  <2>1. ASSUME NEW q \in Row
        PROVE  \/ IsLatest(q, stored[q])
               \/ <<q, stored[q][1]>> \in lost' \union reverted
               \/ <<q, stored[q]>> \in editSpent
               \/ \E d \in Call : Replaces(d, q)'
    <3>1. CASE q = r /\ current[c] = stored[r]
      BY <1>2, <3>1
    <3>2. CASE q # r \/ current[c] # stored[r]
      <4>1. \A d \in Call : Replaces(d, q) => Replaces(d, q)'
        BY <1>1, <1>2, <1>3, <3>2 DEF Replaces, Sent
      <4> QED BY <1>2, <4>1 DEF Fresh
    <3> QED BY <3>1, <3>2
  <2> QED BY <1>2, <2>1 DEF Fresh, IsLatest
<1>10. SpentIsOld' /\ Drafts'
  BY <1>2, EditsKept
<1> QED BY <1>1, <1>4, <1>5, <1>6, <1>7, <1>8, <1>9, <1>10

(* What the end of a transaction may leave on the row.                     *)
LEMMA CommittedToken ==
    ASSUME RotationInv, NEW c \in Call, pc[c] = "persisted"
    PROVE  /\ Committed(c) \in [Row -> Token]
           /\ \A q \in Row : /\ Committed(c)[q][1] = stored[q][1]
                             /\ Committed(c)[q][2] >= stored[q][2]
                             /\ q # RowOf[c] => Committed(c)[q] = stored[q]
           /\ \/ IsLatest(RowOf[c], Committed(c)[RowOf[c]])
              \/ <<RowOf[c], Committed(c)[RowOf[c]][1]>> \in lost \union reverted
              \/ <<RowOf[c], Committed(c)[RowOf[c]]>> \in editSpent
           /\ written[c] => Committed(c)[RowOf[c]] = result[c]
           /\ ~written[c] => Committed(c) = stored
<1> USE RotationAssumption DEF RotationInv
<1>1. /\ RowOf[c] \in Row /\ result[c] \in Token /\ current[c] \in Token
      /\ stored \in [Row -> Token]
  BY DEF Types
<1>2. ASSUME NEW q \in Row PROVE stored[q][2] \in Nat /\ stored[q][2] >= stored[q][2]
  BY <1>1 DEF Token
<1>3. CASE written[c]
  <2>1. Committed(c) = [stored EXCEPT ![RowOf[c]] = result[c]]
    BY <1>3 DEF Committed
  <2>2. /\ stored[RowOf[c]] = current[c] /\ result[c][1] = current[c][1]
        /\ result[c][2] >= current[c][2]
        /\ result[c][2] = latest[<<RowOf[c], result[c][1]>>]
            \/ <<RowOf[c], result[c][1]>> \in lost
            \/ <<RowOf[c], result[c]>> \in editSpent
    BY <1>3 DEF Saved, AnswerKnown, Sent, Key
  <2> QED BY <1>1, <1>2, <1>3, <2>1, <2>2 DEF IsLatest
<1>4. CASE ~written[c]
  <2>1. Committed(c) = stored
    BY <1>4 DEF Committed
  <2>2. \A d \in Call : ~Replaces(d, RowOf[c])
    BY <1>4, OnlyHolder DEF Replaces, Sent, InLock
  <2> QED BY <1>1, <1>2, <1>4, <2>1, <2>2 DEF Fresh
<1> QED BY <1>3, <1>4

(* An edit goes on while the row moves on: it has read the stored token or *)
(* one before it.                                                          *)
LEMMA RowAdvances ==
    ASSUME RotationInv, stored' \in [Row -> Token],
           \A q \in Row : AtLeast(stored'[q], stored[q]),
           UNCHANGED <<draft, validated, reverted>>, lost \subseteq lost',
           editSpent \subseteq editSpent',
           \A q \in Row, n \in SignIn :
                n <= signIns[q] => latest'[<<q, n>>] = latest[<<q, n>>]
    PROVE  Drafts'
<1> USE DEF RotationInv
<1>1. ASSUME NEW r \in Row, NEW old \in draft[r]
      PROVE  /\ AtLeast(stored'[r], old)
             /\ stored[r] # old => stored'[r] # old
             /\ old \in Token /\ old[1] <= signIns[r]
  <2>1. /\ old \in Token /\ stored[r] \in Token /\ stored'[r] \in Token
        /\ AtLeast(stored[r], old) /\ AtLeast(stored'[r], stored[r])
        /\ old[1] <= signIns[r]
    BY DEF Types, Drafts, Issued
  <2>2. \A t \in Token : t[1] \in Int /\ t[2] \in Int /\ t = <<t[1], t[2]>>
    BY DEF Token, SignIn
  <2> QED BY <2>1, <2>2 DEF AtLeast
<1>2. ASSUME NEW r \in Row, NEW old \in draft[r], NEW token \in validated[r],
             Turned(r, old, token)
      PROVE  Turned(r, old, token)'
  <2>1. token[1] \in SignIn /\ token[1] <= signIns[r]
    BY <1>1, <1>2 DEF Turned, Token
  <2>2. latest'[<<r, token[1]>>] = latest[<<r, token[1]>>]
    BY <2>1
  <2> QED BY <1>1, <1>2, <2>2 DEF Turned, IsLatest
<1>3. ASSUME NEW r \in Row, NEW old \in draft[r] PROVE \A other \in draft[r] : other = old
  BY DEF Drafts
<1>4. ASSUME NEW r \in Row, NEW token \in validated[r]
      PROVE  \E old \in draft[r] : token = old \/ Turned(r, old, token)'
  BY <1>2 DEF Drafts
<1> QED BY <1>1, <1>3, <1>4 DEF Drafts

(* The end of a transaction, whatever becomes of its write.                *)
LEMMA EndStep ==
    ASSUME RotationInv, NEW c \in Call, NEW to \in {"committed", "failed"},
           Advance(c, "persisted", to), lock' = Unlocked(c),
           UNCHANGED <<flightVars, tokenVars, signIns, latest, editVars>>,
           stored' = Committed(c) \/ stored' = stored,
           to = "committed" => stored' = Committed(c),
           lost \subseteq lost', lost' \subseteq Row \X SignIn,
           stored' # Committed(c) /\ written[c] => Key(c) \in lost'
    PROVE  RotationInv'
<1> DEFINE r == RowOf[c]
<1> USE RotationAssumption DEF RotationInv, flightVars, tokenVars, editVars
<1>1. Queued' /\ Joined' /\ pc[c] = "persisted" /\ pc'[c] = to
      /\ \A d \in Call \ {c} : pc'[d] = pc[d]
  BY LeaderMoves
<1>2. /\ r \in Row /\ Key(c) = <<r, current[c][1]>>
      /\ current[c] \in Token /\ result[c] \in Token
      /\ \A d \in Call : Key(d)' = Key(d) /\ RowOf[d] \in Row
  BY KeyType DEF Key, Types
<1>3. /\ stored' \in [Row -> Token] /\ stored \in [Row -> Token]
      /\ \A q \in Row : /\ stored'[q][1] = stored[q][1]
                        /\ stored'[q][2] >= stored[q][2]
                        /\ q # r => stored'[q] = stored[q]
  <2>1. CASE stored' = Committed(c)
    BY <1>1, <2>1, CommittedToken DEF Types
  <2>2. CASE stored' = stored
    <3>1. \A q \in Row : stored[q][2] \in Nat
      BY DEF Types, Token
    <3> QED BY <2>2, <3>1 DEF Types
  <2> QED BY <2>1, <2>2
<1>4. LockHeld' /\ lock' \in [Row -> Call \union {Nobody}]
  BY <1>1, UnlockedHolds DEF InLock
<1>5. Types'
  <2>1. pc' \in [Call -> {"idle", "joined"} \union Leading \union Settled]
    BY DEF Types, Advance, Leading, Admitted
  <2> QED BY <1>3, <1>4, <2>1 DEF Types
<1>6. Unissued' /\ NewestSignInIsStored' /\ Issued' /\ AnswerKnown' /\ SentTokenIsLatest'
  BY <1>1, <1>2, <1>3 DEF Unissued, NewestSignInIsStored, Issued, AnswerKnown,
     SentTokenIsLatest, IsLatest, Sent
<1>7. \A d \in Call \ {c} : pc[d] \in InLock => RowOf[d] # r
  BY <1>1, OnlyHolder DEF InLock
<1>8. Held' /\ Saved'
  <2>1. \A d \in Call : pc'[d] \in InLock =>
            d # c /\ pc[d] = pc'[d] /\ stored'[RowOf[d]] = stored[RowOf[d]]
    BY <1>1, <1>2, <1>3, <1>7 DEF InLock
  <2> QED BY <1>1, <1>2, <2>1 DEF Held, Replaced, Saved, InLock
<1>9. Fresh'
  <2>1. ASSUME NEW q \in Row
        PROVE  \/ stored'[q][2] = latest[<<q, stored'[q][1]>>]
               \/ <<q, stored'[q][1]>> \in lost' \union reverted
               \/ <<q, stored'[q]>> \in editSpent
               \/ \E d \in Call : Replaces(d, q)'
    <3>1. CASE q = r /\ stored' = Committed(c)
      BY <1>1, <3>1, CommittedToken DEF IsLatest
    <3>2. CASE q = r /\ stored' # Committed(c) /\ written[c]
      <4>1. stored[r] = current[c]
        BY <1>1, <3>2 DEF Saved
      <4> QED BY <1>2, <3>2, <4>1
    <3>3. CASE q = r /\ stored' = stored /\ ~written[c]
      <4>1. Committed(c) = stored
        BY <1>1, <3>3, CommittedToken
      <4> QED BY <1>1, <3>3, <4>1, CommittedToken DEF IsLatest
    <3>4. CASE q # r
      <4>1. \A d \in Call : Replaces(d, q) => Replaces(d, q)'
        BY <1>1, <1>3, <3>4 DEF Replaces, Sent
      <4> QED BY <1>3, <3>4, <4>1 DEF Fresh, IsLatest
    <3> QED BY <3>1, <3>2, <3>3, <3>4
  <2> QED BY <2>1 DEF Fresh, IsLatest
<1>10. Kept'
  <2>1. ASSUME NEW d \in Call, pc'[d] \in {"committed", "resolved"}, leader[d] = d,
               current[d][1] = signIns[RowOf[d]]
        PROVE  \/ stored'[RowOf[d]][2] >= result[d][2]
               \/ ~written[d] /\ Key(d) \in lost'
               \/ Key(d) \in reverted
    <3>1. CASE d # c
      <4>1. \/ stored[RowOf[d]][2] >= result[d][2]
            \/ ~written[d] /\ Key(d) \in lost
            \/ Key(d) \in reverted
        BY <1>1, <2>1, <3>1 DEF Kept
      <4>2. /\ stored[RowOf[d]][2] \in Nat /\ stored'[RowOf[d]][2] \in Nat
            /\ result[d][2] \in Nat
        BY <1>2, <1>3 DEF Types, Token
      <4> QED BY <1>2, <1>3, <4>1, <4>2
    <3>2. CASE d = c
      <4>1. stored' = Committed(c)
        BY <1>1, <2>1, <3>2
      <4>2. CASE written[c]
        <5>1. stored'[r] = result[c] /\ result[c][2] \in Nat
          BY <1>1, <1>2, <4>1, <4>2, CommittedToken DEF Token
        <5> QED BY <3>2, <5>1
      <4>3. CASE ~written[c]
        <5>1. result[c] = current[c] \/ Key(c) \in lost \union reverted
          BY <1>1, <1>2, <2>1, <3>2, <4>3 DEF Saved, Token, SignIn
        <5>2. /\ stored' = stored
              /\ \/ stored[r] = current[c] \/ Key(c) \in reverted
                 \/ Replaced(r, current[c])
          BY <1>1, <2>1, <3>2, <4>1, <4>3, CommittedToken DEF Held, InLock
        <5>3. /\ current[c][2] >= current[c][2]
              /\ Replaced(r, current[c]) => stored[r][2] >= current[c][2]
          BY <1>2, <1>3 DEF Token, Replaced
        <5> QED BY <3>2, <4>3, <5>1, <5>2, <5>3
      <4> QED BY <4>2, <4>3
    <3> QED BY <3>1, <3>2
  <2> QED BY <1>2, <2>1 DEF Kept
<1>11. SpentIsOld' /\ Drafts'
  <2>1. \A q \in Row : AtLeast(stored'[q], stored[q])
    BY <1>3 DEF AtLeast
  <2> QED BY <1>3, <2>1, RowAdvances DEF SpentIsOld
<1> QED BY <1>1, <1>4, <1>5, <1>6, <1>8, <1>9, <1>10, <1>11

LEMMA CommitStep ==
    ASSUME RotationInv, NEW c \in Call, Commit(c)
    PROVE  RotationInv'
<1>1. lost' = lost /\ lost \subseteq Row \X SignIn
  BY DEF Commit, RotationInv, Types, providerVars
<1>2. stored' = Committed(c) /\ lock' = Unlocked(c)
      /\ Advance(c, "persisted", "committed")
      /\ UNCHANGED <<flightVars, tokenVars, signIns, latest, editVars>>
  BY DEF Commit, providerVars
<1> QED BY <1>1, <1>2, EndStep

LEMMA CommitFailsStep ==
    ASSUME RotationInv, NEW c \in Call, NEW applied \in BOOLEAN,
           CommitFails(c, applied)
    PROVE  RotationInv'
<1>1. lost \subseteq Row \X SignIn /\ Key(c) \in Row \X SignIn
  BY KeyType DEF RotationInv, Types
<1>2. /\ stored' = Committed(c) \/ stored' = stored
      /\ stored' # Committed(c) /\ written[c] => Key(c) \in lost'
      /\ lost \subseteq lost' /\ lost' \subseteq Row \X SignIn
  BY <1>1 DEF CommitFails
<1>3. /\ Advance(c, "persisted", "failed") /\ lock' = Unlocked(c)
      /\ UNCHANGED <<flightVars, tokenVars, signIns, latest, editVars>>
  BY DEF CommitFails
<1> QED BY <1>2, <1>3, EndStep

-----------------------------------------------------------------------------
(* What happens around it.                                                 *)

(* A sign-in, whose token is the latest unless the edit that brought it    *)
(* has spent it.                                                           *)
LEMMA SignInStep ==
    ASSUME RotationInv, NEW r \in Row, NewSignIn(r),
           UNCHANGED <<pc, flightVars, lock, tokenVars, lost, draft, validated, reverted>>,
           \/ UNCHANGED <<latest, editSpent>>
           \/ \E rotate \in BOOLEAN : Spend(r, <<signIns[r] + 1, 0>>, rotate)
    PROVE  RotationInv'
<1> DEFINE n == signIns[r] + 1
           k == <<r, n>>
<1> USE RotationAssumption DEF RotationInv, flightVars, tokenVars
<1>2. /\ n \in SignIn /\ signIns[r] \in Nat /\ n > signIns[r] /\ k \in Row \X SignIn
      /\ signIns' \in [Row -> SignIn] /\ signIns'[r] = n
      /\ \A q \in Row \ {r} : signIns'[q] = signIns[q]
  BY DEF NewSignIn, Types, SignIn
<1>3. /\ stored' \in [Row -> Token] /\ stored'[r] = <<n, 0>> /\ <<n, 0>> \in Token
      /\ \A q \in Row \ {r} : stored'[q] = stored[q]
  BY <1>2 DEF NewSignIn, Types, Token
<1>4. \A c \in Call : /\ RowOf[c] \in Row /\ current[c] \in Token
                      /\ current[c][1] \in Int /\ Key(c)' = Key(c)
                      /\ Key(c) \in Row \X SignIn
  <2> TAKE c \in Call
  <2>1. RowOf[c] \in Row /\ current[c] \in Token /\ Key(c) \in Row \X SignIn
    BY KeyType
  <2>2. current[c][1] \in Int /\ Key(c)' = Key(c)
    BY <2>1 DEF Token, SignIn, Key
  <2> QED BY <2>1, <2>2
<1>5. \A c \in Call : RowOf[c] = r => current[c][1] < n
  BY <1>2, <1>4 DEF Held
<1>a. /\ latest' \in [Row \X SignIn -> Nat]
      /\ \A j \in Row \X SignIn : j # k => latest'[j] = latest[j]
      /\ editSpent' \subseteq editSpent \union {<<r, <<n, 0>>>>}
      /\ editSpent \subseteq editSpent'
      /\ \/ latest'[k] = 0 /\ editSpent' = editSpent
         \/ latest'[k] = 1 /\ <<r, <<n, 0>>>> \in editSpent'
  <2>1. latest[k] = 0 /\ latest \in [Row \X SignIn -> Nat]
    BY <1>2 DEF Unissued, Types
  <2>2. CASE UNCHANGED <<latest, editSpent>>
    BY <2>1, <2>2
  <2>3. ASSUME NEW rotate \in BOOLEAN, Spend(r, <<n, 0>>, rotate)
        PROVE  /\ latest' = [latest EXCEPT ![k] = IF rotate THEN @ + 1 ELSE @]
               /\ editSpent' = IF rotate THEN editSpent \union {<<r, <<n, 0>>>>} ELSE editSpent
    BY <2>3 DEF Spend
  <2> QED BY <1>2, <2>1, <2>2, <2>3
<1>b. \A c \in Call : latest'[Key(c)] = latest[Key(c)]
  BY <1>4, <1>5, <1>a DEF Key
<1>c. \A c \in Call : <<RowOf[c], current[c]>> \in editSpent' => <<RowOf[c], current[c]>> \in editSpent
  <2>1. ASSUME NEW c \in Call, RowOf[c] = r PROVE current[c] # <<n, 0>>
    BY <1>2, <1>5, <2>1
  <2> QED BY <1>a, <2>1
<1>6. Types'
  <2>1. editSpent' \subseteq Row \X Token
    <3>1. editSpent \subseteq Row \X Token /\ <<r, <<n, 0>>>> \in Row \X Token
      BY <1>3 DEF Types
    <3> HIDE DEF n
    <3> QED BY <1>a, <3>1
  <2> QED BY <1>2, <1>3, <1>a, <2>1 DEF Types
<1>7. Queued' /\ Joined' /\ LockHeld' /\ AnswerKnown' /\ SentTokenIsLatest'
  <2>1. Queued' /\ Joined' /\ LockHeld'
    BY DEF Queued, Joined, LockHeld
  <2>2. AnswerKnown'
    BY <1>4, <1>a, <1>b, <1>c DEF AnswerKnown
  <2>3. SentTokenIsLatest'
    BY <1>4, <1>a, <1>b DEF SentTokenIsLatest, IsLatest, Key
  <2> QED BY <2>1, <2>2, <2>3
<1>8. Unissued' /\ NewestSignInIsStored' /\ Issued'
  <2>1. NewestSignInIsStored'
    BY <1>2, <1>3 DEF NewestSignInIsStored
  <2>0. Issued'
    <3>1. ASSUME NEW q \in Row
          PROVE  /\ stored'[q][1] <= signIns'[q]
                 /\ \A token \in draft[q] : token[1] <= signIns'[q]
                 /\ stored'[q][1] = signIns'[q] \/ <<q, stored'[q][1]>> \in reverted
      <4>1. CASE q = r
        <5>1. \A token \in draft[r] : token[1] \in Int /\ token[1] <= signIns[r]
          <6>1. draft[r] \subseteq Token
            BY DEF Types
          <6>2. \A token \in draft[r] : token[1] <= signIns[r]
            BY DEF Issued
          <6> QED BY <6>1, <6>2 DEF Token, SignIn
        <5>2. stored'[r][1] = n
          BY <1>3
        <5>3. \A token \in draft[r] : token[1] <= signIns'[r]
          BY <1>2, <5>1
        <5> QED BY <1>2, <4>1, <5>2, <5>3
      <4>2. CASE q # r
        BY <1>2, <1>3, <4>2 DEF Issued
      <4> QED BY <4>1, <4>2
    <3> QED BY <3>1 DEF Issued
  <2>2. ASSUME NEW q \in Row, NEW m \in SignIn, m > signIns'[q]
        PROVE  latest'[<<q, m>>] = 0
    <3>1. m > signIns[q] /\ <<q, m>> # k
      BY <1>2, <2>2 DEF SignIn
    <3> QED BY <1>a, <3>1 DEF Unissued
  <2> QED BY <2>0, <2>1, <2>2 DEF Unissued
<1>9. Held' /\ Kept'
  <2>1. ASSUME NEW c \in Call, RowOf[c] = r
        PROVE  current[c][1] <= signIns'[r] /\ current[c][1] # signIns'[r]
    BY <1>2, <1>4, <1>5, <2>1
  <2>2. \A c \in Call : RowOf[c] # r => /\ signIns'[RowOf[c]] = signIns[RowOf[c]]
                                        /\ stored'[RowOf[c]] = stored[RowOf[c]]
    BY <1>2, <1>3, <1>4
  <2>3. Held'
    BY <1>4, <1>a, <2>1, <2>2 DEF Held, Replaced
  <2>4. Kept'
    BY <1>4, <2>1, <2>2 DEF Kept
  <2> QED BY <2>3, <2>4
<1>10. Saved'
  <2>1. ASSUME NEW c \in Call, pc[c] = "persisted"
        PROVE  /\ written[c] => stored'[RowOf[c]] = current[c]
               /\ ~written[c] => \/ result[c] = current[c]
                                 \/ Key(c) \in lost \union reverted
                                 \/ current[c][1] < signIns'[RowOf[c]]
    <3>1. CASE RowOf[c] = r
      BY <1>2, <1>5, <2>1, <3>1 DEF NewSignIn, Writable
    <3>2. CASE RowOf[c] # r
      BY <1>2, <1>3, <1>4, <2>1, <3>2 DEF Saved
    <3> QED BY <3>1, <3>2
  <2> QED BY <1>4, <2>1 DEF Saved
<1>11. Fresh'
  <2>1. ASSUME NEW q \in Row
        PROVE  \/ stored'[q][2] = latest'[<<q, stored'[q][1]>>]
               \/ <<q, stored'[q][1]>> \in lost \union reverted
               \/ <<q, stored'[q]>> \in editSpent'
               \/ \E c \in Call : Replaces(c, q)'
    <3>1. CASE q = r
      BY <1>2, <1>3, <1>a, <3>1
    <3>2. CASE q # r
      <4>1. \A c \in Call : Replaces(c, q) => Replaces(c, q)'
        BY <1>3, <3>2 DEF Replaces
      <4>2. stored[q] \in Token /\ <<q, stored[q][1]>> \in Row \X SignIn
        BY DEF Types, Token
      <4> QED BY <1>3, <1>a, <3>2, <4>1, <4>2 DEF Fresh, IsLatest
    <3> QED BY <3>1, <3>2
  <2> QED BY <2>1 DEF Fresh, IsLatest
<1>12. SpentIsOld'
  <2>1. ASSUME NEW q \in Row, NEW token \in Token, <<q, token>> \in editSpent'
        PROVE  token[2] < latest'[<<q, token[1]>>]
    <3>1. CASE <<q, token>> = <<r, <<n, 0>>>>
      <4>1. <<r, <<n, 0>>>> \notin editSpent
        BY <1>2, <1>3 DEF SpentIsOld, Unissued
      <4> QED BY <1>a, <2>1, <3>1, <4>1
    <3>2. CASE <<q, token>> \in editSpent
      <4>1. token[2] < latest[<<q, token[1]>>] /\ token[2] \in Nat
            /\ <<q, token[1]>> \in Row \X SignIn
        BY <3>2 DEF SpentIsOld, Token
      <4>2. <<q, token[1]>> # k
        BY <1>2, <4>1 DEF Unissued
      <4> QED BY <1>a, <4>1, <4>2
    <3> QED BY <1>a, <2>1, <3>1, <3>2
  <2> QED BY <2>1 DEF SpentIsOld
<1>13. Drafts'
  <2>1. \A q \in Row : AtLeast(stored'[q], stored[q])
    <3>1. stored[r][1] \in Int /\ stored[r][1] <= signIns[r]
      <4>1. stored[r] \in Token /\ stored[r][1] <= signIns[r]
        BY DEF Issued, Types
      <4> QED BY <4>1 DEF Token, SignIn
    <3>2. AtLeast(stored'[r], stored[r])
      BY <1>2, <1>3, <3>1 DEF AtLeast
    <3>3. \A q \in Row : stored[q][2] \in Nat
      BY DEF Types, Token
    <3> QED BY <1>3, <3>2, <3>3 DEF AtLeast
  <2>2. ASSUME NEW q \in Row, NEW m \in SignIn, m <= signIns[q]
        PROVE  latest'[<<q, m>>] = latest[<<q, m>>]
    <3>1. <<q, m>> # k
      BY <1>2, <2>2 DEF SignIn
    <3> QED BY <1>a, <3>1
  <2> QED BY <1>3, <1>a, <2>1, <2>2, RowAdvances
<1> QED BY <1>6, <1>7, <1>8, <1>9, <1>10, <1>11, <1>12, <1>13

(* What an edit reads or forgets is no business of the rotation.           *)
LEMMA DraftStep ==
    ASSUME RotationInv, NEW r \in Row, ReadForEdit(r) \/ DropEdit(r)
    PROVE  RotationInv'
<1> USE DEF RotationInv, flightVars, tokenVars, rowVars, providerVars
<1>1. UNCHANGED <<pc, leader, active, waiters, lock, current, result, written, stored, signIns,
                  latest, lost, reverted, editSpent>>
  BY DEF ReadForEdit, DropEdit, EndEdit
<1>2. /\ draft' \in [Row -> SUBSET Token] /\ validated' \in [Row -> SUBSET Token]
      /\ \A q \in Row : \/ draft'[q] = draft[q] /\ validated'[q] = validated[q]
                        \/ draft'[q] \subseteq {stored[q]} /\ validated'[q] = {}
  <2>1. draft \in [Row -> SUBSET Token] /\ validated \in [Row -> SUBSET Token]
        /\ stored[r] \in Token
    BY DEF Types
  <2>2. CASE ReadForEdit(r)
    <3>1. validated[r] = {}
      BY <2>2 DEF ReadForEdit, Drafts
    <3> QED BY <2>1, <2>2, <3>1 DEF ReadForEdit
  <2>3. CASE DropEdit(r)
    BY <2>1, <2>3 DEF DropEdit, EndEdit
  <2> QED BY <2>2, <2>3
<1>3. Types' /\ Issued'
  BY <1>1, <1>2 DEF Types, Issued
<1>4. Queued' /\ Joined' /\ LockHeld' /\ Unissued' /\ Held'
  BY <1>1 DEF Queued, Joined, LockHeld, Unissued, Held, Replaced, Key
<1>5. SentTokenIsLatest' /\ NewestSignInIsStored' /\ AnswerKnown'
  BY <1>1 DEF SentTokenIsLatest, NewestSignInIsStored, AnswerKnown, IsLatest, Key
<1>6. Saved' /\ Fresh' /\ Kept'
  BY <1>1 DEF Saved, Fresh, Kept, Replaces, IsLatest, Key
<1>7. SpentIsOld' /\ Drafts'
  <2>1. SpentIsOld'
    BY <1>1 DEF SpentIsOld
  <2>2. \A q \in Row : AtLeast(stored[q], stored[q])
    BY DEF Types, Token, AtLeast
  <2>3. \A q \in Row, old, token \in Token : Turned(q, old, token) => Turned(q, old, token)'
    BY <1>1 DEF Turned, IsLatest
  <2>4. ASSUME NEW q \in Row
        PROVE  /\ \A old \in draft'[q] : /\ AtLeast(stored[q], old)
                                         /\ \A other \in draft'[q] : other = old
               /\ \A token \in validated'[q] :
                     \E old \in draft'[q] : token = old \/ Turned(q, old, token)'
    <3>1. CASE draft'[q] = draft[q] /\ validated'[q] = validated[q]
      <4>1. draft[q] \subseteq Token /\ validated[q] \subseteq Token
        BY DEF Types
      <4> QED BY <2>3, <3>1, <4>1 DEF Drafts
    <3>2. CASE draft'[q] \subseteq {stored[q]} /\ validated'[q] = {}
      BY <2>2, <3>2
    <3> QED BY <1>2, <3>1, <3>2
  <2> QED BY <1>1, <2>1, <2>4 DEF Drafts, AtLeast
<1> QED BY <1>3, <1>4, <1>5, <1>6, <1>7

(* What the exchange of an edit spends is remembered, whoever holds it.    *)
LEMMA ExchangeForEditStep ==
    ASSUME RotationInv, NEW r \in Row, NEW rotate \in BOOLEAN, NEW retained \in BOOLEAN,
           ExchangeForEdit(r, rotate, retained)
    PROVE  RotationInv'
<1> USE RotationAssumption DEF RotationInv, flightVars, tokenVars, rowVars
<1>1. UNCHANGED <<pc, leader, active, waiters, lock, current, result, written, stored, signIns,
                  lost, draft, reverted>>
  BY DEF ExchangeForEdit
<1>2. PICK token \in draft[r] :
        /\ Spend(r, token, rotate)
        /\ validated' = [validated EXCEPT ![r] =
                {IF retained THEN token ELSE <<token[1], latest'[<<r, token[1]>>]>>}]
  BY DEF ExchangeForEdit
<1> DEFINE k == <<r, token[1]>>
<1>3. /\ token \in Token /\ token = <<token[1], token[2]>> /\ token[2] \in Nat
      /\ k \in Row \X SignIn /\ token[1] <= signIns[r] /\ token[2] = latest[k]
      /\ <<r, token>> \in Row \X Token
  <2>1. token \in Token /\ token[1] <= signIns[r] /\ token[2] = latest[k]
    BY <1>2 DEF Types, Issued, Spend, IsLatest
  <2> QED BY <2>1 DEF Token
<1>4. /\ latest' \in [Row \X SignIn -> Nat]
      /\ \A j \in Row \X SignIn : j # k => latest'[j] = latest[j]
      /\ editSpent \subseteq editSpent'
      /\ \A q \in Row, t \in Token :
            <<q, t>> \in editSpent' => <<q, t>> \in editSpent \/ (q = r /\ t = token /\ rotate)
      /\ rotate => latest'[k] = token[2] + 1 /\ <<r, token>> \in editSpent'
      /\ ~rotate => latest'[k] = token[2]
      /\ editSpent' \subseteq Row \X Token
  BY <1>2, <1>3 DEF Spend, Types
<1>5. \A c \in Call : /\ RowOf[c] \in Row /\ current[c] \in Token /\ result[c] \in Token
                      /\ Key(c)' = Key(c) /\ Key(c) \in Row \X SignIn
                      /\ Key(c) = <<RowOf[c], current[c][1]>>
  BY <1>1, KeyType DEF Types, Key
<1>6. \A t \in Token : t[1] = token[1] /\ t[2] = latest[k] => t = token
  BY <1>3 DEF Token
<1>a. validated' \in [Row -> SUBSET Token]
  <2>1. <<token[1], latest'[k]>> \in Token
    BY <1>3, <1>4 DEF Token
  <2> QED BY <1>2, <1>3, <2>1 DEF Types
<1>7. Types' /\ Issued'
  BY <1>1, <1>4, <1>a DEF Types, Issued
<1>8. Queued' /\ Joined' /\ LockHeld' /\ NewestSignInIsStored' /\ Held' /\ Saved' /\ Kept'
  BY <1>1, <1>4, <1>5 DEF Queued, Joined, LockHeld, NewestSignInIsStored, Held, Replaced,
     Saved, Kept
<1>9. Unissued'
  <2>1. ASSUME NEW q \in Row, NEW n \in SignIn, n > signIns[q]
        PROVE  <<q, n>> # k
    BY <1>3, <2>1 DEF Types, Token, SignIn
  <2> QED BY <1>1, <1>4, <2>1 DEF Unissued
<1>10. SentTokenIsLatest'
  <2>1. ASSUME NEW c \in Call, pc[c] = "read"
        PROVE  \/ current[c][2] = latest'[Key(c)]
               \/ Key(c) \in lost \union reverted
               \/ <<RowOf[c], current[c]>> \in editSpent'
    <3>1. \/ current[c][2] = latest[Key(c)]
          \/ Key(c) \in lost \union reverted
          \/ <<RowOf[c], current[c]>> \in editSpent
      BY <1>5, <2>1 DEF SentTokenIsLatest, IsLatest
    <3>2. CASE Key(c) # k
      BY <1>4, <1>5, <3>1, <3>2
    <3>3. CASE Key(c) = k /\ current[c][2] = latest[k]
      <4>1. RowOf[c] = r /\ current[c] = token
        BY <1>5, <1>6, <3>3
      <4> QED BY <1>3, <1>4, <3>3, <4>1
    <3> QED BY <1>4, <3>1, <3>2, <3>3
  <2> QED BY <1>1, <1>5, <2>1 DEF SentTokenIsLatest, IsLatest
<1>11. AnswerKnown'
  <2>1. ASSUME NEW c \in Call, pc[c] \in Sent
        PROVE  /\ result[c][1] = current[c][1]
               /\ result[c][2] >= current[c][2] /\ result[c][2] <= latest'[Key(c)]
               /\ \/ result[c][2] = latest'[Key(c)]
                  \/ Key(c) \in lost
                  \/ <<RowOf[c], result[c]>> \in editSpent'
               /\ <<RowOf[c], current[c]>> \in editSpent' => result[c] = current[c]
    <3>1. /\ result[c][1] = current[c][1]
          /\ result[c][2] >= current[c][2] /\ result[c][2] <= latest[Key(c)]
          /\ \/ result[c][2] = latest[Key(c)]
             \/ Key(c) \in lost
             \/ <<RowOf[c], result[c]>> \in editSpent
          /\ <<RowOf[c], current[c]>> \in editSpent => result[c] = current[c]
      BY <2>1 DEF AnswerKnown
    <3>2. CASE Key(c) # k
      <4>1. <<RowOf[c], current[c]>> \in editSpent' => <<RowOf[c], current[c]>> \in editSpent
        BY <1>4, <1>5, <3>2
      <4> QED BY <1>4, <1>5, <3>1, <3>2, <4>1
    <3>3. CASE Key(c) = k
      <4>1. /\ RowOf[c] = r /\ current[c][1] = token[1]
            /\ result[c][2] \in Nat /\ current[c][2] \in Nat
        BY <1>5, <3>3 DEF Token
      <4>2. result[c][2] = latest[k] => result[c] = token
        BY <1>5, <1>6, <3>1, <4>1
      <4>3. current[c] = token => result[c] = current[c]
        <5> HAVE current[c] = token
        <5>1. result[c][2] = latest[k]
          BY <1>3, <3>1, <3>3, <4>1
        <5> QED BY <4>2, <5>1
      <4>4. /\ <<RowOf[c], current[c]>> \in editSpent'
                => <<RowOf[c], current[c]>> \in editSpent \/ current[c] = token
            /\ result[c][2] <= latest'[k]
        BY <1>3, <1>4, <1>5, <3>1, <3>3, <4>1
      <4> QED BY <1>3, <1>4, <3>1, <3>3, <4>1, <4>2, <4>3, <4>4
    <3> QED BY <3>2, <3>3
  <2> QED BY <1>1, <1>5, <2>1 DEF AnswerKnown
<1>12. Fresh'
  <2>1. ASSUME NEW q \in Row
        PROVE  \/ stored[q][2] = latest'[<<q, stored[q][1]>>]
               \/ <<q, stored[q][1]>> \in lost \union reverted
               \/ <<q, stored[q]>> \in editSpent'
               \/ \E c \in Call : Replaces(c, q)'
    <3>1. stored[q] \in Token /\ <<q, stored[q][1]>> \in Row \X SignIn
      BY DEF Types, Token
    <3>2. \A c \in Call : Replaces(c, q) => Replaces(c, q)'
      BY <1>1 DEF Replaces
    <3>3. CASE <<q, stored[q][1]>> # k
      BY <1>4, <3>1, <3>2, <3>3 DEF Fresh, IsLatest
    <3>4. CASE <<q, stored[q][1]>> = k /\ stored[q][2] = latest[k]
      <4>1. q = r /\ stored[q] = token
        BY <1>6, <3>1, <3>4
      <4> QED BY <1>3, <1>4, <3>4, <4>1
    <3>5. CASE <<q, stored[q][1]>> = k /\ stored[q][2] # latest[k]
      BY <1>4, <3>2, <3>5 DEF Fresh, IsLatest
    <3> QED BY <3>3, <3>4, <3>5
  <2> QED BY <1>1, <2>1 DEF Fresh, IsLatest
<1>13. SpentIsOld'
  <2>1. ASSUME NEW q \in Row, NEW t \in Token, <<q, t>> \in editSpent'
        PROVE  t[2] < latest'[<<q, t[1]>>]
    <3>1. <<q, t[1]>> \in Row \X SignIn /\ t[2] \in Nat
      BY DEF Token
    <3>2. CASE <<q, t>> \in editSpent
      <4>1. t[2] < latest[<<q, t[1]>>]
        BY <3>2 DEF SpentIsOld
      <4>2. CASE <<q, t[1]>> # k
        BY <1>4, <3>1, <4>1, <4>2
      <4>3. CASE <<q, t[1]>> = k
        BY <1>3, <1>4, <3>1, <4>1, <4>3
      <4> QED BY <4>2, <4>3
    <3>3. CASE q = r /\ t = token /\ rotate
      BY <1>3, <1>4, <3>3
    <3> QED BY <1>4, <2>1, <3>2, <3>3
  <2> QED BY <2>1 DEF SpentIsOld
<1>14. Drafts'
  <2>1. ASSUME NEW t \in validated'[r] PROVE t = token \/ Turned(r, token, t)'
    <3>1. t = (IF retained THEN token ELSE <<token[1], latest'[k]>>)
      BY <1>2 DEF Types
    <3>2. CASE ~retained /\ rotate
      <4>1. t[1] = token[1] /\ t[2] = latest'[k] /\ t[2] > token[2]
        BY <1>3, <1>4, <3>1, <3>2
      <4> QED BY <1>4, <3>2, <4>1 DEF Turned, IsLatest
    <3>3. CASE retained \/ ~rotate
      BY <1>3, <1>4, <3>1, <3>3
    <3> QED BY <3>2, <3>3
  <2>2. ASSUME NEW q \in Row \ {r}, NEW t \in validated'[q]
        PROVE  \E old \in draft[q] : t = old \/ Turned(q, old, t)'
    <3>1. t \in validated[q] /\ t \in Token /\ <<q, t[1]>> \in Row \X SignIn
      BY <1>2 DEF Types, Token
    <3>2. PICK old \in draft[q] : t = old \/ Turned(q, old, t)
      BY <3>1 DEF Drafts
    <3>3. latest'[<<q, t[1]>>] = latest[<<q, t[1]>>]
      BY <1>4, <3>1
    <3> QED BY <1>1, <1>4, <3>2, <3>3 DEF Turned, IsLatest
  <2>3. \A q \in Row : \A t \in validated'[q] : \E old \in draft[q] : t = old \/ Turned(q, old, t)'
    BY <1>2, <2>1, <2>2
  <2>4. \A q \in Row : \A old \in draft[q] :
            AtLeast(stored[q], old)' /\ \A other \in draft[q] : other = old
    BY <1>1 DEF Drafts, AtLeast
  <2> QED BY <1>1, <2>3, <2>4 DEF Drafts, AtLeast
<1> QED BY <1>7, <1>8, <1>9, <1>10, <1>11, <1>12, <1>13, <1>14

(* An edit that finds another token than it has read is remembered, with   *)
(* the sign-in it brings and the one it overwrites; one that finds the     *)
(* token it has read leaves it, or puts the next in its place.             *)
LEMMA SaveTokenStep ==
    ASSUME RotationInv, NEW r \in Row, NEW old \in draft[r], NEW token \in Token,
           token = old \/ Turned(r, old, token), SaveToken(r, token)
    PROVE  RotationInv'
<1> USE RotationAssumption DEF RotationInv, flightVars, tokenVars, providerVars
<1>1. UNCHANGED <<pc, leader, active, waiters, lock, current, result, written, signIns,
                  latest, lost, editSpent>>
  BY DEF SaveToken, EndEdit
<1>2. /\ stored' \in [Row -> Token] /\ stored'[r] = token
      /\ \A q \in Row \ {r} : stored'[q] = stored[q]
      /\ stored \in [Row -> Token] /\ old \in Token
      /\ draft' = [draft EXCEPT ![r] = {}] /\ validated' = [validated EXCEPT ![r] = {}]
  BY DEF SaveToken, EndEdit, Types
<1>3. /\ <<r, stored[r][1]>> \in Row \X SignIn /\ <<r, token[1]>> \in Row \X SignIn
      /\ token[1] = old[1] /\ token[1] <= signIns[r]
      /\ token[2] \in Nat /\ stored[r][2] \in Nat
  BY <1>2 DEF Token, Issued, Turned
<1>4. \/ reverted' = reverted /\ stored[r] = old
      \/ reverted' = reverted \union {<<r, token[1]>>, <<r, stored[r][1]>>}
  BY DEF SaveToken, Drafts
<1>5. reverted \subseteq reverted' /\ reverted' \subseteq Row \X SignIn
  BY <1>3, <1>4 DEF Types
<1>6. /\ \A q \in Row : <<q, stored'[q][1]>> \in reverted' \/ stored'[q][1] = stored[q][1]
      /\ <<r, stored[r][1]>> \in reverted' \/ stored'[r][1] = stored[r][1]
      /\ \/ <<r, stored[r][1]>> \in reverted' /\ <<r, token[1]>> \in reverted'
         \/ token = stored[r]
         \/ /\ <<r, stored[r]>> \in editSpent /\ token[2] > stored[r][2]
            /\ IsLatest(r, token) \/ <<r, token[1]>> \in lost \union reverted
  BY <1>2, <1>3, <1>4 DEF Turned
<1>7. Types'
  <2>1. draft' \in [Row -> SUBSET Token] /\ validated' \in [Row -> SUBSET Token]
    BY <1>2 DEF Types
  <2> QED BY <1>1, <1>2, <1>5, <2>1 DEF Types
<1>8. Queued' /\ Joined' /\ LockHeld' /\ Unissued' /\ AnswerKnown'
  BY <1>1 DEF Queued, Joined, LockHeld, Unissued, AnswerKnown, Key
<1>9. Issued'
  <2>1. \A q \in Row : draft'[q] \subseteq draft[q]
    BY <1>2 DEF Types
  <2>2. ASSUME NEW q \in Row
        PROVE  /\ stored'[q][1] <= signIns[q]
               /\ stored'[q][1] = signIns[q] \/ <<q, stored'[q][1]>> \in reverted'
    BY <1>2, <1>3, <1>5, <1>6 DEF Issued
  <2> QED BY <1>1, <2>1, <2>2 DEF Issued
<1>10. NewestSignInIsStored'
  BY <1>1, <1>2, <1>5, <1>6 DEF NewestSignInIsStored
<1>11. SentTokenIsLatest'
  BY <1>1, <1>5 DEF SentTokenIsLatest, IsLatest, Key
<1>12. \A c \in Call : /\ RowOf[c] \in Row /\ Key(c)' = Key(c)
                       /\ Key(c) = <<RowOf[c], current[c][1]>>
                       /\ current[c] \in Token /\ current[c][2] \in Nat
                       /\ result[c][2] \in Nat
  BY <1>1 DEF Key, Types, Token
<1>13. Held'
  <2>1. ASSUME NEW c \in Call, pc[c] \in InLock \ {"locked"},
               current[c][1] = signIns[RowOf[c]]
        PROVE  \/ stored'[RowOf[c]] = current[c]
               \/ Key(c) \in reverted'
               \/ Replaced(RowOf[c], current[c])'
    <3>1. \/ stored[RowOf[c]] = current[c]
          \/ Key(c) \in reverted
          \/ Replaced(RowOf[c], current[c])
      BY <2>1 DEF Held
    <3>2. CASE RowOf[c] # r
      BY <1>1, <1>2, <1>5, <1>12, <3>1, <3>2 DEF Replaced
    <3>3. CASE RowOf[c] = r
      <4>1. CASE <<r, stored[r][1]>> \in reverted'
        BY <1>5, <1>12, <3>1, <3>3, <4>1 DEF Replaced
      <4>2. CASE token = stored[r]
        BY <1>1, <1>2, <1>5, <3>1, <3>3, <4>2 DEF Replaced
      <4>3. CASE /\ <<r, stored[r]>> \in editSpent /\ token[2] > stored[r][2]
                 /\ token[1] = stored[r][1]
        <5>1. CASE stored[r] = current[c]
          BY <1>1, <1>2, <3>3, <4>3, <5>1 DEF Replaced
        <5>2. CASE Replaced(r, current[c])
          BY <1>1, <1>2, <1>3, <1>12, <3>3, <4>3, <5>2 DEF Replaced
        <5> QED BY <1>5, <3>1, <3>3, <5>1, <5>2
      <4> QED BY <1>2, <1>6, <4>1, <4>2, <4>3
    <3> QED BY <3>2, <3>3
  <2> QED BY <1>1, <1>12, <2>1 DEF Held
<1>14. Saved'
  <2>1. \A c \in Call : pc[c] = "persisted" /\ written[c] => RowOf[c] # r
    BY DEF SaveToken, Writable
  <2>2. \A c \in Call : pc[c] = "persisted" /\ written[c] => stored'[RowOf[c]] = current[c]
    BY <1>2, <1>12, <2>1 DEF Saved
  <2> QED BY <1>1, <1>5, <1>12, <2>2 DEF Saved
<1>15. Fresh'
  <2>1. ASSUME NEW q \in Row
        PROVE  \/ stored'[q][2] = latest[<<q, stored'[q][1]>>]
               \/ <<q, stored'[q][1]>> \in lost \union reverted'
               \/ <<q, stored'[q]>> \in editSpent
               \/ \E c \in Call : Replaces(c, q)'
    <3>1. CASE stored'[q] = stored[q]
      <4>1. \A c \in Call : Replaces(c, q) => Replaces(c, q)'
        BY <1>1, <3>1 DEF Replaces
      <4> QED BY <1>5, <3>1, <4>1 DEF Fresh, IsLatest
    <3>2. CASE q = r /\ token # stored[r]
      BY <1>2, <1>5, <1>6, <3>2 DEF IsLatest
    <3> QED BY <1>2, <3>1, <3>2
  <2> QED BY <1>1, <2>1 DEF Fresh, IsLatest
<1>16. Kept'
  <2>1. ASSUME NEW c \in Call, pc[c] \in {"committed", "resolved"}, leader[c] = c,
               current[c][1] = signIns[RowOf[c]]
        PROVE  \/ stored'[RowOf[c]][2] >= result[c][2]
               \/ ~written[c] /\ Key(c) \in lost
               \/ Key(c) \in reverted'
    <3>1. \/ stored[RowOf[c]][2] >= result[c][2]
          \/ ~written[c] /\ Key(c) \in lost
          \/ Key(c) \in reverted
      BY <2>1 DEF Kept
    <3>2. CASE stored'[RowOf[c]] = stored[RowOf[c]]
      BY <1>5, <3>1, <3>2
    <3>3. CASE RowOf[c] = r /\ <<r, stored[r][1]>> \in reverted'
      <4>1. stored[r][1] = signIns[r] \/ <<r, signIns[r]>> \in reverted
        BY DEF NewestSignInIsStored
      <4> QED BY <1>5, <1>12, <2>1, <3>3, <4>1
    <3>4. CASE RowOf[c] = r /\ token[2] > stored[r][2]
      BY <1>2, <1>3, <1>5, <1>12, <3>1, <3>4
    <3> QED BY <1>2, <1>6, <1>12, <3>2, <3>3, <3>4
  <2> QED BY <1>1, <1>12, <2>1 DEF Kept
<1>17. SpentIsOld' /\ Drafts'
  <2>1. SpentIsOld'
    BY <1>1 DEF SpentIsOld
  <2>2. ASSUME NEW q \in Row
        PROVE  /\ \A t \in draft'[q] : /\ AtLeast(stored'[q], t)
                                       /\ \A other \in draft'[q] : other = t
               /\ \A t \in validated'[q] : \E o \in draft'[q] : t = o \/ Turned(q, o, t)'
    <3>1. CASE q = r
      <4>1. draft'[q] = {} /\ validated'[q] = {}
        BY <1>2, <3>1 DEF Types
      <4> QED BY <4>1
    <3>2. CASE q # r
      <4>1. draft'[q] = draft[q] /\ validated'[q] = validated[q] /\ stored'[q] = stored[q]
        BY <1>2, <3>2 DEF Types
      <4>2. \A o \in draft[q], t \in validated[q] : Turned(q, o, t) => Turned(q, o, t)'
        BY <1>1, <1>5, <4>1 DEF Turned, IsLatest
      <4> QED BY <4>1, <4>2 DEF Drafts
    <3> QED BY <3>1, <3>2
  <2> QED BY <2>1, <2>2 DEF Drafts, AtLeast
<1> QED BY <1>7, <1>8, <1>9, <1>10, <1>11, <1>13, <1>14, <1>15, <1>16, <1>17

LEMMA EditStep ==
    ASSUME RotationInv, NEW r \in Row, Edit(r)
    PROVE  RotationInv'
<1>1. CASE ReadForEdit(r) \/ DropEdit(r)
  BY <1>1, DraftStep
<1>2. CASE \E rotate, retained \in BOOLEAN : ExchangeForEdit(r, rotate, retained)
  BY <1>2, ExchangeForEditStep
<1>3. CASE SaveEdit(r)
  <2>1. PICK token \in validated[r] : SaveToken(r, token)
    BY <1>3 DEF SaveEdit
  <2>2. token \in Token /\ \E old \in draft[r] : token = old \/ Turned(r, old, token)
    BY DEF RotationInv, Types, Drafts
  <2> QED BY <2>1, <2>2, SaveTokenStep
<1>4. CASE WriteBack(r)
  <2>1. PICK token \in draft[r] : SaveToken(r, token)
    BY <1>4 DEF WriteBack
  <2>2. token \in Token
    BY DEF RotationInv, Types
  <2> QED BY <2>1, <2>2, SaveTokenStep
<1> QED BY <1>1, <1>2, <1>3, <1>4 DEF Edit

(* A server takes its transactions with it: what they had not committed    *)
(* stays as it was, or is lost.                                            *)
LEMMA CrashServerStep ==
    ASSUME RotationInv, NEW s \in Server, CrashServer(s)
    PROVE  RotationInv'
<1> DEFINE dying == {c \in Call : ServerOf[c] = s /\ pc[c] \in Leading \union {"joined"}}
<1> USE RotationAssumption DEF RotationInv, tokenVars, rowVars, editVars
<1>1. /\ \A c \in Call : pc'[c] = IF c \in dying THEN "gone" ELSE pc[c]
      /\ active' = [active EXCEPT ![s] = 0]
      /\ waiters' = [waiters EXCEPT ![s] = <<>>]
      /\ lock' = [r \in Row |-> IF lock[r] \in dying THEN Nobody ELSE lock[r]]
      /\ UNCHANGED <<leader, current, result, written, stored, signIns, latest, editVars>>
  BY DEF CrashServer
<1>2. /\ lost \subseteq lost' /\ lost' \subseteq Row \X SignIn
      /\ \A c \in dying : pc[c] \in Sent /\ result[c] # current[c] => Key(c) \in lost'
  <2>1. \A c \in Call : Key(c) \in Row \X SignIn
    BY KeyType
  <2> QED BY <2>1 DEF CrashServer, Types, Sent
<1>3. \A c \in Call : /\ Key(c)' = Key(c) /\ RowOf[c] \in Row
                      /\ pc'[c] \in InLock => pc'[c] = pc[c] /\ c \notin dying
                      /\ pc[c] \in InLock /\ c \notin dying => pc'[c] = pc[c]
                      /\ pc'[c] # "gone" => pc'[c] = pc[c]
  BY <1>1 DEF Key, InLock
<1>4. Types'
  <2>1. pc' \in [Call -> {"idle", "joined"} \union Leading \union Settled]
    BY DEF CrashServer, Types, Settled
  <2>2. lock' \in [Row -> Call \union {Nobody}]
    BY <1>1 DEF Types
  <2>3. active' \in [Server -> Int] /\ waiters' \in [Server -> Seq(Call)]
    <3>1. <<>> \in Seq(Call) /\ 0 \in Int
      OBVIOUS
    <3> QED BY <1>1, <3>1 DEF Types
  <2> QED BY <1>1, <1>2, <2>1, <2>2, <2>3 DEF Types
<1>5. Queued'
  <2> SUFFICES ASSUME NEW t \in Server, NEW i \in 1..Len(waiters'[t])
      PROVE  /\ pc'[waiters'[t][i]] = "waiting"
             /\ ServerOf[waiters'[t][i]] = t
             /\ \A j \in 1..Len(waiters'[t]) :
                    waiters'[t][i] = waiters'[t][j] => i = j
    BY DEF Queued
  <2>1. CASE t = s
    <3>1. waiters'[s] = <<>>
      BY <1>1 DEF Types
    <3> QED BY <2>1, <3>1
  <2>2. CASE t # s
    <3>1. waiters'[t] = waiters[t] /\ waiters[t] \in Seq(Call)
      BY <1>1, <2>2 DEF Types
    <3>2. /\ waiters[t][i] \in Call /\ pc[waiters[t][i]] = "waiting"
          /\ ServerOf[waiters[t][i]] = t
      BY <3>1 DEF Queued
    <3>3. waiters[t][i] \notin dying
      BY <2>2, <3>2
    <3> QED BY <1>1, <3>1, <3>2, <3>3 DEF Queued
  <2> QED BY <2>1, <2>2
<1>6. Joined'
  BY <1>1, <1>3 DEF Joined
<1>7. LockHeld'
  <2>1. ASSUME NEW c \in Call, pc'[c] \in InLock PROVE lock'[RowOf[c]] = c
    <3>1. c \notin dying /\ pc[c] \in InLock
      BY <1>3, <2>1
    <3>2. lock[RowOf[c]] = c
      BY <3>1 DEF LockHeld
    <3> QED BY <1>1, <1>3, <3>1, <3>2
  <2> QED BY <2>1 DEF LockHeld
<1>8. Unissued' /\ NewestSignInIsStored' /\ Issued' /\ Held' /\ Saved'
  BY <1>1, <1>2, <1>3 DEF Unissued, NewestSignInIsStored, Issued, Held, Replaced, Saved, InLock
<1>9. SentTokenIsLatest' /\ AnswerKnown' /\ Kept'
  BY <1>1, <1>2, <1>3 DEF SentTokenIsLatest, AnswerKnown, Kept, IsLatest, Sent, InLock
<1>10. Fresh'
  <2>1. ASSUME NEW r \in Row
        PROVE  \/ stored[r][2] = latest[<<r, stored[r][1]>>]
               \/ <<r, stored[r][1]>> \in lost' \union reverted
               \/ <<r, stored[r]>> \in editSpent
               \/ \E c \in Call : Replaces(c, r)'
    <3>1. CASE \E c \in Call : Replaces(c, r)
      <4>1. PICK c \in Call : Replaces(c, r)
        BY <3>1
      <4>2. CASE c \notin dying
        BY <1>1, <1>3, <4>1, <4>2 DEF Replaces, Sent, InLock
      <4>3. CASE c \in dying /\ result[c] # current[c]
        BY <1>2, <4>1, <4>3 DEF Replaces, Key
      <4>4. CASE result[c] = current[c]
        BY <1>2, <4>1, <4>4 DEF Replaces, AnswerKnown, Key
      <4> QED BY <4>2, <4>3, <4>4
    <3>2. CASE \A c \in Call : ~Replaces(c, r)
      BY <1>2, <3>2 DEF Fresh, IsLatest
    <3> QED BY <3>1, <3>2
  <2> QED BY <1>1, <2>1 DEF Fresh, IsLatest
<1>11. SpentIsOld' /\ Drafts'
  BY <1>1, <1>2, EditsKept
<1> QED BY <1>4, <1>5, <1>6, <1>7, <1>8, <1>9, <1>10, <1>11

-----------------------------------------------------------------------------
LEMMA NextStep == RotationInv /\ [Next]_vars => RotationInv'
<1> SUFFICES ASSUME RotationInv, [Next]_vars PROVE RotationInv'
  OBVIOUS
<1>1. ASSUME NEW c \in Call, Join(c) \/ Lead(c) \/ AdmissionTimeout(c) \/ Finish(c)
      PROVE  RotationInv'
  BY <1>1, JoinStep, LeadStep, TimeoutStep, FinishStep
<1>2. ASSUME NEW c \in Call, Transaction(c) PROVE RotationInv'
  BY <1>2, BeginStep, TakeLockStep, ReadStep, FailUnsentStep, ExchangeStep,
     ExchangeFailsStep, PersistStep, PersistFailsStep, CommitStep, CommitFailsStep
     DEF Transaction
<1>3. ASSUME NEW r \in Row, SignInAgain(r) PROVE RotationInv'
  BY <1>3, SignInStep DEF SignInAgain, providerVars, editVars
<1>6. ASSUME NEW r \in Row, NEW rotate \in BOOLEAN, SignInByEdit(r, rotate)
      PROVE  RotationInv'
  BY <1>6, SignInStep DEF SignInByEdit
<1>7. ASSUME NEW r \in Row, Edit(r) PROVE RotationInv'
  BY <1>7, EditStep
<1>4. ASSUME NEW s \in Server, CrashServer(s) PROVE RotationInv'
  BY <1>4, CrashServerStep
<1>5. CASE UNCHANGED vars
  <2> USE <1>5 DEF vars, flightVars, tokenVars, rowVars, providerVars, editVars, RotationInv
  <2>1. Types' /\ Queued' /\ Joined' /\ LockHeld' /\ Unissued' /\ Held'
    BY DEF Types, Queued, Joined, LockHeld, Unissued, Held, Replaced, Key
  <2>2. SentTokenIsLatest' /\ NewestSignInIsStored' /\ Issued' /\ AnswerKnown'
    BY DEF SentTokenIsLatest, NewestSignInIsStored, Issued, AnswerKnown, IsLatest, Key
  <2>3. Saved' /\ Fresh' /\ Kept'
    BY DEF Saved, Fresh, Kept, Replaces, IsLatest, Key
  <2>4. SpentIsOld' /\ Drafts'
    BY EditsKept
  <2> QED BY <2>1, <2>2, <2>3, <2>4
<1> QED BY <1>1, <1>2, <1>3, <1>4, <1>5, <1>6, <1>7 DEF Next

(* The rows, the lock and the provider stay in step through every          *)
(* interleaving of flights, sign-ins, failures and crashes.                *)
THEOREM RotationInvariance == Spec => []RotationInv
  BY InitInv, NextStep, PTL DEF Spec

(* A refresh sends no token that another refresh has spent, by any server  *)
(* (RefreshTokenRotation.runLeader): what it sends may be spent only if a  *)
(* failure took the successor, an edit overlapped a write of the row, or   *)
(* the edit of a project's connection has sent that very token.            *)
THEOREM SpentTokensAreNotResent == Spec => []SentTokenIsLatest
<1>1. RotationInv => SentTokenIsLatest
  BY DEF RotationInv
<1> QED BY <1>1, RotationInvariance, PTL

(* No rotation takes a newer sign-in off the row (rotateRefreshToken).     *)
THEOREM SignInsAreKept == Spec => []NewestSignInIsStored
<1>1. RotationInv => NewestSignInIsStored
  BY DEF RotationInv
<1> QED BY <1>1, RotationInvariance, PTL

(* A refresh is answered after its rotation is committed.                  *)
THEOREM AnswersAreStored == Spec => []AnsweredIsStored
<1>1. RotationInv => AnsweredIsStored
  BY DEF RotationInv, Kept, AnsweredIsStored
<1> QED BY <1>1, RotationInvariance, PTL
-----------------------------------------------------------------------------
(* Slots. The calls that hold one are finitely many, since they come one   *)
(* at a time, and each is counted.                                         *)

Holders(s) == {c \in Call : ServerOf[c] = s /\ pc[c] \in Admitted}
Waiting(s) == {c \in Call : ServerOf[c] = s /\ pc[c] = "waiting"}

SlotsOf(s) ==
    /\ IsFiniteSet(Holders(s))
    /\ active[s] = Cardinality(Holders(s))
    /\ active[s] <= MaxConcurrent
    /\ ToSet(waiters[s]) = Waiting(s)
    /\ waiters[s] # <<>> => active[s] = MaxConcurrent

SlotInv == RotationInv /\ \A s \in Server : SlotsOf(s)

LEMMA SlotInit == Init => SlotInv
<1> SUFFICES ASSUME Init, NEW s \in Server PROVE SlotsOf(s)
  BY InitInv DEF SlotInv
<1>1. Holders(s) = {} /\ Waiting(s) = {} /\ waiters[s] = <<>> /\ active[s] = 0
  BY DEF Init, Holders, Waiting, Admitted
<1>2. ToSet(waiters[s]) = {}
  BY <1>1 DEF ToSet
<1>3. 0 <= MaxConcurrent
  BY RotationAssumption
<1> QED BY <1>1, <1>2, <1>3, FS_EmptySet DEF SlotsOf

(* Steps that move no call of s into or out of a slot or the queue.        *)
LEMMA SlotsKept ==
    ASSUME NEW s \in Server, SlotsOf(s), active'[s] = active[s], waiters'[s] = waiters[s],
           \A d \in Call : ServerOf[d] = s =>
              /\ pc'[d] \in Admitted <=> pc[d] \in Admitted
              /\ pc'[d] = "waiting" <=> pc[d] = "waiting"
    PROVE  SlotsOf(s)'
<1>1. Holders(s)' = Holders(s) /\ Waiting(s)' = Waiting(s)
  BY DEF Holders, Waiting
<1>2. ToSet(waiters[s])' = ToSet(waiters[s])
  BY DEF ToSet
<1> QED BY <1>1, <1>2 DEF SlotsOf

LEMMA RemovedSet ==
    ASSUME NEW S, NEW w \in Seq(S), NEW k \in 1..Len(w),
           \A i, j \in 1..Len(w) : w[i] = w[j] => i = j
    PROVE  ToSet(RemoveAt(w, k)) = ToSet(w) \ {w[k]}
<1> DEFINE front == SubSeq(w, 1, k - 1)
           rest == SubSeq(w, k + 1, Len(w))
           v == RemoveAt(w, k)
<1>1. /\ front \in Seq(S) /\ Len(front) = k - 1
      /\ \A i \in 1..(k - 1) : front[i] = w[i]
  OBVIOUS
<1>2. /\ rest \in Seq(S) /\ Len(rest) = Len(w) - k
      /\ \A i \in 1..(Len(w) - k) : rest[i] = w[k + i]
  OBVIOUS
<1>v. v = front \o rest
  BY DEF RemoveAt
<1>3. v \in Seq(S) /\ \A i \in 1..Len(v) : \E m \in 1..Len(w) : v[i] = w[m] /\ m # k
  BY Removing
<1>4. ASSUME NEW m \in 1..Len(w), m # k PROVE \E i \in 1..Len(v) : v[i] = w[m]
  <2> HIDE DEF v, front, rest
  <2>0. Len(v) = Len(w) - 1
    <3>1. Len(v) = Len(front) + Len(rest)
      BY <1>1, <1>2, <1>v, ConcatProperties
    <3>2. Len(w) \in Nat /\ k \in Nat
      OBVIOUS
    <3> QED BY <1>1, <1>2, <3>1, <3>2
  <2>1. CASE m < k
    <3>1. v[m] = front[m] /\ m \in 1..Len(v)
      BY <1>1, <1>2, <1>v, <2>0, <2>1
    <3> QED BY <1>1, <2>1, <3>1
  <2>2. CASE m > k
    <3>1. v[m - 1] = rest[m - k] /\ m - 1 \in 1..Len(v)
      BY <1>1, <1>2, <1>v, <2>0, <2>2
    <3>2. m - k \in 1..(Len(w) - k) /\ k + (m - k) = m
      BY <2>2
    <3>3. rest[m - k] = w[m]
      BY <1>2, <3>2
    <3> QED BY <3>1, <3>3
  <2> QED BY <1>4, <2>1, <2>2
<1>5. DOMAIN v = 1..Len(v) /\ DOMAIN w = 1..Len(w)
  BY <1>3
<1>6. v = RemoveAt(w, k)
  OBVIOUS
<1> HIDE DEF v
<1>7. ASSUME NEW x \in ToSet(v) PROVE x \in ToSet(w) \ {w[k]}
  <2>1. PICK i \in 1..Len(v) : x = v[i]
    BY <1>5 DEF ToSet
  <2>2. PICK m \in 1..Len(w) : x = w[m] /\ m # k
    BY <1>3, <2>1
  <2> QED BY <1>5, <2>2 DEF ToSet
<1>8. ASSUME NEW x \in ToSet(w) \ {w[k]} PROVE x \in ToSet(v)
  <2>1. PICK m \in 1..Len(w) : x = w[m] /\ m # k
    BY <1>5 DEF ToSet
  <2> QED BY <1>4, <1>5, <2>1 DEF ToSet
<1> QED BY <1>6, <1>7, <1>8

(* The flight of a call that waits or leads: itself and calls that joined. *)
LEMMA FlightMembers ==
    ASSUME NEW c \in Call, NEW d \in Flight(c)
    PROVE  d = c \/ pc[d] = "joined"
  BY DEF Flight

LEMMA SlotLead ==
    ASSUME SlotInv, NEW c \in Call, Lead(c), NEW s \in Server
    PROVE  SlotsOf(s)'
<1> DEFINE t == ServerOf[c]
<1> USE RotationAssumption
<1>a. Types /\ t \in Server /\ SlotsOf(s) /\ pc[c] = "idle"
  BY DEF SlotInv, RotationInv, Lead
<1>1. CASE s # t
  <2>1. active'[s] = active[s] /\ waiters'[s] = waiters[s]
    BY <1>1, <1>a DEF Lead, Types
  <2>2. \A d \in Call : d # c => pc'[d] = pc[d]
    BY <1>a DEF Lead, Types
  <2> QED BY <1>1, <1>a, <2>1, <2>2, SlotsKept
<1>2. CASE s = t /\ active[s] < MaxConcurrent /\ active' = [active EXCEPT ![s] = @ + 1]
           /\ pc' = [pc EXCEPT ![c] = "admitted"] /\ waiters' = waiters
  <2>1. Holders(s)' = Holders(s) \union {c} /\ c \notin Holders(s) /\ Waiting(s)' = Waiting(s)
    BY <1>2, <1>a DEF Holders, Waiting, Types, Admitted
  <2>2. waiters[s] = <<>>
    BY <1>2, <1>a DEF SlotsOf
  <2>3. ToSet(waiters[s])' = ToSet(waiters[s])
    BY <1>2 DEF ToSet
  <2>4. active'[s] = active[s] + 1 /\ active[s] \in Int
    BY <1>2, <1>a DEF Types
  <2>5. IsFiniteSet(Holders(s)') /\ Cardinality(Holders(s)') = Cardinality(Holders(s)) + 1
    BY <2>1, <1>a, FS_AddElement DEF SlotsOf
  <2>6. active'[s] <= MaxConcurrent
    BY <1>2, <2>4
  <2> QED BY <1>2, <1>a, <2>1, <2>2, <2>3, <2>4, <2>5, <2>6 DEF SlotsOf
<1>3. CASE s = t /\ active[s] = MaxConcurrent /\ active' = active
           /\ pc' = [pc EXCEPT ![c] = "waiting"] /\ waiters' = [waiters EXCEPT ![s] = Append(@, c)]
  <2>1. Holders(s)' = Holders(s) /\ Waiting(s)' = Waiting(s) \union {c}
    BY <1>3, <1>a DEF Holders, Waiting, Types, Admitted
  <2>2. waiters'[s] = Append(waiters[s], c) /\ waiters[s] \in Seq(Call)
    BY <1>3, <1>a DEF Types
  <2>3. ToSet(waiters'[s]) = ToSet(waiters[s]) \union {c}
    <3>1. /\ DOMAIN waiters[s] = 1..Len(waiters[s])
          /\ DOMAIN waiters'[s] = 1..(Len(waiters[s]) + 1)
          /\ \A i \in 1..Len(waiters[s]) : waiters'[s][i] = waiters[s][i]
          /\ waiters'[s][Len(waiters[s]) + 1] = c
          /\ Len(waiters[s]) \in Nat
      BY <2>2
    <3>2. 1..(Len(waiters[s]) + 1) = 1..Len(waiters[s]) \union {Len(waiters[s]) + 1}
      BY <3>1
    <3> QED BY <3>1, <3>2 DEF ToSet
  <2> QED BY <1>3, <1>a, <2>1, <2>3 DEF SlotsOf
<1> QED BY <1>1, <1>2, <1>3 DEF Lead

LEMMA SlotTimeout ==
    ASSUME SlotInv, NEW c \in Call, AdmissionTimeout(c), NEW s \in Server
    PROVE  SlotsOf(s)'
<1> DEFINE t == ServerOf[c]
<1> USE RotationAssumption
<1>a. Types /\ Queued /\ t \in Server /\ SlotsOf(s) /\ pc[c] = "waiting" /\ active' = active
  BY DEF SlotInv, RotationInv, AdmissionTimeout
<1>b. \A d \in Call : pc'[d] = IF d \in Flight(c) THEN "rejected" ELSE pc[d]
  BY DEF AdmissionTimeout
<1>c. \A d \in Call : d # c => /\ pc'[d] \in Admitted <=> pc[d] \in Admitted
                               /\ pc'[d] = "waiting" <=> pc[d] = "waiting"
  BY <1>b, FlightMembers DEF Admitted
<1>d. pc'[c] = "rejected"
  BY <1>b DEF Flight
<1>e. PICK k \in 1..Len(waiters[t]) :
        waiters[t][k] = c /\ waiters' = [waiters EXCEPT ![t] = RemoveAt(@, k)]
  <2>1. DOMAIN waiters[t] = 1..Len(waiters[t])
    BY <1>a DEF Types
  <2>2. LeaveQueue(c)
    BY DEF AdmissionTimeout
  <2> QED BY <2>1, <2>2, Zenon DEF LeaveQueue
<1>1. CASE s # t
  <2>1. waiters'[s] = waiters[s]
    BY <1>1, <1>a, <1>e DEF Types
  <2> QED BY <1>1, <1>a, <1>c, <2>1, SlotsKept
<1>2. CASE s = t
  <2>1. Holders(s)' = Holders(s) /\ Waiting(s)' = Waiting(s) \ {c}
    BY <1>2, <1>a, <1>c, <1>d DEF Holders, Waiting, Admitted
  <2>2. waiters[s] \in Seq(Call) /\ waiters'[s] = RemoveAt(waiters[s], k)
    BY <1>2, <1>a, <1>e DEF Types
  <2>3. \A i, j \in 1..Len(waiters[s]) : waiters[s][i] = waiters[s][j] => i = j
    BY <1>a DEF Queued
  <2>4. ToSet(waiters'[s]) = ToSet(waiters[s]) \ {c}
    BY <1>2, <1>e, <2>2, <2>3, RemovedSet
  <2>5. waiters[s] # <<>>
    BY <1>2, <1>e
  <2> QED BY <1>a, <2>1, <2>4, <2>5 DEF SlotsOf
<1> QED BY <1>1, <1>2

(* The slot of a flight that ends goes to the head of the queue, or back.  *)
LEMMA SlotFinish ==
    ASSUME SlotInv, NEW c \in Call, Finish(c), NEW s \in Server
    PROVE  SlotsOf(s)'
<1> DEFINE t == ServerOf[c]
           next == IF waiters[t] = <<>> THEN {} ELSE {Head(waiters[t])}
<1> USE RotationAssumption
<1>a. Types /\ Queued /\ t \in Server /\ SlotsOf(s) /\ pc[c] \in {"committed", "failed"}
  BY DEF SlotInv, RotationInv, Finish
<1>b. /\ pc' = [d \in Call |-> IF d \in Flight(c) THEN Answer(c)
                               ELSE IF d \in next THEN "admitted" ELSE pc[d]]
      /\ active' = [active EXCEPT ![t] = IF next = {} THEN @ - 1 ELSE @]
      /\ waiters' = [waiters EXCEPT ![t] = IF next = {} THEN @ ELSE Tail(@)]
  BY DEF Finish
<1>c. waiters[t] \in Seq(Call)
  BY <1>a DEF Types
<1>d. \A d \in next : d \in Call /\ pc[d] = "waiting" /\ ServerOf[d] = t
  <2>1. waiters[t] # <<>> => Len(waiters[t]) \in Nat \ {0} /\ Head(waiters[t]) = waiters[t][1]
    BY <1>c
  <2> QED BY <1>a, <1>c, <2>1 DEF Queued
<1>e. Answer(c) \in {"resolved", "rejected"}
  BY DEF Answer
<1>f. \A d \in Call : /\ d # c /\ d \notin next =>
                            /\ pc'[d] \in Admitted <=> pc[d] \in Admitted
                            /\ pc'[d] = "waiting" <=> pc[d] = "waiting"
                      /\ d \in next => pc'[d] = "admitted"
                      /\ d = c => pc'[d] \in {"resolved", "rejected"}
  <2> HIDE DEF next
  <2>1. c \in Flight(c)
    BY DEF Flight
  <2>2. \A d \in next : d \notin Flight(c)
    BY <1>a, <1>d, FlightMembers
  <2> QED BY <1>b, <1>e, <2>1, <2>2, FlightMembers DEF Admitted
<1>1. CASE s # t
  <2>1. active'[s] = active[s] /\ waiters'[s] = waiters[s]
    BY <1>1, <1>a, <1>b DEF Types
  <2>2. \A d \in Call : ServerOf[d] = s => d # c /\ d \notin next
    BY <1>1, <1>d
  <2> HIDE DEF next
  <2> QED BY <1>a, <1>f, <2>1, <2>2, SlotsKept
<1>2. CASE s = t
  <2>1. c \in Holders(s) /\ IsFiniteSet(Holders(s)) /\ active[s] = Cardinality(Holders(s))
    BY <1>2, <1>a DEF Holders, SlotsOf, Admitted
  <2>2. /\ IsFiniteSet(Holders(s) \ {c})
        /\ Cardinality(Holders(s) \ {c}) = active[s] - 1
    BY <2>1, FS_RemoveElement
  <2>3. active[s] \in Int
    BY <1>a DEF Types
  <2>4. CASE waiters[s] = <<>>
    <3>1. next = {} /\ active'[s] = active[s] - 1 /\ waiters'[s] = waiters[s]
      BY <1>2, <1>a, <1>b, <2>4 DEF Types
    <3> HIDE DEF next
    <3>2. Holders(s)' = Holders(s) \ {c} /\ Waiting(s)' = Waiting(s)
      BY <1>2, <1>a, <1>f, <3>1 DEF Holders, Waiting, Admitted
    <3>3. ToSet(waiters'[s]) = ToSet(waiters[s])
      BY <3>1 DEF ToSet
    <3> QED BY <1>a, <2>2, <2>3, <2>4, <3>1, <3>2, <3>3 DEF SlotsOf
  <2>5. CASE waiters[s] # <<>>
    <3> DEFINE h == Head(waiters[s])
    <3>1. next = {h} /\ active'[s] = active[s] /\ waiters'[s] = Tail(waiters[s])
      BY <1>2, <1>a, <1>b, <2>5 DEF Types
    <3>2. h \in Call /\ pc[h] = "waiting" /\ ServerOf[h] = s
      BY <1>2, <1>d, <3>1
    <3>3. ToSet(waiters'[s]) = ToSet(waiters[s]) \ {h}
      <4>1. /\ waiters[s] \in Seq(Call) /\ Len(waiters[s]) \in Nat \ {0} /\ h = waiters[s][1]
            /\ Len(Tail(waiters[s])) = Len(waiters[s]) - 1
            /\ \A i \in 1..(Len(waiters[s]) - 1) : Tail(waiters[s])[i] = waiters[s][i + 1]
            /\ DOMAIN Tail(waiters[s]) = 1..(Len(waiters[s]) - 1)
            /\ DOMAIN waiters[s] = 1..Len(waiters[s])
        BY <1>2, <1>c, <2>5
      <4>2. \A i, j \in 1..Len(waiters[s]) : waiters[s][i] = waiters[s][j] => i = j
        BY <1>a DEF Queued
      <4>3. \A i \in 1..Len(waiters[s]) : i # 1 => i - 1 \in 1..(Len(waiters[s]) - 1)
        BY <4>1
      <4>4. ASSUME NEW x \in ToSet(waiters[s]) \ {h} PROVE x \in ToSet(Tail(waiters[s]))
        <5>1. PICK i \in 1..Len(waiters[s]) : x = waiters[s][i]
          BY <4>1 DEF ToSet
        <5>2. i # 1 /\ Tail(waiters[s])[i - 1] = waiters[s][(i - 1) + 1] /\ (i - 1) + 1 = i
          BY <4>1, <4>3, <4>4, <5>1
        <5> QED BY <4>1, <4>3, <5>1, <5>2 DEF ToSet
      <4>5. ASSUME NEW x \in ToSet(Tail(waiters[s])) PROVE x \in ToSet(waiters[s]) \ {h}
        <5>1. PICK i \in 1..(Len(waiters[s]) - 1) : x = waiters[s][i + 1]
          BY <4>1 DEF ToSet
        <5>2. i + 1 \in 1..Len(waiters[s]) /\ 1 \in 1..Len(waiters[s]) /\ i + 1 # 1
          BY <4>1
        <5> QED BY <4>1, <4>2, <5>1, <5>2 DEF ToSet
      <4> QED BY <3>1, <4>4, <4>5
    <3> HIDE DEF h, next
    <3>4. Holders(s)' = (Holders(s) \ {c}) \union {h} /\ Waiting(s)' = Waiting(s) \ {h}
      BY <1>2, <1>a, <1>f, <3>1, <3>2 DEF Holders, Waiting, Admitted
    <3>5. h \notin Holders(s) \ {c}
      BY <3>2 DEF Holders, Admitted
    <3>6. IsFiniteSet(Holders(s)') /\ Cardinality(Holders(s)') = active[s]
      BY <2>2, <2>3, <3>4, <3>5, FS_AddElement
    <3> QED BY <1>a, <2>5, <3>1, <3>3, <3>4, <3>6 DEF SlotsOf
  <2> QED BY <2>4, <2>5
<1> QED BY <1>1, <1>2

LEMMA SlotCrash ==
    ASSUME SlotInv, NEW x \in Server, CrashServer(x), NEW s \in Server
    PROVE  SlotsOf(s)'
<1> DEFINE dying == {d \in Call : ServerOf[d] = x /\ pc[d] \in Leading \union {"joined"}}
<1>a. Types /\ SlotsOf(s)
  BY DEF SlotInv, RotationInv
<1>b. /\ \A d \in Call : pc'[d] = IF d \in dying THEN "gone" ELSE pc[d]
      /\ active' = [active EXCEPT ![x] = 0]
      /\ waiters' = [waiters EXCEPT ![x] = <<>>]
  BY DEF CrashServer
<1>1. CASE s # x
  <2>1. active'[s] = active[s] /\ waiters'[s] = waiters[s]
    BY <1>1, <1>a, <1>b DEF Types
  <2> QED BY <1>1, <1>a, <1>b, <2>1, SlotsKept
<1>2. CASE s = x
  <2>1. active'[s] = 0 /\ waiters'[s] = <<>>
    BY <1>2, <1>a, <1>b DEF Types
  <2>2. Holders(s)' = {} /\ Waiting(s)' = {}
    BY <1>2, <1>b DEF Holders, Waiting, Leading, Admitted
  <2>3. ToSet(waiters'[s]) = {}
    BY <2>1 DEF ToSet
  <2>4. 0 <= MaxConcurrent
    BY RotationAssumption
  <2> QED BY <2>1, <2>2, <2>3, <2>4, FS_EmptySet DEF SlotsOf
<1> QED BY <1>1, <1>2

(* What happens to a row moves no call.                                    *)
AtRow(r) == SignInAgain(r) \/ (\E rotate \in BOOLEAN : SignInByEdit(r, rotate)) \/ Edit(r)

LEMMA CallsAside ==
    ASSUME NEW r \in Row, AtRow(r)
    PROVE  UNCHANGED <<pc, flightVars, lock, tokenVars>>
<1>1. CASE SignInAgain(r) \/ \E rotate \in BOOLEAN : SignInByEdit(r, rotate)
  BY <1>1 DEF SignInAgain, SignInByEdit
<1>2. CASE Edit(r)
  BY <1>2 DEF Edit, ReadForEdit, SaveEdit, WriteBack, DropEdit, ExchangeForEdit, SaveToken,
     EndEdit
<1> QED BY <1>1, <1>2 DEF AtRow

LEMMA SlotQuiet ==
    ASSUME SlotInv, NEW s \in Server,
           \/ \E c \in Call : Join(c) \/ Transaction(c)
           \/ \E r \in Row : AtRow(r)
           \/ UNCHANGED vars
    PROVE  SlotsOf(s)'
<1>a. Types /\ SlotsOf(s)
  BY DEF SlotInv, RotationInv
<1>1. /\ active' = active /\ waiters' = waiters
      /\ \A d \in Call : /\ pc'[d] \in Admitted <=> pc[d] \in Admitted
                         /\ pc'[d] = "waiting" <=> pc[d] = "waiting"
  <2>1. CASE \E c \in Call : Join(c)
    BY <1>a, <2>1 DEF Join, Types, Admitted
  <2>2. ASSUME NEW c \in Call, Transaction(c)
        PROVE  /\ active' = active /\ waiters' = waiters
               /\ \E a, b \in Admitted : pc[c] = a /\ pc' = [pc EXCEPT ![c] = b]
    BY <2>2 DEF Transaction, Begin, TakeLock, Read, FailUnsent, Exchange, ExchangeFails,
       Persist, PersistFails, Commit, CommitFails, Advance, flightVars, Admitted
  <2>3. CASE \E c \in Call : Transaction(c)
    BY <1>a, <2>2, <2>3 DEF Types, Admitted
  <2>4. CASE \/ \E r \in Row : AtRow(r)
             \/ UNCHANGED vars
    BY <2>4, CallsAside DEF flightVars, vars
  <2> QED BY <2>1, <2>3, <2>4
<1> QED BY <1>a, <1>1, SlotsKept

LEMMA SlotInvariance == Spec => []SlotInv
<1>1. SlotInv /\ [Next]_vars => SlotInv'
  <2> SUFFICES ASSUME SlotInv, [Next]_vars, NEW s \in Server PROVE SlotsOf(s)'
    BY NextStep DEF SlotInv
  <2> QED BY SlotLead, SlotTimeout, SlotFinish, SlotCrash, SlotQuiet DEF Next, AtRow
<1> QED BY SlotInit, <1>1, PTL DEF Spec

(* SlotsAddUp: no interleaving of hand-overs, waiters that give up,        *)
(* flights that fail anywhere and crashes loses a slot or makes one up,    *)
(* and nobody waits while one is free (RefreshAdmission).                  *)
THEOREM SlotsAreCounted == Spec => []SlotsAddUp
<1>1. SlotInv => SlotsAddUp
  BY DEF SlotInv, SlotsOf, SlotsAddUp, Holders, Waiting
<1> QED BY <1>1, SlotInvariance, PTL

(* TypeOK: no server exchanges more tokens at once than it may.            *)
THEOREM TypeCorrect == Spec => []TypeOK
<1>1. SlotInv => TypeOK
  <2> SUFFICES ASSUME SlotInv PROVE TypeOK
    OBVIOUS
  <2>1. Types
    BY DEF SlotInv, RotationInv
  <2>2. ASSUME NEW s \in Server PROVE active[s] \in 0..MaxConcurrent
    <3>1. SlotsOf(s)
      BY DEF SlotInv
    <3>2. Cardinality(Holders(s)) \in Nat
      BY <3>1, FS_CardinalityType DEF SlotsOf
    <3> QED BY <3>1, <3>2, RotationAssumption DEF SlotsOf
  <2>3. active \in [Server -> 0..MaxConcurrent]
    BY <2>1, <2>2 DEF Types
  <2> QED BY <2>1, <2>3 DEF TypeOK, Types
<1> QED BY <1>1, SlotInvariance, PTL

-----------------------------------------------------------------------------
(* No call is stranded. What the steps do to the flights and the locks: a  *)
(* transaction goes on, ...                                                *)
Proceeds(c) ==
    /\ leader' = leader
    /\ pc[c] \in Admitted /\ pc'[c] \in Admitted /\ Step[pc'[c]] > Step[pc[c]]
    /\ \A d \in Call \ {c} : pc'[d] = pc[d]
    /\ \/ /\ lock[RowOf[c]] = Nobody /\ pc'[c] \in InLock
          /\ lock' = [lock EXCEPT ![RowOf[c]] = c]
       \/ pc'[c] \notin InLock /\ lock' = Unlocked(c)
       \/ (pc[c] \in InLock => pc'[c] \in InLock) /\ lock' = lock

(* ... or a flight ends for all its calls, and may hand its slot on.       *)
Settles(c) ==
    /\ leader' = leader /\ lock' = lock
    /\ pc[c] \in {"waiting", "committed", "failed"}
    /\ \E next, answer :
          /\ answer \in {"resolved", "rejected"}
          /\ \A d \in next : d \in Call /\ pc[d] = "waiting" /\ d \notin Flight(c)
          /\ \A d \in Call : pc'[d] = IF d \in Flight(c) THEN answer
                                      ELSE IF d \in next THEN "admitted" ELSE pc[d]

LEMMA TransactionProceeds ==
    ASSUME RotationInv, NEW c \in Call, Transaction(c)
    PROVE  Proceeds(c)
<1> USE DEF Advance, Proceeds, Admitted, InLock, Step, flightVars
<1>0. pc \in [Call -> {"idle", "joined"} \union Leading \union Settled]
  BY DEF RotationInv, Types
<1>1. CASE Begin(c)
  BY <1>0, <1>1 DEF Begin
<1>2. CASE TakeLock(c)
  BY <1>0, <1>2 DEF TakeLock
<1>3. CASE Read(c)
  BY <1>0, <1>3 DEF Read
<1>4. CASE FailUnsent(c)
  BY <1>0, <1>4 DEF FailUnsent
<1>5. ASSUME NEW rotate \in BOOLEAN, Exchange(c, rotate) PROVE Proceeds(c)
  BY <1>0, <1>5 DEF Exchange
<1>6. ASSUME NEW rotated \in BOOLEAN, ExchangeFails(c, rotated) PROVE Proceeds(c)
  BY <1>0, <1>6 DEF ExchangeFails
<1>7. CASE Persist(c)
  BY <1>0, <1>7 DEF Persist
<1>8. ASSUME NEW swallowed \in BOOLEAN, PersistFails(c, swallowed) PROVE Proceeds(c)
  BY <1>0, <1>8 DEF PersistFails
<1>9. CASE Commit(c)
  BY <1>0, <1>9 DEF Commit
<1>10. ASSUME NEW applied \in BOOLEAN, CommitFails(c, applied) PROVE Proceeds(c)
  BY <1>0, <1>10 DEF CommitFails
<1> QED
  BY <1>1, <1>2, <1>3, <1>4, <1>5, <1>6, <1>7, <1>8, <1>9, <1>10 DEF Transaction

LEMMA FlightSettles ==
    ASSUME RotationInv, NEW c \in Call, AdmissionTimeout(c) \/ Finish(c)
    PROVE  Settles(c)
<1>1. CASE AdmissionTimeout(c)
  <2> DEFINE none == {}
  <2>1. \A d \in Call : pc'[d] = IF d \in Flight(c) THEN "rejected"
                                 ELSE IF d \in none THEN "admitted" ELSE pc[d]
    BY <1>1 DEF AdmissionTimeout
  <2>2. pc[c] = "waiting" /\ leader' = leader /\ lock' = lock
    BY <1>1 DEF AdmissionTimeout
  <2>3. \A d \in none : d \in Call /\ pc[d] = "waiting" /\ d \notin Flight(c)
    OBVIOUS
  <2> HIDE DEF none
  <2> QED  BY <2>1, <2>2, <2>3 DEF Settles
<1>2. CASE Finish(c)
  <2> DEFINE queue == waiters[ServerOf[c]]
             next == IF queue = <<>> THEN {} ELSE {Head(queue)}
  <2>1. /\ pc[c] \in {"committed", "failed"} /\ leader' = leader /\ lock' = lock
        /\ \A d \in Call : pc'[d] = IF d \in Flight(c) THEN Answer(c)
                                    ELSE IF d \in next THEN "admitted" ELSE pc[d]
    BY <1>2 DEF Finish
  <2>2. ASSUME NEW d \in next PROVE d \in Call /\ pc[d] = "waiting" /\ d \notin Flight(c)
    <3>1. ServerOf[c] \in Server /\ queue \in Seq(Call) /\ queue # <<>> /\ d = queue[1]
      BY <2>2, RotationAssumption DEF RotationInv, Types
    <3>2. 1 \in 1..Len(queue)
      BY <3>1
    <3>3. d \in Call /\ pc[d] = "waiting"
      BY <3>1, <3>2 DEF RotationInv, Queued
    <3> QED  BY <2>1, <3>3, FlightMembers
  <2>3. Answer(c) \in {"resolved", "rejected"}
    BY DEF Answer
  <2> HIDE DEF next
  <2> QED  BY <2>1, <2>2, <2>3 DEF Settles
<1> QED  BY <1>1, <1>2

LEMMA UnderwayInit == Init => UnderwayInv
  BY DEF Init, UnderwayInv, Underway, LockInUse, Leading, Admitted

LEMMA JoinUnderway ==
    ASSUME RotationInv, UnderwayInv, NEW c \in Call, Join(c) \/ Lead(c)
    PROVE  UnderwayInv'
<1>0. /\ pc \in [Call -> {"idle", "joined"} \union Leading \union Settled]
      /\ leader \in [Call -> Call] /\ lock' = lock
      /\ lock \in [Row -> Call \union {Nobody}]
  BY DEF RotationInv, Types, Join, Lead
<1>1. pc[c] = "idle" /\ leader[c] = c /\ \A d \in Call \ {c} : pc'[d] = pc[d]
  BY <1>0 DEF Join, Lead, UnderwayInv, Underway
<1>2. Underway'
  <2>1. CASE Lead(c)
    <3>1. leader' = leader /\ pc'[c] \in {"admitted", "waiting"}
      BY <1>0, <2>1 DEF Lead
    <3>2. \A d \in Call : pc[d] = "joined" => leader[d] # c
      BY <1>1 DEF UnderwayInv, Underway, Leading, Admitted
    <3> QED  BY <1>0, <1>1, <3>1, <3>2 DEF UnderwayInv, Underway, Leading, Admitted
  <2>2. CASE Join(c)
    <3>1. PICK l \in Call : InFlight(l, c) /\ leader' = [leader EXCEPT ![c] = l]
      BY <2>2 DEF Join
    <3>2. pc'[c] = "joined" /\ leader'[c] = l /\ \A d \in Call \ {c} : leader'[d] = leader[d]
      BY <1>0, <2>2, <3>1 DEF Join
    <3>3. \A d \in Call : pc[d] = "joined" => leader[d] # c
      BY <1>1 DEF UnderwayInv, Underway, Leading, Admitted
    <3>4. l # c /\ pc[l] \in Leading /\ ServerOf[l] = ServerOf[c]
      BY <1>1, <3>1 DEF InFlight, Leading, Admitted
    <3> QED
      BY <1>0, <1>1, <3>2, <3>3, <3>4 DEF UnderwayInv, Underway, Leading, Admitted
  <2> QED  BY <2>1, <2>2
<1>3. LockInUse'
  BY <1>0, <1>1 DEF UnderwayInv, LockInUse
<1> QED  BY <1>2, <1>3 DEF UnderwayInv

LEMMA ProceedUnderway ==
    ASSUME RotationInv, UnderwayInv, NEW c \in Call, Proceeds(c)
    PROVE  UnderwayInv'
<1>0. /\ lock \in [Row -> Call \union {Nobody}] /\ RowOf[c] \in Row
      /\ leader' = leader /\ leader \in [Call -> Call]
      /\ pc[c] \in Admitted /\ pc'[c] \in Admitted
      /\ \A d \in Call \ {c} : pc'[d] = pc[d]
      /\ Nobody \notin Call
  BY RotationAssumption DEF RotationInv, Types, Proceeds
<1>1. Underway'
  BY <1>0 DEF UnderwayInv, Underway, Leading, Admitted
<1>2. LockInUse'
  <2>1. CASE lock[RowOf[c]] = Nobody /\ pc'[c] \in InLock /\ lock' = [lock EXCEPT ![RowOf[c]] = c]
    BY <1>0, <2>1 DEF UnderwayInv, LockInUse, InLock, Admitted
  <2>2. CASE pc'[c] \notin InLock /\ lock' = Unlocked(c)
    <3>1. \A r \in Row : lock[r] = c => r = RowOf[c]
      BY <1>0 DEF UnderwayInv, LockInUse
    <3>2. \A r \in Row : lock'[r] # Nobody => lock'[r] = lock[r] /\ lock[r] # c
      BY <1>0, <2>2, <3>1 DEF Unlocked
    <3> QED  BY <1>0, <3>2 DEF UnderwayInv, LockInUse
  <2>3. CASE (pc[c] \in InLock => pc'[c] \in InLock) /\ lock' = lock
    BY <1>0, <2>3 DEF UnderwayInv, LockInUse, InLock
  <2> QED  BY <2>1, <2>2, <2>3 DEF Proceeds
<1> QED  BY <1>1, <1>2 DEF UnderwayInv

LEMMA SettleUnderway ==
    ASSUME RotationInv, UnderwayInv, NEW c \in Call, Settles(c)
    PROVE  UnderwayInv'
<1>1. PICK next, answer :
        /\ answer \in {"resolved", "rejected"}
        /\ \A d \in next : d \in Call /\ pc[d] = "waiting" /\ d \notin Flight(c)
        /\ \A d \in Call : pc'[d] = IF d \in Flight(c) THEN answer
                                    ELSE IF d \in next THEN "admitted" ELSE pc[d]
  BY DEF Settles
<1>2. /\ leader' = leader /\ lock' = lock /\ leader \in [Call -> Call]
      /\ lock \in [Row -> Call \union {Nobody}]
      /\ pc[c] \in {"waiting", "committed", "failed"}
  BY DEF Settles, RotationInv, Types
<1>3. ASSUME NEW d \in Call, pc'[d] \in Leading \union {"idle", "joined"}
      PROVE  /\ d \notin Flight(c)
             /\ pc'[d] = pc[d] \/ (pc[d] = "waiting" /\ pc'[d] = "admitted")
  BY <1>1, <1>3 DEF Leading, Admitted
<1>4. ASSUME NEW d \in Call, pc'[d] \in Leading \union {"idle"} PROVE leader'[d] = d
  <2>1. pc[d] \in Leading \union {"idle"}
    BY <1>3, <1>4 DEF Leading, Admitted
  <2> QED  BY <1>2, <2>1 DEF UnderwayInv, Underway
<1>5. ASSUME NEW d \in Call, pc'[d] = "joined"
      PROVE  pc'[leader'[d]] \in Leading /\ ServerOf[leader'[d]] = ServerOf[d]
  <2>1. pc[d] = "joined" /\ d \notin Flight(c)
    BY <1>3, <1>5
  <2>2. /\ leader[d] # c /\ leader[d] \in Call /\ pc[leader[d]] \in Leading
        /\ ServerOf[leader[d]] = ServerOf[d]
    BY <1>2, <2>1 DEF Flight, UnderwayInv, Underway
  <2>3. leader[d] \notin Flight(c)
    BY <2>2, FlightMembers DEF Leading, Admitted
  <2> QED  BY <1>1, <1>2, <2>2, <2>3 DEF Leading, Admitted
<1>6. LockInUse'
  <2> SUFFICES ASSUME NEW r \in Row, lock[r] # Nobody
               PROVE  RowOf[lock[r]] = r /\ pc'[lock[r]] \in InLock
    BY <1>2 DEF LockInUse, InLock
  <2>1. lock[r] \in Call /\ RowOf[lock[r]] = r /\ pc[lock[r]] \in InLock
    BY <1>2 DEF UnderwayInv, LockInUse, InLock
  <2>2. lock[r] \notin Flight(c) /\ lock[r] \notin next
    BY <1>1, <1>2, <2>1, FlightMembers DEF InLock
  <2> QED  BY <1>1, <2>1, <2>2
<1> QED  BY <1>4, <1>5, <1>6 DEF UnderwayInv, Underway

LEMMA CrashUnderway ==
    ASSUME RotationInv, UnderwayInv, NEW s \in Server, CrashServer(s)
    PROVE  UnderwayInv'
<1> DEFINE dying == {c \in Call : ServerOf[c] = s /\ pc[c] \in Leading \union {"joined"}}
<1>1. /\ \A d \in Call : pc'[d] = IF d \in dying THEN "gone" ELSE pc[d]
      /\ \A r \in Row : lock'[r] = IF lock[r] \in dying THEN Nobody ELSE lock[r]
      /\ leader' = leader
  BY DEF CrashServer
<1>2. leader \in [Call -> Call] /\ lock \in [Row -> Call \union {Nobody}]
  BY DEF RotationInv, Types
<1>3. Underway'
  <2> SUFFICES ASSUME NEW d \in Call
               PROVE  /\ pc'[d] \in Leading \union {"idle"} => leader[d] = d
                      /\ pc'[d] = "joined" => /\ pc'[leader[d]] \in Leading
                                              /\ ServerOf[leader[d]] = ServerOf[d]
    BY <1>1 DEF Underway
  <2>1. pc'[d] # "gone" => pc'[d] = pc[d] /\ d \notin dying
    BY <1>1
  <2>2. pc'[d] \in Leading \union {"idle"} => leader[d] = d
    BY <2>1 DEF UnderwayInv, Underway, Leading, Admitted
  <2>3. ASSUME pc'[d] = "joined"
        PROVE  pc'[leader[d]] \in Leading /\ ServerOf[leader[d]] = ServerOf[d]
    <3>1. pc[d] = "joined" /\ ServerOf[d] # s
      BY <2>1, <2>3
    <3>2. /\ leader[d] \in Call /\ pc[leader[d]] \in Leading
          /\ ServerOf[leader[d]] = ServerOf[d]
      BY <1>2, <3>1 DEF UnderwayInv, Underway
    <3>3. leader[d] \notin dying
      BY <3>1, <3>2
    <3> QED  BY <1>1, <3>2, <3>3
  <2> QED  BY <2>2, <2>3
<1>4. LockInUse'
  <2> SUFFICES ASSUME NEW r \in Row, lock'[r] # Nobody
               PROVE  RowOf[lock'[r]] = r /\ pc'[lock'[r]] \in InLock
    BY DEF LockInUse, InLock
  <2>1. lock[r] \notin dying /\ lock'[r] = lock[r] /\ lock[r] \in Call
    BY <1>1, <1>2
  <2>2. RowOf[lock[r]] = r /\ pc[lock[r]] \in InLock
    BY <2>1 DEF UnderwayInv, LockInUse, InLock
  <2> QED  BY <1>1, <2>1, <2>2
<1> QED  BY <1>3, <1>4 DEF UnderwayInv

LEMMA UnderwayInvariance == Spec => [](SlotInv /\ UnderwayInv)
<1>1. ASSUME SlotInv, UnderwayInv, [Next]_vars PROVE UnderwayInv'
  <2>1. ASSUME NEW c \in Call,
               Join(c) \/ Lead(c) \/ AdmissionTimeout(c) \/ Transaction(c) \/ Finish(c)
        PROVE  UnderwayInv'
    BY <1>1, <2>1, JoinUnderway, ProceedUnderway, SettleUnderway, TransactionProceeds,
       FlightSettles DEF SlotInv
  <2>2. ASSUME NEW s \in Server, CrashServer(s) PROVE UnderwayInv'
    BY <1>1, <2>2, CrashUnderway DEF SlotInv
  <2>3. CASE \/ \E r \in Row : AtRow(r)
             \/ UNCHANGED vars
    <3>1. pc' = pc /\ leader' = leader /\ lock' = lock
      BY <2>3, CallsAside DEF flightVars, vars
    <3> QED  BY <1>1, <3>1 DEF UnderwayInv, Underway, LockInUse
  <2> QED  BY <1>1, <2>1, <2>2, <2>3 DEF Next, AtRow
<1> QED  BY <1>1, UnderwayInit, SlotInvariance, PTL DEF Spec

(* NoCallIsStranded: every call that is not answered yet waits for one     *)
(* that can go on, however many flights, servers and failures there are.   *)
THEOREM NobodyIsStranded == Spec => []NoCallIsStranded
<1>1. ASSUME SlotInv, UnderwayInv PROVE NoCallIsStranded
  <2>0. lock \in [Row -> Call \union {Nobody}] /\ leader \in [Call -> Call]
    BY <1>1 DEF SlotInv, RotationInv, Types
  <2>1. ASSUME NEW a \in Call, pc[a] \in Admitted
        PROVE  GoesOn(a) \/ GoesOn(lock[RowOf[a]])
    <3>1. CASE pc[a] = "locking" /\ lock[RowOf[a]] # Nobody
      <4>1. pc[lock[RowOf[a]]] \in InLock
        BY <1>1, <3>1, RotationAssumption DEF UnderwayInv, LockInUse, InLock
      <4> QED  BY <4>1 DEF GoesOn, InLock, Admitted
    <3>2. CASE ~(pc[a] = "locking" /\ lock[RowOf[a]] # Nobody)
      BY <2>1, <3>2 DEF GoesOn
    <3> QED  BY <3>1, <3>2
  <2> SUFFICES ASSUME NEW c \in Call, pc[c] \in Leading \union {"joined"}
               PROVE  \E a \in Call :
                        /\ ServerOf[a] = ServerOf[c] /\ pc[a] \in Admitted
                        /\ pc[leader[c]] # "waiting" => a = leader[c]
                        /\ GoesOn(a) \/ GoesOn(lock[RowOf[a]])
    BY DEF NoCallIsStranded
  <2>2. /\ leader[c] \in Call /\ pc[leader[c]] \in Leading
        /\ ServerOf[leader[c]] = ServerOf[c]
    BY <1>1, <2>0 DEF UnderwayInv, Underway
  <2>3. CASE pc[leader[c]] # "waiting"
    <3>1. pc[leader[c]] \in Admitted
      BY <2>2, <2>3 DEF Leading
    <3> QED  BY <2>1, <2>2, <3>1
  <2>4. CASE pc[leader[c]] = "waiting"
    <3> DEFINE s == ServerOf[c]
    <3>1. s \in Server /\ SlotsOf(s)
      BY <1>1, RotationAssumption DEF SlotInv
    <3>2. leader[c] \in ToSet(waiters[s])
      BY <2>2, <2>4, <3>1 DEF SlotsOf, Waiting
    <3>3. waiters[s] # <<>>
      BY <3>2 DEF ToSet
    <3>4. Cardinality(Holders(s)) = MaxConcurrent
      BY <3>1, <3>3 DEF SlotsOf
    <3>5. Holders(s) # {}
      BY <3>4, FS_EmptySet, RotationAssumption
    <3>6. PICK a \in Call : ServerOf[a] = s /\ pc[a] \in Admitted
      BY <3>5 DEF Holders
    <3> QED  BY <2>1, <2>4, <3>6
  <2> QED  BY <2>3, <2>4
<1> QED  BY <1>1, UnderwayInvariance, PTL

(* CallsGoForward: with the above, every call is answered after finitely   *)
(* many steps, as long as calls that can go on do.                         *)
THEOREM CallsAreAnsweredInSteps == Spec => CallsGoForward
<1> DEFINE Forward == \A c \in Call : pc'[c] = pc[c] \/ Step[pc'[c]] > Step[pc[c]]
<1>1. ASSUME RotationInv, [Next]_vars PROVE [Forward]_vars
  <2>1. ASSUME NEW c \in Call, Join(c) \/ Lead(c) PROVE Forward
    BY <1>1, <2>1 DEF Join, Lead, RotationInv, Types, Step
  <2>2. ASSUME NEW c \in Call, Proceeds(c) PROVE Forward
    BY <2>2 DEF Proceeds
  <2>3. ASSUME NEW c \in Call, Settles(c) PROVE Forward
    <3>1. \A d \in Flight(c) : pc[d] \in {"waiting", "committed", "failed", "joined"}
      BY <2>3, FlightMembers DEF Settles
    <3> QED  BY <2>3, <3>1 DEF Settles, Step
  <2>4. ASSUME NEW s \in Server, CrashServer(s) PROVE Forward
    BY <2>4 DEF CrashServer, Step, Leading, Admitted
  <2>5. CASE \/ \E r \in Row : AtRow(r)
             \/ UNCHANGED vars
    BY <2>5, CallsAside DEF vars
  <2> QED
    BY <1>1, <2>1, <2>2, <2>3, <2>4, <2>5, TransactionProceeds, FlightSettles
       DEF Next, AtRow
<1> QED  BY <1>1, RotationInvariance, PTL DEF Spec, CallsGoForward
=============================================================================
