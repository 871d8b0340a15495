------------------------ MODULE RefreshTokenRotation ------------------------
(***************************************************************************)
(* Refreshing the OAuth sign-in stored on a credential row. The provider's *)
(* refresh tokens work once: the exchange that answers with an access      *)
(* token may spend the refresh token and hand out the next, which has to   *)
(* reach the row. In one process calls for the same row and client share a *)
(* flight, flights are admitted a few at a time, and across processes a    *)
(* transaction holds an advisory lock from the read of the token to the    *)
(* commit of the next. A person may sign in anew at any moment, and an     *)
(* edit of a project's connection exchanges a token itself and writes one  *)
(* back, both without that lock; and a server may die at any step.         *)
(*                                                                         *)
(* A token is <<n, k>>: the k-th the provider issued under the n-th        *)
(* sign-in of its row.                                                     *)
(***************************************************************************)
EXTENDS Integers, Sequences, SequencesExt, FiniteSets

CONSTANTS
    Call,          \* calls of RefreshTokenRotation.run
    Server, Row,
    Edited,        \* rows of projects, whose connections are edited
    ServerOf, RowOf,
    ShareOf,       \* shareKey: what besides the row two calls must agree on
    Nobody,
    MaxConcurrent,
    MaxSignIns,    \* bound: new sign-ins of each row
    MaxTurns       \* bound: the turn up to which an edit's exchange takes a token

ASSUME RotationAssumption ==
    /\ ServerOf \in [Call -> Server]
    /\ RowOf \in [Call -> Row]
    /\ Edited \subseteq Row
    /\ Nobody \notin Call
    /\ MaxConcurrent \in Nat \ {0} /\ {MaxSignIns, MaxTurns} \subseteq Nat

VARIABLES
    pc,        \* of each call
    leader,    \* the call whose flight it is in: itself unless it joined one
    active,    \* RefreshAdmission.active of each server
    waiters,   \* RefreshAdmission.waiters, in order of arrival
    lock,      \* holder of each row's advisory lock
    stored,    \* the token committed on each row
    current,   \* the token each leader read under the lock
    result,    \* the token it was answered with
    written,   \* its write to the row succeeded, committed or not
    signIns,   \* sign-ins each row has had
    draft,     \* the token an edit of the row has read, if one is under way
    validated, \* the token it is going to save, after its exchange
    latest,    \* the provider's side: the last turn of each row and sign-in
    lost,      \* history: sign-ins a failure took the latest token of
    reverted,  \* history: sign-ins an edit that had read another put back or overwrote
    editSpent  \* history: tokens the exchange of an edit spent

flightVars == <<leader, active, waiters>>
tokenVars == <<current, result, written>>
rowVars == <<stored, signIns>>
providerVars == <<latest, lost>>
editVars == <<draft, validated, reverted, editSpent>>
vars == <<pc, flightVars, lock, tokenVars, rowVars, providerVars, editVars>>

Admitted == {"admitted", "locking", "locked", "read", "exchanged", "persisted",
             "committed", "failed"}
Leading == Admitted \union {"waiting"}
Settled == {"resolved", "rejected", "gone"}
SignIn == 0..MaxSignIns
Token == SignIn \X Nat

TypeOK ==
    /\ pc \in [Call -> {"idle", "joined"} \union Leading \union Settled]
    /\ leader \in [Call -> Call]
    /\ active \in [Server -> 0..MaxConcurrent]
    /\ waiters \in [Server -> Seq(Call)]
    /\ lock \in [Row -> Call \union {Nobody}]
    /\ stored \in [Row -> Token]
    /\ {current, result} \subseteq [Call -> Token]
    /\ written \in [Call -> BOOLEAN]
    /\ signIns \in [Row -> SignIn]
    /\ latest \in [Row \X SignIn -> Nat]
    /\ lost \subseteq Row \X SignIn
    /\ {draft, validated} \subseteq [Row -> SUBSET Token]
    /\ reverted \subseteq Row \X SignIn
    /\ editSpent \subseteq Row \X Token

Init ==
    /\ pc = [c \in Call |-> "idle"]
    /\ leader = [c \in Call |-> c]
    /\ active = [s \in Server |-> 0]
    /\ waiters = [s \in Server |-> <<>>]
    /\ lock = [r \in Row |-> Nobody]
    /\ stored = [r \in Row |-> <<0, 0>>]
    /\ current = [c \in Call |-> <<0, 0>>]
    /\ result = [c \in Call |-> <<0, 0>>]
    /\ written = [c \in Call |-> FALSE]
    /\ signIns = [r \in Row |-> 0]
    /\ latest = [k \in Row \X SignIn |-> 0]
    /\ lost = {}
    /\ draft = [r \in Row |-> {}] /\ validated = [r \in Row |-> {}]
    /\ reverted = {} /\ editSpent = {}

-----------------------------------------------------------------------------
(* Flights and their admission.                                            *)

InFlight(l, c) ==
    /\ pc[l] \in Leading
    /\ ServerOf[l] = ServerOf[c] /\ RowOf[l] = RowOf[c] /\ ShareOf[l] = ShareOf[c]

Join(c) ==
    /\ pc[c] = "idle"
    /\ \E l \in Call : InFlight(l, c) /\ leader' = [leader EXCEPT ![c] = l]
    /\ pc' = [pc EXCEPT ![c] = "joined"]
    /\ UNCHANGED <<active, waiters, lock, tokenVars, rowVars, providerVars, editVars>>

Lead(c) ==
    /\ pc[c] = "idle"
    /\ \A l \in Call : ~InFlight(l, c)
    /\ LET s == ServerOf[c] IN
        \/ /\ active[s] < MaxConcurrent
           /\ active' = [active EXCEPT ![s] = @ + 1]
           /\ pc' = [pc EXCEPT ![c] = "admitted"]
           /\ UNCHANGED waiters
        \/ /\ active[s] = MaxConcurrent
           /\ waiters' = [waiters EXCEPT ![s] = Append(@, c)]
           /\ pc' = [pc EXCEPT ![c] = "waiting"]
           /\ UNCHANGED active
    /\ UNCHANGED <<leader, lock, tokenVars, rowVars, providerVars, editVars>>

Flight(c) == {d \in Call : d = c \/ (leader[d] = c /\ pc[d] = "joined")}

LeaveQueue(c) ==
    \E i \in DOMAIN waiters[ServerOf[c]] :
        /\ waiters[ServerOf[c]][i] = c
        /\ waiters' = [waiters EXCEPT ![ServerOf[c]] = RemoveAt(@, i)]

(* The waiter's timer. It holds no slot, and gives none back.              *)
AdmissionTimeoutReleasing(c) ==
    /\ pc[c] = "waiting"
    /\ LeaveQueue(c)
    /\ pc' = [d \in Call |-> IF d \in Flight(c) THEN "rejected" ELSE pc[d]]
    /\ active' = [active EXCEPT ![ServerOf[c]] = @ - 1]
    /\ UNCHANGED <<leader, lock, tokenVars, rowVars, providerVars, editVars>>
AdmissionTimeout(c) ==
    /\ pc[c] = "waiting"
    /\ LeaveQueue(c)
    /\ pc' = [d \in Call |-> IF d \in Flight(c) THEN "rejected" ELSE pc[d]]
    /\ UNCHANGED <<leader, active, lock, tokenVars, rowVars, providerVars, editVars>>

Answer(c) == IF pc[c] = "committed" THEN "resolved" ELSE "rejected"

(* The slot goes to the waiter that came first, then every call of the     *)
(* flight is answered.                                                     *)
FinishWithoutHandOver(c) ==
    /\ pc[c] \in {"committed", "failed"}
    /\ pc' = [d \in Call |-> IF d \in Flight(c) THEN Answer(c) ELSE pc[d]]
    /\ active' = [active EXCEPT ![ServerOf[c]] = @ - 1]
    /\ UNCHANGED <<leader, waiters, lock, tokenVars, rowVars, providerVars, editVars>>
Finish(c) ==
    /\ pc[c] \in {"committed", "failed"}
    /\ LET s == ServerOf[c]
           next == IF waiters[s] = <<>> THEN {} ELSE {Head(waiters[s])}
       IN  /\ pc' = [d \in Call |->
                        IF d \in Flight(c) THEN Answer(c)
                        ELSE IF d \in next THEN "admitted"
                        ELSE pc[d]]
           /\ active' = [active EXCEPT ![s] = IF next = {} THEN @ - 1 ELSE @]
           /\ waiters' = [waiters EXCEPT ![s] = IF next = {} THEN @ ELSE Tail(@)]
    /\ UNCHANGED <<leader, lock, tokenVars, rowVars, providerVars, editVars>>

-----------------------------------------------------------------------------
(* The leader's transaction.                                               *)

Advance(c, from, to) ==
    /\ pc[c] = from
    /\ pc' = [pc EXCEPT ![c] = to]

Unlocked(c) == [lock EXCEPT ![RowOf[c]] = IF @ = c THEN Nobody ELSE @]
Key(c) == <<RowOf[c], current[c][1]>>
IsLatest(r, token) == token[2] = latest[<<r, token[1]>>]

Begin(c) ==
    /\ Advance(c, "admitted", "locking")
    /\ UNCHANGED <<flightVars, lock, tokenVars, rowVars, providerVars, editVars>>

TakeLockOfFlight(c) ==
    /\ Advance(c, "locking", "locked")
    /\ lock[RowOf[c]] # Nobody => ShareOf[lock[RowOf[c]]] # ShareOf[c]
    /\ lock' = [lock EXCEPT ![RowOf[c]] = c]
    /\ UNCHANGED <<flightVars, tokenVars, rowVars, providerVars, editVars>>
TakeLock(c) ==
    /\ Advance(c, "locking", "locked")
    /\ lock[RowOf[c]] = Nobody
    /\ lock' = [lock EXCEPT ![RowOf[c]] = c]
    /\ UNCHANGED <<flightVars, tokenVars, rowVars, providerVars, editVars>>

Read(c) ==
    /\ Advance(c, "locked", "read")
    /\ current' = [current EXCEPT ![c] = stored[RowOf[c]]]
    /\ UNCHANGED <<flightVars, lock, result, written, rowVars, providerVars, editVars>>

(* No connection in the pool, a lock_timeout, a row that is gone, names    *)
(* another identity or has no token, or any error of the database.         *)
FailUnsent(c) ==
    /\ \E from \in {"admitted", "locking", "locked"} : Advance(c, from, "failed")
    /\ lock' = Unlocked(c)
    /\ UNCHANGED <<flightVars, tokenVars, rowVars, providerVars, editVars>>

(* The provider answers with the next token, or with none to keep the one  *)
(* it was sent.                                                            *)
Exchange(c, rotate) ==
    /\ Advance(c, "read", "exchanged")
    /\ IsLatest(RowOf[c], current[c])
    /\ latest' = [latest EXCEPT ![Key(c)] = IF rotate THEN @ + 1 ELSE @]
    /\ result' = [result EXCEPT ![c] = <<current[c][1], latest'[Key(c)]>>]
    /\ UNCHANGED <<flightVars, lock, current, written, rowVars, lost, editVars>>

(* Refused, not sent, or its answer lost: then the provider may have moved *)
(* on.                                                                     *)
ExchangeFails(c, rotated) ==
    /\ Advance(c, "read", "failed")
    /\ rotated => IsLatest(RowOf[c], current[c])
    /\ latest' = [latest EXCEPT ![Key(c)] = IF rotated THEN @ + 1 ELSE @]
    /\ lost' = IF rotated THEN lost \union {Key(c)} ELSE lost
    /\ lock' = Unlocked(c)
    /\ UNCHANGED <<flightVars, tokenVars, rowVars, editVars>>

(* rotateRefreshToken: a compare-and-swap that keeps the row locked until  *)
(* the commit.                                                             *)
PersistOverAny(c) ==
    /\ Advance(c, "exchanged", "persisted")
    /\ written' = [written EXCEPT ![c] = result[c] # current[c]]
    /\ UNCHANGED <<flightVars, lock, current, result, rowVars, providerVars, editVars>>
Persist(c) ==
    /\ Advance(c, "exchanged", "persisted")
    /\ written' = [written EXCEPT ![c] =
            result[c] # current[c] /\ stored[RowOf[c]] = current[c]]
    /\ UNCHANGED <<flightVars, lock, current, result, rowVars, providerVars, editVars>>

(* The savepoint is rolled back. For the sign-ins of people and projects   *)
(* the error is logged and the refresh answered; for an agent's it is      *)
(* thrown.                                                                 *)
PersistFails(c, swallowed) ==
    /\ Advance(c, "exchanged", IF swallowed THEN "persisted" ELSE "failed")
    /\ result[c] # current[c]
    /\ written' = [written EXCEPT ![c] = FALSE]
    /\ lost' = lost \union {Key(c)}
    /\ lock' = IF swallowed THEN lock ELSE Unlocked(c)
    /\ UNCHANGED <<flightVars, current, result, rowVars, latest, editVars>>

Committed(c) ==
    IF written[c] THEN [stored EXCEPT ![RowOf[c]] = result[c]] ELSE stored

Commit(c) ==
    /\ Advance(c, "persisted", "committed")
    /\ stored' = Committed(c)
    /\ lock' = Unlocked(c)
    /\ UNCHANGED <<flightVars, tokenVars, signIns, providerVars, editVars>>

(* The connection breaks at the commit, before it took effect or after.    *)
CommitFailsUnseen(c, applied) ==
    /\ Advance(c, "persisted", "committed")
    /\ stored' = IF applied THEN Committed(c) ELSE stored
    /\ lost' = IF written[c] /\ ~applied THEN lost \union {Key(c)} ELSE lost
    /\ lock' = Unlocked(c)
    /\ UNCHANGED <<flightVars, tokenVars, signIns, latest, editVars>>
CommitFails(c, applied) ==
    /\ Advance(c, "persisted", "failed")
    /\ stored' = IF applied THEN Committed(c) ELSE stored
    /\ lost' = IF written[c] /\ ~applied THEN lost \union {Key(c)} ELSE lost
    /\ lock' = Unlocked(c)
    /\ UNCHANGED <<flightVars, tokenVars, signIns, latest, editVars>>

-----------------------------------------------------------------------------
(* What happens around it.                                                 *)

(* The rows are updated without the advisory lock here, but not under an   *)
(* uncommitted write.                                                      *)
Writable(r) == \A c \in Call : RowOf[c] = r /\ written[c] => pc[c] # "persisted"

NewSignIn(r) ==
    /\ signIns[r] < MaxSignIns
    /\ Writable(r)
    /\ signIns' = [signIns EXCEPT ![r] = @ + 1]
    /\ stored' = [stored EXCEPT ![r] = <<signIns[r] + 1, 0>>]

(* A person signs in again.                                                *)
SignInAgain(r) ==
    /\ NewSignIn(r)
    /\ UNCHANGED <<pc, flightVars, lock, tokenVars, providerVars, editVars>>

(* An edit's exchange at the provider, under no lock.                      *)
Spend(r, token, rotate) ==
    LET k == <<r, token[1]>>
    IN  /\ IsLatest(r, token)
        /\ rotate => latest[k] < MaxTurns
        /\ latest' = [latest EXCEPT ![k] = IF rotate THEN @ + 1 ELSE @]
        /\ editSpent' = IF rotate THEN editSpent \union {<<r, token>>} ELSE editSpent

(* An edit brings a sign-in to the row, from its form or the person who    *)
(* makes it. It exchanges the token and saves the one it has sent.         *)
SignInByEdit(r, rotate) ==
    /\ r \in Edited
    /\ NewSignIn(r)
    /\ Spend(r, <<signIns[r] + 1, 0>>, rotate)
    /\ UNCHANGED <<pc, flightVars, lock, tokenVars, lost, draft, validated, reverted>>

(* updateAndScheduleAsyncWork reads the stored secrets; ...                *)
ReadForEdit(r) ==
    /\ r \in Edited /\ draft[r] = {}
    /\ draft' = [draft EXCEPT ![r] = {stored[r]}]
    /\ UNCHANGED <<pc, flightVars, lock, tokenVars, rowVars, providerVars,
                   validated, reverted, editSpent>>

(* ... exchanges the token to see whether it works, and will save the next *)
(* one for a machine's connection, but for a person's the one it has sent; *)
ExchangeForEdit(r, rotate, retained) ==
    /\ validated[r] = {}
    /\ \E token \in draft[r] :
        /\ Spend(r, token, rotate)
        /\ validated' = [validated EXCEPT ![r] =
                {IF retained THEN token ELSE <<token[1], latest'[<<r, token[1]>>]>>}]
    /\ UNCHANGED <<pc, flightVars, lock, tokenVars, rowVars, lost, draft, reverted>>

EndEdit(r) ==
    /\ draft' = [draft EXCEPT ![r] = {}]
    /\ validated' = [validated EXCEPT ![r] = {}]
    /\ UNCHANGED <<pc, flightVars, lock, tokenVars, signIns, providerVars, editSpent>>

SaveToken(r, token) ==
    /\ Writable(r)
    /\ stored' = [stored EXCEPT ![r] = token]
    /\ reverted' = IF stored[r] \in draft[r] THEN reverted
                    ELSE reverted \union {<<r, token[1]>>, <<r, stored[r][1]>>}
    /\ EndEdit(r)

(* ... and writes the connection, whatever the row holds by then.          *)
SaveEdit(r) == \E token \in validated[r] : SaveToken(r, token)

(* The configuration of an instance writes a connection back as it was     *)
(* read, and exchanges nothing.                                            *)
WriteBack(r) == validated[r] = {} /\ \E token \in draft[r] : SaveToken(r, token)

(* The edit is refused, or fails, or its process dies.                     *)
DropEdit(r) ==
    /\ draft[r] # {}
    /\ EndEdit(r)
    /\ UNCHANGED <<stored, reverted>>

(* The process dies. Its transactions are rolled back, whatever the        *)
(* provider has answered.                                                  *)
CrashServer(s) ==
    LET dying == {c \in Call : ServerOf[c] = s /\ pc[c] \in Leading \union {"joined"}}
        unsaved == {c \in dying : /\ pc[c] \in {"exchanged", "persisted"}
                                  /\ result[c] # current[c]}
    IN  /\ dying # {}
        /\ pc' = [c \in Call |-> IF c \in dying THEN "gone" ELSE pc[c]]
        /\ active' = [active EXCEPT ![s] = 0]
        /\ waiters' = [waiters EXCEPT ![s] = <<>>]
        /\ lock' = [r \in Row |-> IF lock[r] \in dying THEN Nobody ELSE lock[r]]
        /\ lost' = lost \union {Key(c) : c \in unsaved}
        /\ UNCHANGED <<leader, tokenVars, rowVars, latest, editVars>>

-----------------------------------------------------------------------------
Transaction(c) ==
    \/ Begin(c) \/ TakeLock(c) \/ Read(c) \/ FailUnsent(c)
    \/ \E rotate \in BOOLEAN : Exchange(c, rotate)
    \/ \E rotated \in BOOLEAN : ExchangeFails(c, rotated)
    \/ Persist(c)
    \/ \E swallowed \in BOOLEAN : PersistFails(c, swallowed)
    \/ Commit(c)
    \/ \E applied \in BOOLEAN : CommitFails(c, applied)

Edit(r) ==
    \/ ReadForEdit(r) \/ SaveEdit(r) \/ WriteBack(r) \/ DropEdit(r)
    \/ \E rotate, retained \in BOOLEAN : ExchangeForEdit(r, rotate, retained)

Next ==
    \/ \E c \in Call :
        \/ Join(c) \/ Lead(c) \/ AdmissionTimeout(c)
        \/ Transaction(c) \/ Finish(c)
    \/ \E r \in Row :
        \/ SignInAgain(r) \/ \E rotate \in BOOLEAN : SignInByEdit(r, rotate)
        \/ Edit(r)
    \/ \E s \in Server : CrashServer(s)

Spec == Init /\ [][Next]_vars

(* The pool, the lock, the exchange and the database all answer or time    *)
(* out. The waiters' timers are left out: slots handed over should do.     *)
FairSpec == Spec /\ \A c \in Call : WF_vars(Transaction(c) \/ Finish(c))

-----------------------------------------------------------------------------
(* A slot is neither lost nor made up, through hand-overs, waiters whose   *)
(* timer fired and flights that failed anywhere; and no leader waits while *)
(* a slot is free (RefreshAdmission).                                      *)
SlotsAddUp ==
    \A s \in Server :
        /\ active[s] = Cardinality({c \in Call : ServerOf[c] = s /\ pc[c] \in Admitted})
        /\ ToSet(waiters[s]) = {c \in Call : ServerOf[c] = s /\ pc[c] = "waiting"}
        /\ waiters[s] # <<>> => active[s] = MaxConcurrent

(* A refresh never sends a token that has been spent, by any server,       *)
(* unless a failure between the exchange and the commit took its           *)
(* successor, an edit that overlapped a write put it back, or it is the    *)
(* very token an edit has spent itself, without the lock, and may have     *)
(* saved: the token is read under the lock of the row, not of the flight,  *)
(* and the lock is kept until the next one is committed                    *)
(* (RefreshTokenRotation.runLeader).                                       *)
SentTokenIsLatest ==
    \A c \in Call : pc[c] = "read" =>
        \/ IsLatest(RowOf[c], current[c])
        \/ Key(c) \in lost \union reverted
        \/ <<RowOf[c], current[c]>> \in editSpent

(* A rotation of an older sign-in never overwrites a newer one, which the  *)
(* advisory lock does not keep away (rotateRefreshToken); only an edit     *)
(* that had read the older one does.                                       *)
NewestSignInIsStored ==
    \A r \in Row : stored[r][1] = signIns[r] \/ <<r, signIns[r]>> \in reverted

(* A refresh is not answered before its rotation is committed: the row     *)
(* holds the answered token or a later one, unless the write failed and    *)
(* the failure was only logged (OAuthCredentialRefreshSource.persist), or  *)
(* an edit overlapped a write of the row.                                  *)
AnsweredIsStored ==
    \A c \in Call :
        pc[c] = "resolved" /\ leader[c] = c /\ current[c][1] = signIns[RowOf[c]]
            => \/ stored[RowOf[c]][2] >= result[c][2]
               \/ ~written[c] /\ Key(c) \in lost
               \/ Key(c) \in reverted

(* Who can go on: the leader of a flight that has a slot, unless another   *)
(* holds the lock of its row.                                              *)
GoesOn(c) ==
    /\ pc[c] \in Admitted
    /\ pc[c] = "locking" => lock[RowOf[c]] = Nobody

(* No call is stranded, whichever flights fail, time out or die: it waits  *)
(* for the leader of its flight, and that one, or if it has no slot one    *)
(* that has, can go on or waits only for the lock of one that can.         *)
NoCallIsStranded ==
    \A c \in Call : pc[c] \in Leading \union {"joined"} =>
        \E a \in Call :
            /\ ServerOf[a] = ServerOf[c] /\ pc[a] \in Admitted
            /\ pc[leader[c]] # "waiting" => a = leader[c]
            /\ GoesOn(a) \/ GoesOn(lock[RowOf[a]])

(* A call never takes a step back, so that it is answered after at most as *)
(* many steps as Step has numbers: no flight is started over or queued     *)
(* twice, and an answer is final.                                          *)
Step ==
    [idle |-> 0, joined |-> 1, waiting |-> 1, admitted |-> 2, locking |-> 3,
     locked |-> 4, read |-> 5, exchanged |-> 6, persisted |-> 7, committed |-> 8,
     failed |-> 8, resolved |-> 9, rejected |-> 9, gone |-> 9]
CallsGoForward ==
    [][\A c \in Call : pc'[c] = pc[c] \/ Step[pc'[c]] > Step[pc[c]]]_vars

(* Every call is answered, those that joined a flight and those that wait  *)
(* for a slot too, unless its process dies.                                *)
EventuallySettled ==
    \A c \in Call : pc[c] \in Leading \union {"joined"} ~> pc[c] \in Settled

-----------------------------------------------------------------------------
(* Why no call is stranded. Inductive together, with the counting of slots.*)

(* A flight is under way as long as a call is in it; who leads is in its   *)
(* own.                                                                    *)
Underway ==
    \A c \in Call :
        /\ pc[c] \in Leading \union {"idle"} => leader[c] = c
        /\ pc[c] = "joined" =>
              pc[leader[c]] \in Leading /\ ServerOf[leader[c]] = ServerOf[c]

(* A lock is held by a transaction of its row that is under way.           *)
LockInUse ==
    \A r \in Row : lock[r] # Nobody =>
        /\ RowOf[lock[r]] = r
        /\ pc[lock[r]] \in {"locked", "read", "exchanged", "persisted"}

UnderwayInv == Underway /\ LockInUse
=============================================================================
