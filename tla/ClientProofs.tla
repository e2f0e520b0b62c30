---------------------------- MODULE ClientProofs ----------------------------
(***************************************************************************)
(* Two client programs, one after the other.                               *)
(*                                                                         *)
(* Connect: every signature an application receives is of its own document *)
(* and was approved by a person who had it on the screen; a request that   *)
(* waits for the window that is open is never left with nothing under way. *)
(* For any number of requests and windows.  The first part is about queues *)
(* alone: what appending, taking, joining and picking (Only) do to the set *)
(* of what is in them.                                                     *)
(*                                                                         *)
(* Payments: whom a payment goes to, who is listed as paid and what a      *)
(* receipt proves: for any number of payees, payments and end-to-end ids.  *)
(***************************************************************************)
EXTENDS Connect, Payments, SequenceTheorems, FiniteSetTheorems, WellFoundedInduction, TLAPS

----------------------------------------------------------------------------
(* Queues *)

\* What is in a queue: messages under way, or listeners attached.
Members(s) == {s[k] : k \in DOMAIN s}

\* Posting a message, or attaching a listener, adds it and nothing else.
LEMMA MembersAppend ==
  ASSUME NEW s, s \in Seq(Members(s)), NEW m
  PROVE  /\ Append(s, m) \in Seq(Members(Append(s, m)))
         /\ Members(Append(s, m)) = Members(s) \cup {m}
<1> DEFINE S == Members(s) \cup {m}
           t == Append(s, m)
<1>1. s \in Seq(S)
  BY SeqMonotonic
<1>2. t \in Seq(S) /\ Len(t) = Len(s) + 1
      /\ \A k \in 1 .. Len(s) + 1 : t[k] = IF k <= Len(s) THEN s[k] ELSE m
  BY <1>1, SMT
<1>3. DOMAIN t = 1 .. Len(t) /\ t \in [1 .. Len(t) -> S] /\ Len(t) \in Nat
      /\ DOMAIN s = 1 .. Len(s) /\ Len(s) \in Nat
  BY <1>1, <1>2, LenProperties
<1> HIDE DEF t
<1>4. t \in [1 .. Len(t) -> Members(t)]
  BY <1>3 DEF Members
<1>5. t \in Seq(Members(t))
  BY <1>3, <1>4, SeqDef
<1>6. \A x \in Members(t) : x \in S
  BY <1>3 DEF Members
<1>7. m \in Members(t)
  <2>1. Len(s) + 1 \in DOMAIN t /\ t[Len(s) + 1] = m
    BY <1>2, <1>3
  <2> QED BY <2>1 DEF Members
<1>8. ASSUME NEW k \in DOMAIN s PROVE s[k] \in Members(t)
  <2>1. k \in DOMAIN t /\ t[k] = s[k]
    BY <1>2, <1>3
  <2> QED BY <2>1 DEF Members
<1>9. Members(s) \subseteq Members(t)
  BY <1>8 DEF Members
<1> QED BY <1>5, <1>6, <1>7, <1>9 DEF t

\* Taking the first message takes that one only.
LEMMA MembersTail ==
  ASSUME NEW s, s \in Seq(Members(s)), s # <<>>
  PROVE  /\ Head(s) \in Members(s)
         /\ Tail(s) \in Seq(Members(Tail(s)))
         /\ Members(s) = Members(Tail(s)) \cup {Head(s)}
<1> DEFINE t == Tail(s)
<1>1. Head(s) \in Members(s) /\ t \in Seq(Members(s))
      /\ Head(s) = s[1] /\ Len(t) = Len(s) - 1 /\ \A k \in 1 .. Len(t) : t[k] = s[k + 1]
  BY HeadTailProperties
<1>2. DOMAIN t = 1 .. Len(t) /\ t \in [1 .. Len(t) -> Members(s)] /\ Len(t) \in Nat
      /\ DOMAIN s = 1 .. Len(s) /\ Len(s) \in Nat
  BY <1>1, LenProperties
<1> HIDE DEF t
<1>3. t \in [1 .. Len(t) -> Members(t)]
  BY <1>2 DEF Members
<1>4. t \in Seq(Members(t))
  BY <1>2, <1>3, SeqDef
<1>5. \A x \in Members(t) : x \in Members(s)
  BY <1>2 DEF Members
<1>6. ASSUME NEW k \in DOMAIN s PROVE s[k] \in Members(t) \cup {Head(s)}
  <2>1. CASE k = 1
    BY <1>1, <2>1
  <2>2. CASE k # 1
    <3>1. k - 1 \in DOMAIN t /\ t[k - 1] = s[k]
      BY <1>1, <1>2, <2>2
    <3> QED BY <3>1 DEF Members
  <2> QED BY <2>1, <2>2
<1>7. Members(s) \subseteq Members(t) \cup {Head(s)}
  BY <1>6 DEF Members
<1> QED BY <1>1, <1>4, <1>5, <1>7 DEF t

\* An empty queue is the one without members.
LEMMA MembersEmpty ==
  /\ Members(<<>>) = {} /\ <<>> \in Seq(Members(<<>>))
  /\ \A s : s \in Seq(Members(s)) /\ s # <<>> => Members(s) # {}
<1>1. Members(<<>>) = {} /\ <<>> \in Seq(Members(<<>>))
  <2>1. DOMAIN <<>> = {}
    BY EmptySeq
  <2> QED BY <2>1, EmptySeq DEF Members
<1> QED BY <1>1, MembersTail

\* Posting one queue after another posts what is in either.
LEMMA MembersConcat ==
  ASSUME NEW s, s \in Seq(Members(s)), NEW r, r \in Seq(Members(r))
  PROVE  /\ s \o r \in Seq(Members(s \o r))
         /\ Members(s \o r) = Members(s) \cup Members(r)
<1> DEFINE S == Members(s) \cup Members(r)
           t == s \o r
<1>1. s \in Seq(S) /\ r \in Seq(S)
  BY SeqMonotonic
<1>2. t \in Seq(S) /\ Len(t) = Len(s) + Len(r)
      /\ \A k \in 1 .. Len(s) + Len(r) : t[k] = IF k <= Len(s) THEN s[k] ELSE r[k - Len(s)]
  BY <1>1, ConcatProperties
<1>3. /\ DOMAIN t = 1 .. Len(t) /\ t \in [1 .. Len(t) -> S] /\ Len(t) \in Nat
      /\ DOMAIN s = 1 .. Len(s) /\ Len(s) \in Nat /\ DOMAIN r = 1 .. Len(r) /\ Len(r) \in Nat
  BY <1>1, <1>2, LenProperties
<1> HIDE DEF t
<1>4. t \in [1 .. Len(t) -> Members(t)]
  BY <1>3 DEF Members
<1>5. t \in Seq(Members(t))
  BY <1>3, <1>4, SeqDef
<1>6. \A x \in Members(t) : x \in S
  BY <1>3 DEF Members
<1>7. ASSUME NEW k \in DOMAIN s PROVE s[k] \in Members(t)
  <2>1. k \in DOMAIN t /\ t[k] = s[k]
    BY <1>2, <1>3
  <2> QED BY <2>1 DEF Members
<1>8. ASSUME NEW k \in DOMAIN r PROVE r[k] \in Members(t)
  <2>1. Len(s) + k \in DOMAIN t /\ t[Len(s) + k] = r[k]
    BY <1>2, <1>3
  <2> QED BY <2>1 DEF Members
<1>9. Members(s) \subseteq Members(t) /\ Members(r) \subseteq Members(t)
  BY <1>7, <1>8 DEF Members
<1> QED BY <1>5, <1>6, <1>9 DEF t

----------------------------------------------------------------------------
(* Picking from a queue *)

\* What holds of zero and of a successor when it holds of a number, holds up to
\* a bound.
LEMMA UpTo ==
  ASSUME NEW n \in Nat, NEW A, 0 \in A, \A k \in 0 .. n : k < n /\ k \in A => k + 1 \in A
  PROVE  \A k \in 0 .. n : k \in A
<1> DEFINE R == OpToRel(<, Nat)
           B == {k \in 0 .. n : k \notin A}
<1> SUFFICES ASSUME B # {} PROVE FALSE
  OBVIOUS
<1>1. IsWellFoundedOn(R, Nat)
  BY NatLessThanWellFounded
<1>2. \A j, k \in Nat : j < k => <<j, k>> \in R
  BY DEF OpToRel
<1>3. B \subseteq Nat
  OBVIOUS
<1> HIDE DEF R
<1>4. \E k \in B : \A j \in B : ~ (<<j, k>> \in R)
  <2> HIDE DEF B
  <2> QED BY <1>1, <1>3, WFMin, Zenon
<1>5. PICK k \in B : \A j \in B : ~ (<<j, k>> \in R)
  BY <1>4
<1>6. k \in 0 .. n /\ k \notin A /\ k # 0
  BY <1>5
<1>7. k - 1 \in 0 .. n /\ k - 1 < n /\ k = (k - 1) + 1 /\ k - 1 < k
  BY <1>6
<1>8. k - 1 \in B
  BY <1>6, <1>7
<1> QED BY <1>2, <1>3, <1>5, <1>7, <1>8

\* The step of the recursion of Only.
Kept(s, S, n, f) ==
  f = [k \in 0 .. n |-> IF k = 0 THEN <<>>
                        ELSE IF s[k] \in S THEN Append(f[k - 1], s[k]) ELSE f[k - 1]]

\* The recursion of Only has a solution.
LEMMA KeptExists ==
  ASSUME NEW s, NEW S, NEW n \in Nat
  PROVE  \E f : Kept(s, S, n, f)
<1> DEFINE A == {k \in 0 .. n : \E f : Kept(s, S, k, f)}
<1>1. 0 \in A
  <2> DEFINE f == [k \in 0 .. 0 |-> <<>>]
  <2>1. f = [k \in 0 .. 0 |-> IF k = 0 THEN <<>>
                        ELSE IF s[k] \in S THEN Append(f[k - 1], s[k]) ELSE f[k - 1]]
    OBVIOUS
  <2>2. Kept(s, S, 0, f)
    BY <2>1 DEF Kept
  <2> QED BY <2>2
<1>2. ASSUME NEW k \in 0 .. n, k < n, k \in A PROVE k + 1 \in A
  <2>1. PICK f : Kept(s, S, k, f)
    BY <1>2
  <2> DEFINE v == IF s[k + 1] \in S THEN Append(f[k], s[k + 1]) ELSE f[k]
             g == [j \in 0 .. k + 1 |-> IF j <= k THEN f[j] ELSE v]
  <2>2. \A j \in 0 .. k : f[j] = IF j = 0 THEN <<>>
                        ELSE IF s[j] \in S THEN Append(f[j - 1], s[j]) ELSE f[j - 1]
    BY <2>1 DEF Kept
  <2>3. ASSUME NEW j \in 0 .. k + 1
        PROVE  g[j] = IF j = 0 THEN <<>>
                        ELSE IF s[j] \in S THEN Append(g[j - 1], s[j]) ELSE g[j - 1]
    <3>1. CASE j = k + 1
      <4>1. k \in 0 .. k + 1 /\ j # 0 /\ j - 1 = k
        BY <3>1
      <4>2. g[j] = v /\ g[j - 1] = f[k]
        BY <3>1, <4>1
      <4> QED BY <3>1, <4>1, <4>2
    <3>2. CASE j # k + 1 /\ j # 0
      <4>1. j \in 0 .. k /\ j - 1 \in 0 .. k /\ j - 1 \in 0 .. k + 1
        BY <3>2
      <4>2. g[j] = f[j] /\ g[j - 1] = f[j - 1]
        BY <4>1
      <4> HIDE DEF g
      <4> QED BY <2>2, <3>2, <4>1, <4>2
    <3>3. CASE j = 0
      <4>1. g[j] = f[j]
        BY <3>3
      <4> HIDE DEF g
      <4> QED BY <2>2, <3>3, <4>1
    <3> QED BY <3>1, <3>2, <3>3
  <2>4. g = [j \in 0 .. k + 1 |-> g[j]]
    OBVIOUS
  <2> HIDE DEF g
  <2>5. Kept(s, S, k + 1, g)
    BY <2>3, <2>4 DEF Kept
  <2>6. k + 1 \in 0 .. n
    BY <1>2
  <2> QED BY <2>5, <2>6
<1>3. \A k \in 0 .. n : k \in A
  <2> HIDE DEF A
  <2> QED BY <1>1, <1>2, UpTo
<1> QED BY <1>3

\* Only keeps the members that belong to S, and no others.
LEMMA OnlyMembers ==
  ASSUME NEW s, s \in Seq(Members(s)), NEW S
  PROVE  /\ Only(s, S) \in Seq(Members(Only(s, S)))
         /\ Members(Only(s, S)) = Members(s) \cap S
<1> DEFINE n == Len(s)
           f == CHOOSE g : Kept(s, S, n, g)
           Upto(k) == {s[j] : j \in 1 .. k} \cap S
           A == {k \in 0 .. n : f[k] \in Seq(Members(f[k])) /\ Members(f[k]) = Upto(k)}
<1>1. n \in Nat /\ DOMAIN s = 1 .. n
  BY LenProperties
<1>2. Only(s, S) = f[n]
  BY DEF Only, Kept
<1>3. Kept(s, S, n, f)
  BY <1>1, KeptExists
<1> HIDE DEF f, n
<1>4. \A k \in 0 .. n : f[k] = IF k = 0 THEN <<>>
                        ELSE IF s[k] \in S THEN Append(f[k - 1], s[k]) ELSE f[k - 1]
  BY <1>3 DEF Kept
<1>5. 0 \in A
  <2>1. 0 \in 0 .. n /\ f[0] = <<>>
    BY <1>1, <1>4
  <2>2. Upto(0) = {}
    OBVIOUS
  <2> QED BY <2>1, <2>2, MembersEmpty
<1>6. ASSUME NEW k \in 0 .. n, k < n, k \in A PROVE k + 1 \in A
  <2>1. k + 1 \in 0 .. n /\ k + 1 # 0 /\ (k + 1) - 1 = k
    BY <1>1, <1>6
  <2>2. f[k + 1] = IF s[k + 1] \in S THEN Append(f[k], s[k + 1]) ELSE f[k]
    BY <1>4, <2>1
  <2>3. Upto(k + 1) = Upto(k) \cup ({s[k + 1]} \cap S)
    <3>1. 1 .. k + 1 = (1 .. k) \cup {k + 1}
      BY <1>1, <1>6
    <3>2. {s[j] : j \in 1 .. k + 1} = {s[j] : j \in 1 .. k} \cup {s[k + 1]}
      BY <3>1, Zenon
    <3> QED BY <3>2
  <2>4. f[k] \in Seq(Members(f[k])) /\ Members(f[k]) = Upto(k)
    BY <1>6
  <2>5. CASE s[k + 1] \in S
    <3>1. f[k + 1] = Append(f[k], s[k + 1])
      BY <2>2, <2>5
    <3>2. f[k + 1] \in Seq(Members(f[k + 1])) /\ Members(f[k + 1]) = Members(f[k]) \cup {s[k + 1]}
      <4> DEFINE b == f[k]
      <4>1. b \in Seq(Members(b)) /\ f[k + 1] = Append(b, s[k + 1])
        BY <2>4, <3>1
      <4> HIDE DEF b
      <4>2. Append(b, s[k + 1]) \in Seq(Members(Append(b, s[k + 1])))
            /\ Members(Append(b, s[k + 1])) = Members(b) \cup {s[k + 1]}
        BY <4>1, MembersAppend
      <4>3. f[k + 1] \in Seq(Members(f[k + 1])) /\ Members(f[k + 1]) = Members(b) \cup {s[k + 1]}
        BY ONLY <4>1, <4>2
      <4> QED BY <4>3 DEF b
    <3>3. Members(f[k + 1]) = Upto(k + 1)
      BY <2>3, <2>4, <2>5, <3>2
    <3> QED BY <2>1, <3>2, <3>3
  <2>6. CASE s[k + 1] \notin S
    <3>1. f[k + 1] = f[k]
      BY <2>2, <2>6
    <3>2. Upto(k + 1) = Upto(k)
      BY <2>3, <2>6
    <3> QED BY <2>1, <2>4, <3>1, <3>2
  <2> QED BY <2>5, <2>6
<1>7. n \in A
  <2> HIDE DEF A
  <2>1. \A k \in 0 .. n : k \in A
    BY <1>1, <1>5, <1>6, UpTo
  <2> QED BY <1>1, <2>1
<1>8. Upto(n) = Members(s) \cap S
  BY <1>1 DEF Members
<1> QED BY <1>2, <1>7, <1>8

----------------------------------------------------------------------------
(* Signed as shown *)

\* What the wallet may post: "ready", a refusal, or a signature of the request
\* it answers, approved by a person.
Honest(m) ==
  \/ m = Ready
  \/ m.kind = "error"
  \/ m.kind = "result" /\ m.doc = m.id /\ m.id \in approved

Types ==
  /\ promise \in [Ids -> [state : States, doc : MaybeId]]
  /\ approved \subseteq Ids

\* The request an approve() runs for was approved.
BusyApproved == busy # NoId => busy \in approved

OnlyHonest == toApp \in Seq(Members(toApp)) /\ \A m \in Members(toApp) : Honest(m)

\* SignedAsShown is not inductive: what a promise resolves with was decided
\* when the wallet posted it, and that when the button was pressed.
IInv == Types /\ BusyApproved /\ OnlyHonest /\ SignedAsShown

\* A step that posts an honest message, takes one, or leaves them alone keeps
\* them honest, as long as nobody's approval is taken back.
LEMMA StayHonest ==
  ASSUME OnlyHonest, approved \subseteq approved',
         \/ toApp' = toApp
         \/ toApp # <<>> /\ toApp' = Tail(toApp)
         \/ \E m : toApp' = Append(toApp, m) /\ Honest(m)'
  PROVE  OnlyHonest'
<1>0. \A m : Honest(m) => Honest(m)'
  BY DEF Honest, Ready
<1>1. CASE toApp' = toApp
  BY <1>0, <1>1 DEF OnlyHonest
<1>2. CASE toApp # <<>> /\ toApp' = Tail(toApp)
  BY <1>0, <1>2, MembersTail DEF OnlyHonest
<1>3. ASSUME NEW m, toApp' = Append(toApp, m), Honest(m)'
      PROVE  OnlyHonest'
  BY <1>0, <1>3, MembersAppend DEF OnlyHonest
<1> QED BY <1>1, <1>2, <1>3

\* Before the first request nothing is posted, approved or resolved (client.ts
\* connect).
LEMMA InitIInv == Init => IInv
<1> SUFFICES ASSUME Init PROVE IInv
  OBVIOUS
<1>1. Types /\ BusyApproved /\ SignedAsShown
  BY DEF Init, Types, BusyApproved, SignedAsShown, Idle, States, MaybeId
<1>2. toApp = <<>>
  BY DEF Init
<1>3. toApp \in Seq(Members(toApp)) /\ DOMAIN toApp = {}
  BY <1>2, EmptySeq
<1>4. OnlyHonest
  BY <1>3 DEF OnlyHonest, Members
<1> QED BY <1>1, <1>4 DEF IInv

\* Setting one promise to anything but "resolved".
LEMMA Unresolved ==
  ASSUME IInv, approved' = approved, NEW i \in Ids,
         NEW o \in {Waiting, Rejected}, promise' = [promise EXCEPT ![i] = o]
  PROVE  Types' /\ SignedAsShown'
BY DEF IInv, Types, SignedAsShown, Waiting, Rejected, States, MaybeId

\* Closing the window leaves no approve() running, or the one that runs.
LEMMA CloseBusy ==
  ASSUME BusyApproved, approved' = approved, NEW i, Close(i)
  PROVE  BusyApproved'
BY DEF BusyApproved, Close, Forget, pageVars

\* No handler of either side breaks it (client.ts request, Connect.tsx).
LEMMA StepIInv == IInv /\ [Next]_vars => IInv'
<1> SUFFICES ASSUME IInv, [Next]_vars PROVE IInv'
  OBVIOUS
<1> USE DEF IInv
<1>1. ASSUME NEW i \in Ids, Blocked(i) PROVE IInv'
  <2>1. Types' /\ SignedAsShown'
    BY <1>1, Unresolved DEF Blocked
  <2>2. BusyApproved'
    BY <1>1 DEF Blocked, BusyApproved, pageVars
  <2>3. OnlyHonest'
    BY <1>1, StayHonest DEF Blocked
  <2> QED BY <2>1, <2>2, <2>3
<1>2. ASSUME NEW i \in Ids, request(i) PROVE IInv'
  <2>1. Types' /\ SignedAsShown'
    BY <1>2, Unresolved DEF request
  <2>2. BusyApproved'
    BY <1>2 DEF request, BusyApproved, Forget
  <2>3. OnlyHonest'
    BY <1>2, StayHonest DEF request
  <2> QED BY <2>1, <2>2, <2>3
<1>3. ASSUME NEW i \in Ids, onReply(i) PROVE IInv'
  <2> DEFINE m == Head(toApp)
  <2>1. toApp # <<>> /\ toApp' = Tail(toApp) /\ m # Ready /\ m.id = i /\ approved' = approved
        /\ promise' = [promise EXCEPT ![i] = IF m.kind = "error" THEN Rejected ELSE Resolved(m.doc)]
    BY <1>3 DEF onReply, finish, Answers
  <2>2. Honest(m)
    BY <2>1, MembersTail DEF OnlyHonest
  <2>3. Types' /\ SignedAsShown'
    <3>1. CASE m.kind = "error"
      BY <2>1, <3>1, Unresolved
    <3>2. CASE m.kind # "error"
      <4>1. m.doc = i /\ i \in approved
        BY <2>1, <2>2, <3>2 DEF Honest
      <4>2. promise' = [promise EXCEPT ![i] = Resolved(i)]
        BY <2>1, <3>2, <4>1
      <4> QED BY <2>1, <4>1, <4>2 DEF Types, SignedAsShown, Resolved, States, MaybeId
    <3> QED BY <3>1, <3>2
  <2>4. BusyApproved'
    BY <1>3, <2>1, CloseBusy DEF onReply, BusyApproved, pageVars
  <2>5. OnlyHonest'
    BY <2>1, StayHonest
  <2> QED BY <2>3, <2>4, <2>5
<1>4. ASSUME NEW i \in Ids, closedCheck(i) PROVE IInv'
  <2>1. Types' /\ SignedAsShown'
    BY <1>4, Unresolved DEF closedCheck, finish
  <2>2. BusyApproved'
    BY <1>4 DEF closedCheck, BusyApproved, pageVars
  <2>3. OnlyHonest'
    BY <1>4, StayHonest DEF closedCheck
  <2> QED BY <2>1, <2>2, <2>3
<1>5. ASSUME NEW i \in Ids, timer(i) PROVE IInv'
  <2>1. Types' /\ SignedAsShown'
    BY <1>5, Unresolved DEF timer, finish
  <2>2. BusyApproved'
    BY <1>5, CloseBusy DEF timer
  <2>3. OnlyHonest'
    BY <1>5, StayHonest DEF timer
  <2> QED BY <2>1, <2>2, <2>3
<1>6. ASSUME NEW i \in Ids, approve(i) PROVE IInv'
  <2>1. Types' /\ SignedAsShown'
    BY <1>6 DEF approve, appVars, Types, SignedAsShown
  <2>2. BusyApproved'
    BY <1>6 DEF approve, BusyApproved
  <2>3. OnlyHonest'
    BY <1>6, StayHonest DEF approve
  <2> QED BY <2>1, <2>2, <2>3
<1>7. ASSUME NEW i \in Ids, reject(i) PROVE IInv'
  <2>1. Types' /\ SignedAsShown'
    BY <1>7 DEF reject, appVars, Types, SignedAsShown
  <2>2. BusyApproved'
    BY <1>7 DEF reject, BusyApproved, Forget
  <2>3. Honest(Refusal(i))'
    BY DEF Honest, Refusal
  <2>4. OnlyHonest'
    BY <1>7, <2>3, StayHonest DEF reject
  <2> QED BY <2>1, <2>2, <2>4
<1>8. CASE onReady \/ onStrayReply
  <2>1. Types' /\ SignedAsShown' /\ BusyApproved'
    BY <1>8 DEF onReady, onStrayReply, appVars, pageVars, Types, SignedAsShown, BusyApproved
  <2>2. OnlyHonest'
    BY <1>8, StayHonest DEF onReady, onStrayReply
  <2> QED BY <2>1, <2>2
<1>9. CASE serveWalletRequests \/ onUnsupported
  <2>1. Types' /\ SignedAsShown' /\ BusyApproved'
    BY <1>9 DEF serveWalletRequests, onUnsupported, appVars, pageVars, Types, SignedAsShown,
                BusyApproved
  <2>2. Honest(Ready)' /\ Honest(Refusal(Head(toWallet)))'
    BY DEF Honest, Ready, Refusal
  <2>3. \E m : toApp' = Append(toApp, m) /\ Honest(m)'
    <3>1. CASE serveWalletRequests
      BY <2>2, <3>1 DEF serveWalletRequests
    <3>2. CASE onUnsupported
      <4>1. toApp' = Append(toApp, Refusal(Head(toWallet)))
        BY <3>2 DEF onUnsupported
      <4>2. \A m : m = Refusal(Head(toWallet)) => Honest(m)'
        BY DEF Honest, Refusal
      <4> QED BY <4>1, <4>2
    <3> QED BY <1>9, <3>1, <3>2
  <2>4. OnlyHonest'
    BY <1>9, <2>3, StayHonest DEF serveWalletRequests, onUnsupported
  <2> QED BY <2>1, <2>4
<1>10. CASE onRequest \/ ApproveFails \/ onDone \/ PersonCloses
  <2>1. Types' /\ SignedAsShown' /\ BusyApproved'
    BY <1>10 DEF onRequest, ApproveFails, onDone, PersonCloses, Forget, appVars, Types,
                 SignedAsShown, BusyApproved
  <2>2. OnlyHonest'
    BY <1>10, StayHonest DEF onRequest, ApproveFails, onDone, PersonCloses
  <2> QED BY <2>1, <2>2
<1>11. CASE ApproveEnds
  <2>1. Types' /\ SignedAsShown' /\ BusyApproved'
    BY <1>11 DEF ApproveEnds, appVars, Types, SignedAsShown, BusyApproved
  <2>2. OnlyHonest'
    <3>1. toApp' = Append(toApp, Signature(busy, busy)) /\ approved' = approved
      BY <1>11 DEF ApproveEnds, Approving
    <3>2. \A m : m = Signature(busy, busy) => Honest(m)'
      BY <1>11 DEF ApproveEnds, BusyApproved, Honest, Signature
    <3> QED BY <3>1, <3>2, StayHonest
  <2> QED BY <2>1, <2>2
<1>12. CASE UNCHANGED vars
  <2>1. Types' /\ SignedAsShown' /\ BusyApproved'
    BY <1>12 DEF vars, appVars, pageVars, Types, SignedAsShown, BusyApproved
  <2>2. OnlyHonest'
    BY <1>12, StayHonest DEF vars
  <2> QED BY <2>1, <2>2
<1> QED BY <1>1, <1>2, <1>3, <1>4, <1>5, <1>6, <1>7, <1>8, <1>9, <1>10, <1>11, <1>12 DEF Next

\* However many requests share the popup and whatever is approved, replaced or
\* late, a request resolves with the signature of its own document, which a
\* person approved with that request on the screen (client.ts onMessage,
\* Connect.tsx approve).
THEOREM AlwaysSignedAsShown == Spec => []SignedAsShown
<1>1. IInv => SignedAsShown
  BY DEF IInv
<1> QED BY <1>1, InitIInv, StepIInv, PTL DEF Spec

----------------------------------------------------------------------------
(* Nobody waits unseen *)

\* A request that waits for an answer from the window that is open now.
Holds(i) == Waits(i) /\ handle[i] = opened

\* An answer to it is on its way.
Answered(i) == \E m \in Members(toApp) : m # Ready /\ m.id = i

Queues ==
  /\ toApp \in Seq(Members(toApp))
  /\ toWallet \in Seq(Members(toWallet)) /\ Members(toWallet) \subseteq Ids
  /\ listeners \in Seq(Members(listeners))
  /\ promise \in [Ids -> [state : States, doc : MaybeId]] /\ handle \in [Ids -> Nat]
  /\ opened \in Nat

\* Exactly the requests that wait listen.
Listening == Members(listeners) = {i \in Ids : Waits(i)}

\* What the wallet's page knows, it knows from a request that holds the window:
\* when such a request settles, the window goes with it.
PageInv ==
  /\ window # "loaded" => pending = NoId /\ busy = NoId /\ toWallet = <<>>
  /\ busy # NoId => pending # NoId
  /\ pending # NoId => speaks
  /\ speaks => /\ (pending # NoId => pending \in Ids /\ Holds(pending))
               /\ (busy # NoId => busy \in Ids /\ Holds(busy))
               /\ \A i \in Members(toWallet) : Holds(i)

\* What will come of a request that holds the window.  Either "ready" is on its
\* way, and then it is posted again; or the wallet has something to do with one
\* that holds the window, or has answered one, which closes the window for all;
\* or, in another version, each is refused for itself.
Reached(i) ==
  \/ Ready \in Members(toApp)
  \/ speaks /\ (toWallet # <<>> \/ pending # NoId \/ \E j \in Ids : Holds(j) /\ Answered(j))
  \/ ~speaks /\ (i \in Members(toWallet) \/ Answered(i))

SeenInv == window = "loaded" => \A i \in Ids : Holds(i) => Reached(i)

\* NobodyWaitsUnseen is not inductive: the page forgets a newer request when
\* approve() ends, and what helps that one is the answer to the older.
WaitInv == Queues /\ Listening /\ PageInv /\ SeenInv

\* An idle wallet has nothing on its way.
LEMMA SeenFollows == WaitInv => NobodyWaitsUnseen
<1> SUFFICES ASSUME WaitInv, window = "loaded", toApp = <<>>, toWallet = <<>>, pending = NoId,
                    NEW i \in Ids, Waits(i)
             PROVE  Closed(i)
  BY DEF NobodyWaitsUnseen
<1>1. Members(toApp) = {} /\ Members(toWallet) = {}
  BY MembersEmpty
<1>2. ~ Reached(i)
  BY <1>1 DEF Reached, Answered
<1> QED BY <1>2 DEF WaitInv, SeenInv, Holds, Closed

LEMMA InitWait == Init => WaitInv
<1> SUFFICES ASSUME Init PROVE WaitInv
  OBVIOUS
<1>1. toApp = <<>> /\ toWallet = <<>> /\ listeners = <<>> /\ pending = NoId /\ busy = NoId
      /\ window = "closed" /\ promise = [i \in Ids |-> Idle] /\ handle = [i \in Ids |-> 0]
      /\ opened = 0
  BY DEF Init
<1>2. Queues
  BY <1>1, MembersEmpty DEF Queues, Idle, States, MaybeId
<1>3. Listening
  BY <1>1, MembersEmpty DEF Listening, Waits, Idle
<1>4. PageInv
  BY <1>1, MembersEmpty DEF PageInv
<1>5. SeenInv
  BY <1>1 DEF SeenInv
<1> QED BY <1>2, <1>3, <1>4, <1>5 DEF WaitInv

\* A page that is gone, or loading, knows nothing.
LEMMA Forgotten ==
  ASSUME Forget, window' # "loaded"
  PROVE  PageInv' /\ SeenInv'
<1>1. pending' = NoId /\ busy' = NoId /\ toWallet' = <<>>
  BY DEF Forget
<1>2. Members(toWallet') = {}
  BY <1>1, MembersEmpty
<1>3. PageInv'
  BY <1>1, <1>2 DEF PageInv
<1> QED BY <1>3 DEF SeenInv

\* finish() takes one request out of those that wait and those that listen.
LEMMA Finished ==
  ASSUME Queues, Listening, NEW i \in Ids, NEW o,
         o \in [state : States, doc : MaybeId], o.state # "waiting", finish(i, o)
  PROVE  /\ promise' \in [Ids -> [state : States, doc : MaybeId]] /\ handle' \in [Ids -> Nat]
         /\ listeners' \in Seq(Members(listeners')) /\ Listening'
         /\ \A j \in Ids : Waits(j)' <=> Waits(j) /\ j # i
<1>1. promise' = [promise EXCEPT ![i] = o] /\ handle' = handle
      /\ listeners' = Only(listeners, Ids \ {i})
  BY DEF finish
<1>2. promise' \in [Ids -> [state : States, doc : MaybeId]] /\ handle' \in [Ids -> Nat]
  BY <1>1 DEF Queues
<1>3. \A j \in Ids : Waits(j)' <=> Waits(j) /\ j # i
  BY <1>1 DEF Queues, Waits
<1>4. listeners' \in Seq(Members(listeners')) /\ Members(listeners') = Members(listeners) \cap (Ids \ {i})
  BY <1>1, OnlyMembers DEF Queues
<1>5. Listening'
  BY <1>3, <1>4 DEF Listening
<1> QED BY <1>2, <1>3, <1>4, <1>5

\* Taking the first answer leaves "ready" and the answers to others.
LEMMA AnswerTaken ==
  ASSUME Queues, toApp # <<>>, toApp' = Tail(toApp)
  PROVE  /\ toApp' \in Seq(Members(toApp'))
         /\ Head(toApp) # Ready /\ Ready \in Members(toApp) => Ready \in Members(toApp')
         /\ \A j \in Ids : Answered(j) /\ (Head(toApp) = Ready \/ Head(toApp).id # j) => Answered(j)'
<1>1. toApp' \in Seq(Members(toApp')) /\ Members(toApp) = Members(toApp') \cup {Head(toApp)}
  BY MembersTail DEF Queues
<1> QED BY <1>1 DEF Answered

\* Posting one leaves the others, and answers whom it answers.
LEMMA AnswerPosted ==
  ASSUME Queues, NEW m, toApp' = Append(toApp, m)
  PROVE  /\ toApp' \in Seq(Members(toApp')) /\ m \in Members(toApp')
         /\ Ready \in Members(toApp) => Ready \in Members(toApp')
         /\ \A j \in Ids : Answered(j) => Answered(j)'
         /\ \A j \in Ids : m # Ready /\ m.id = j => Answered(j)'
<1>1. toApp' \in Seq(Members(toApp')) /\ Members(toApp') = Members(toApp) \cup {m}
  BY MembersAppend DEF Queues
<1> QED BY <1>1 DEF Answered

\* A request settles without the page: it does not hold the window, or the two
\* sides speak different versions.
LEMMA SettlesAside ==
  ASSUME WaitInv, NEW i \in Ids, Closed(i) \/ ~speaks,
         \A j \in Ids : Waits(j)' <=> Waits(j) /\ j # i,
         UNCHANGED <<handle, opened, window, pageVars, toWallet, speaks>>,
         Ready \in Members(toApp) => Ready \in Members(toApp'),
         \A j \in Ids : Answered(j) /\ j # i => Answered(j)'
  PROVE  PageInv' /\ SeenInv'
<1>1. UNCHANGED <<handle, opened, window, screen, pending, busy, toWallet, speaks>>
  BY DEF pageVars
<1>2. \A j \in Ids : Holds(j)' <=> Holds(j) /\ j # i
  BY <1>1 DEF Holds
<1>3. window = "loaded" /\ speaks => ~Holds(i)
  BY DEF Closed, Holds
<1>4. Members(toWallet) \subseteq Ids /\ Members(toWallet') = Members(toWallet)
  BY <1>1 DEF WaitInv, Queues
<1>5. PageInv'
  <2>1. window # "loaded" => Members(toWallet) = {}
    BY MembersEmpty DEF WaitInv, PageInv
  <2> QED BY <1>1, <1>2, <1>3, <1>4, <2>1 DEF WaitInv, PageInv
<1>6. ASSUME window = "loaded", NEW k \in Ids, Holds(k)' PROVE Reached(k)'
  <2>1. Holds(k) /\ k # i /\ Reached(k)
    BY <1>2, <1>6 DEF WaitInv, SeenInv
  <2>2. CASE speaks
    <3>1. \A j \in Ids : Holds(j) => Holds(j)' /\ (Answered(j) => Answered(j)')
      BY <1>2, <1>3, <1>6, <2>2
    <3> QED BY <1>1, <2>1, <2>2, <3>1 DEF Reached
  <2>3. CASE ~speaks
    BY <1>1, <1>4, <2>1, <2>3 DEF Reached
  <2> QED BY <2>2, <2>3
<1> QED BY <1>1, <1>5, <1>6 DEF SeenInv

\* What the listeners and the queues are made of does not change.
LEMMA QueuesStay ==
  ASSUME Queues, Listening, UNCHANGED <<promise, handle, listeners, opened>>,
         toApp' \in Seq(Members(toApp')), toWallet' \in Seq(Members(toWallet')),
         Members(toWallet') \subseteq Ids
  PROVE  Queues' /\ Listening'
BY DEF Queues, Listening, Waits

\* The requests that hold the window are what they were.
LEMMA HoldsStay ==
  ASSUME UNCHANGED <<promise, handle, opened>>
  PROVE  \A i : Holds(i)' <=> Holds(i)
BY DEF Holds, Waits

\* The application's handlers, apart from what it does with a message
\* (client.ts request, finish, the closed check and the timer).
LEMMA AppWait ==
  ASSUME WaitInv, NEW i \in Ids, Blocked(i) \/ request(i) \/ closedCheck(i) \/ timer(i)
  PROVE  WaitInv'
<1>0. Queues /\ Listening /\ PageInv /\ SeenInv
  BY DEF WaitInv
<1>1. Rejected \in [state : States, doc : MaybeId] /\ Rejected.state = "rejected"
      /\ Waiting \in [state : States, doc : MaybeId] /\ Waiting.state = "waiting"
  BY DEF Rejected, Waiting, States, MaybeId
<1>2. CASE Blocked(i)
  <2>1. promise[i].state = "idle" /\ promise' = [promise EXCEPT ![i] = Rejected]
        /\ UNCHANGED <<handle, listeners, opened, window, screen, pending, busy, toApp, toWallet, speaks>>
    BY <1>2 DEF Blocked, Idle, pageVars
  <2>2. \A j \in Ids : Waits(j)' <=> Waits(j)
    BY <1>0, <1>1, <2>1 DEF Queues, Waits
  <2>3. Queues' /\ Listening'
    BY <1>0, <1>1, <2>1, <2>2 DEF Queues, Listening
  <2>4. \A j \in Ids : (Holds(j)' <=> Holds(j)) /\ (Answered(j)' <=> Answered(j))
    BY <2>1, <2>2 DEF Holds, Answered
  <2>5. Members(toWallet) \subseteq Ids
    BY <1>0 DEF Queues
  <2>6. PageInv'
    BY <1>0, <2>1, <2>4, <2>5 DEF PageInv
  <2>7. SeenInv'
    BY <1>0, <2>1, <2>4 DEF SeenInv, Reached
  <2> QED BY <2>3, <2>6, <2>7 DEF WaitInv
<1>3. CASE request(i)
  <2>1. promise' = [promise EXCEPT ![i] = Waiting] /\ listeners' = Append(listeners, i)
        /\ handle' = [handle EXCEPT ![i] = opened'] /\ window' = "loading" /\ Forget /\ toApp' = toApp
    BY <1>3 DEF request
  <2>2. opened' \in Nat
    BY <1>0, <1>3 DEF request, Queues
  <2>3. PageInv' /\ SeenInv'
    BY <2>1, Forgotten
  <2>4. toWallet' = <<>>
    BY <2>1 DEF Forget
  <2>5. listeners' \in Seq(Members(listeners')) /\ Members(listeners') = Members(listeners) \cup {i}
    BY <1>0, <2>1, MembersAppend DEF Queues
  <2>6. \A j \in Ids : Waits(j)' <=> Waits(j) \/ j = i
    BY <1>0, <1>1, <2>1 DEF Queues, Waits
  <2>7. Listening'
    BY <1>0, <2>5, <2>6 DEF Listening
  <2>8. Queues'
    BY <1>0, <1>1, <2>1, <2>2, <2>4, <2>5, MembersEmpty DEF Queues
  <2> QED BY <2>3, <2>7, <2>8 DEF WaitInv
<1>4. CASE closedCheck(i)
  <2>1. Closed(i) /\ finish(i, Rejected)
        /\ UNCHANGED <<opened, window, pageVars, toApp, toWallet, approved, speaks>>
    BY <1>4 DEF closedCheck
  <2>2. /\ promise' \in [Ids -> [state : States, doc : MaybeId]] /\ handle' \in [Ids -> Nat]
        /\ listeners' \in Seq(Members(listeners')) /\ Listening'
        /\ \A j \in Ids : Waits(j)' <=> Waits(j) /\ j # i
    BY <1>0, <1>1, <2>1, Finished
  <2>3. Queues'
    BY <1>0, <2>1, <2>2 DEF Queues
  <2>4. handle' = handle
    BY <2>1 DEF finish
  <2>5. \A j \in Ids : Answered(j) => Answered(j)'
    BY <2>1 DEF Answered
  <2>6. PageInv' /\ SeenInv'
    BY <2>1, <2>2, <2>4, <2>5, SettlesAside
  <2> QED BY <2>2, <2>3, <2>6 DEF WaitInv
<1>5. CASE timer(i)
  <2>1. finish(i, Rejected) /\ Close(i) /\ UNCHANGED <<opened, toApp, approved, speaks>>
    BY <1>5 DEF timer
  <2>2. /\ promise' \in [Ids -> [state : States, doc : MaybeId]] /\ handle' \in [Ids -> Nat]
        /\ listeners' \in Seq(Members(listeners')) /\ Listening'
        /\ \A j \in Ids : Waits(j)' <=> Waits(j) /\ j # i
    BY <1>0, <1>1, <2>1, Finished
  <2>3. handle' = handle
    BY <2>1 DEF finish
  <2>4. CASE Closed(i)
    <3>1. UNCHANGED <<window, pageVars, toWallet>>
      BY <2>1, <2>4 DEF Close
    <3>2. Queues'
      BY <1>0, <2>1, <2>2, <3>1 DEF Queues
    <3>3. \A j \in Ids : Answered(j) => Answered(j)'
      BY <2>1 DEF Answered
    <3>4. PageInv' /\ SeenInv'
      BY <2>1, <2>2, <2>3, <2>4, <3>1, <3>3, SettlesAside
    <3> QED BY <2>2, <3>2, <3>4 DEF WaitInv
  <2>5. CASE ~Closed(i)
    <3>1. window' = "closed" /\ Forget
      BY <2>1, <2>5 DEF Close
    <3>2. PageInv' /\ SeenInv'
      BY <3>1, Forgotten
    <3>3. Queues'
      BY <1>0, <2>1, <2>2, <3>1, MembersEmpty DEF Queues, Forget
    <3> QED BY <2>2, <3>2, <3>3 DEF WaitInv
  <2> QED BY <2>4, <2>5
<1> QED BY <1>2, <1>3, <1>4, <1>5

\* What the application does with a message (client.ts onMessage).
LEMMA MessageWait ==
  ASSUME IInv, WaitInv, onReady \/ onStrayReply \/ \E i \in Ids : onReply(i)
  PROVE  WaitInv'
<1>0. Queues /\ Listening /\ PageInv /\ SeenInv
  BY DEF WaitInv
<1>1. /\ toApp' \in Seq(Members(toApp'))
      /\ Head(toApp) # Ready /\ Ready \in Members(toApp) => Ready \in Members(toApp')
      /\ \A j \in Ids : Answered(j) /\ (Head(toApp) = Ready \/ Head(toApp).id # j) => Answered(j)'
  <2>1. toApp # <<>> /\ toApp' = Tail(toApp)
    BY DEF onReady, onStrayReply, onReply
  <2> QED BY <1>0, <2>1, AnswerTaken
<1>2. CASE onReady
  <2> DEFINE holders == {j \in Ids : ~Closed(j)}
             posted == Only(listeners, holders)
  <2>1. Head(toApp) = Ready /\ UNCHANGED <<promise, handle, listeners, opened, window, screen, pending, busy, speaks>>
    BY <1>2 DEF onReady, appVars, pageVars
  <2>2. \A j \in Ids : (Holds(j)' <=> Holds(j)) /\ (Answered(j) => Answered(j)')
    BY <1>1, <2>1, HoldsStay
  <2>3. posted \in Seq(Members(posted)) /\ Members(posted) = Members(listeners) \cap holders
    BY <1>0, OnlyMembers DEF Queues
  <2>4. CASE window = "loaded"
    <3>1. toWallet' = toWallet \o posted
      BY <1>2, <2>4 DEF onReady
    <3>2. \A j : j \in Members(posted) <=> j \in Ids /\ Holds(j)
      BY <1>0, <2>3, <2>4 DEF Listening, Closed, Holds
    <3> HIDE DEF posted
    <3>3. toWallet' \in Seq(Members(toWallet')) /\ Members(toWallet') = Members(toWallet) \cup Members(posted)
      BY <1>0, <2>3, <3>1, MembersConcat DEF Queues
    <3>4. Queues' /\ Listening'
      BY <1>0, <1>1, <2>1, <3>2, <3>3, QueuesStay DEF Queues
    <3>5. \A j \in Members(toWallet') : j \in Ids /\ (speaks => Holds(j))
      BY <1>0, <3>2, <3>3 DEF PageInv, Queues
    <3>6. PageInv'
      BY <1>0, <2>1, <2>2, <2>4, <3>5 DEF PageInv
    <3>7. ASSUME NEW i \in Ids, Holds(i)' PROVE Reached(i)'
      <4>1. i \in Members(toWallet')
        BY <2>2, <3>2, <3>3, <3>7
      <4>2. toWallet' # <<>>
        BY <4>1, MembersEmpty
      <4> QED BY <2>1, <4>1, <4>2 DEF Reached
    <3> QED BY <3>4, <3>6, <3>7 DEF WaitInv, SeenInv
  <2>5. CASE window # "loaded"
    <3>1. toWallet' = toWallet
      BY <1>2, <2>5 DEF onReady
    <3>2. Queues' /\ Listening'
      BY <1>0, <1>1, <2>1, <3>1, QueuesStay DEF Queues
    <3>3. PageInv'
      BY <1>0, <2>1, <2>2, <3>1 DEF PageInv, Queues
    <3> QED BY <2>1, <2>5, <3>2, <3>3 DEF WaitInv, SeenInv
  <2> QED BY <2>4, <2>5
<1>3. CASE onStrayReply
  <2>1. Head(toApp) # Ready /\ (\A i \in Ids : ~Answers(Head(toApp), i))
        /\ UNCHANGED <<promise, handle, listeners, opened, window, screen, pending, busy, toWallet, speaks>>
    BY <1>3 DEF onStrayReply, appVars, pageVars
  <2>2. Queues' /\ Listening'
    BY <1>0, <1>1, <2>1, QueuesStay DEF Queues
  <2>3. \A j \in Ids : Holds(j) => Head(toApp).id # j
    <3>1. \A j \in Ids : Holds(j) => j \in Members(listeners)
      BY <1>0 DEF Listening, Holds
    <3> QED BY <2>1, <3>1 DEF Answers, Members
  <2>4. \A j \in Ids : (Holds(j)' <=> Holds(j)) /\ (Holds(j) /\ Answered(j) => Answered(j)')
    BY <1>1, <2>1, <2>3, HoldsStay
  <2>5. PageInv'
    BY <1>0, <2>1, <2>4 DEF PageInv, Queues
  <2>6. SeenInv'
    BY <1>0, <1>1, <2>1, <2>4 DEF SeenInv, Reached
  <2> QED BY <2>2, <2>5, <2>6 DEF WaitInv
<1>4. ASSUME NEW i \in Ids, onReply(i) PROVE WaitInv'
  <2> DEFINE o == IF Head(toApp).kind = "error" THEN Rejected ELSE Resolved(Head(toApp).doc)
  <2>1. Head(toApp) # Ready /\ Head(toApp).id = i /\ finish(i, o) /\ opened' = opened /\ speaks' = speaks
        /\ IF speaks THEN Close(i) ELSE UNCHANGED <<window, pageVars, toWallet>>
    BY <1>4 DEF onReply, Answers
  <2>2. o \in [state : States, doc : MaybeId] /\ o.state # "waiting"
    <3>1. CASE Head(toApp).kind = "error"
      BY <3>1 DEF Rejected, States, MaybeId
    <3>2. CASE Head(toApp).kind # "error"
      <4>1. toApp # <<>> /\ Head(toApp) \in Members(toApp)
        BY <1>4, MembersTail DEF onReply, IInv, OnlyHonest
      <4>2. Head(toApp).doc = i
        BY <2>1, <3>2, <4>1 DEF IInv, OnlyHonest, Honest
      <4> QED BY <3>2, <4>2 DEF Resolved, States, MaybeId
    <3> QED BY <3>1, <3>2
  <2> HIDE DEF o
  <2>3. /\ promise' \in [Ids -> [state : States, doc : MaybeId]] /\ handle' \in [Ids -> Nat]
        /\ listeners' \in Seq(Members(listeners')) /\ Listening'
        /\ \A j \in Ids : Waits(j)' <=> Waits(j) /\ j # i
    BY <1>0, <2>1, <2>2, Finished
  <2>4. handle' = handle
    BY <2>1 DEF finish
  <2>5. CASE UNCHANGED <<window, pageVars, toWallet>> /\ (Closed(i) \/ ~speaks)
    <3>1. Ready \in Members(toApp) => Ready \in Members(toApp')
      BY <1>1, <2>1
    <3>2. \A j \in Ids : Answered(j) /\ j # i => Answered(j)'
      BY <1>1, <2>1
    <3>3. PageInv' /\ SeenInv'
      BY <2>1, <2>3, <2>4, <2>5, <3>1, <3>2, SettlesAside
    <3>4. Queues'
      BY <1>0, <1>1, <2>1, <2>3, <2>5 DEF Queues
    <3> QED BY <2>3, <3>3, <3>4 DEF WaitInv
  <2>6. CASE speaks /\ ~Closed(i)
    <3>1. window' = "closed" /\ Forget
      BY <2>1, <2>6 DEF Close
    <3>2. PageInv' /\ SeenInv'
      BY <3>1, Forgotten
    <3>3. Queues'
      BY <1>0, <1>1, <2>1, <2>3, <3>1, MembersEmpty DEF Queues, Forget
    <3> QED BY <2>3, <3>2, <3>3 DEF WaitInv
  <2> QED BY <2>1, <2>5, <2>6 DEF Close
<1> QED BY <1>2, <1>3, <1>4

\* What the wallet's page does (provider.ts, Connect.tsx).
LEMMA PageWait ==
  ASSUME WaitInv,
         \/ serveWalletRequests \/ onUnsupported \/ onRequest \/ ApproveFails \/ ApproveEnds
         \/ onDone \/ PersonCloses \/ \E i \in Ids : approve(i) \/ reject(i)
  PROVE  WaitInv'
<1>0. Queues /\ Listening /\ PageInv /\ SeenInv
  BY DEF WaitInv
<1>1. UNCHANGED <<promise, handle, listeners, opened, speaks>>
  BY DEF serveWalletRequests, onUnsupported, onRequest, ApproveFails, ApproveEnds, onDone,
         PersonCloses, approve, reject, appVars
<1>2. \A j : Holds(j)' <=> Holds(j)
  BY <1>1, HoldsStay
<1>3. CASE serveWalletRequests
  <2>1. window = "loading" /\ toApp' = Append(toApp, Ready) /\ UNCHANGED <<screen, pending, busy, toWallet>>
    BY <1>3 DEF serveWalletRequests, pageVars
  <2>2. toApp' \in Seq(Members(toApp')) /\ Ready \in Members(toApp')
    BY <1>0, <2>1, AnswerPosted
  <2>3. Queues' /\ Listening'
    BY <1>0, <1>1, <2>1, <2>2, QueuesStay DEF Queues
  <2>4. PageInv'
    BY <1>0, <1>1, <1>2, <2>1 DEF PageInv, Queues
  <2> QED BY <2>2, <2>3, <2>4 DEF WaitInv, SeenInv, Reached
<1>4. CASE onUnsupported
  <2> DEFINE h == Head(toWallet)
  <2>1. /\ window = "loaded" /\ toWallet # <<>> /\ ~speaks /\ toApp' = Append(toApp, Refusal(h))
        /\ toWallet' = Tail(toWallet) /\ UNCHANGED <<window, screen, pending, busy>>
    BY <1>4 DEF onUnsupported, pageVars
  <2>2. /\ toWallet' \in Seq(Members(toWallet')) /\ Members(toWallet) = Members(toWallet') \cup {h}
        /\ Members(toWallet') \subseteq Ids
    BY <1>0, <2>1, MembersTail DEF Queues
  <2>3. Refusal(h) # Ready /\ Refusal(h).id = h
    BY DEF Refusal, Ready
  <2> HIDE DEF h
  <2>4. /\ toApp' \in Seq(Members(toApp')) /\ (Ready \in Members(toApp) => Ready \in Members(toApp'))
        /\ \A j \in Ids : (Answered(j) => Answered(j)') /\ (j = h => Answered(j)')
    BY <1>0, <2>1, <2>3, AnswerPosted
  <2>5. Queues' /\ Listening'
    BY <1>0, <1>1, <2>2, <2>4, QueuesStay
  <2>6. PageInv'
    BY <1>0, <1>1, <1>2, <2>1 DEF PageInv
  <2>7. ASSUME NEW i \in Ids, Holds(i)' PROVE Reached(i)'
    <3>1. Ready \in Members(toApp) \/ i \in Members(toWallet) \/ Answered(i)
      BY <1>0, <1>2, <2>1, <2>7 DEF SeenInv, Reached
    <3>2. Ready \in Members(toApp') \/ i \in Members(toWallet') \/ Answered(i)'
      BY <2>2, <2>4, <3>1
    <3> QED BY <1>1, <2>1, <3>2 DEF Reached
  <2> QED BY <2>5, <2>6, <2>7 DEF WaitInv, SeenInv
<1>5. CASE onRequest
  <2>1. /\ window = "loaded" /\ toWallet # <<>> /\ speaks /\ pending' = Head(toWallet)
        /\ toWallet' = Tail(toWallet) /\ UNCHANGED <<window, screen, busy, toApp>>
    BY <1>5 DEF onRequest
  <2>2. /\ toWallet' \in Seq(Members(toWallet')) /\ Members(toWallet') \subseteq Members(toWallet)
        /\ pending' \in Members(toWallet) /\ Members(toWallet) \subseteq Ids
    BY <1>0, <2>1, MembersTail DEF Queues
  <2>3. pending' \in Ids /\ pending' # NoId /\ Holds(pending')
    BY <1>0, <2>1, <2>2, ConnectAssumption DEF PageInv
  <2>4. Queues' /\ Listening'
    BY <1>0, <1>1, <2>1, <2>2, QueuesStay DEF Queues
  <2>5. PageInv'
    <3>1. /\ \A j : j = pending' => Holds(j)'
          /\ \A j : j = busy /\ busy # NoId => j \in Ids /\ Holds(j)'
          /\ \A j \in Members(toWallet') : Holds(j)'
      <4> DEFINE new == pending'
      <4>1. Holds(new) /\ (busy # NoId => busy \in Ids /\ Holds(busy))
            /\ \A j \in Members(toWallet') : Holds(j)
        BY <1>0, <2>1, <2>2, <2>3 DEF PageInv
      <4> HIDE DEF new
      <4>2. \A j : j = new => Holds(j)'
        BY <1>2, <4>1
      <4>3. \A j : j = busy /\ busy # NoId => j \in Ids /\ Holds(j)'
        BY <1>2, <4>1
      <4> QED BY <1>2, <4>1, <4>2, <4>3 DEF new
    <3> QED BY <1>1, <2>1, <2>3, <3>1 DEF PageInv, Holds, Waits
  <2>6. SeenInv'
    BY <1>1, <2>1, <2>3 DEF SeenInv, Reached
  <2> QED BY <2>4, <2>5, <2>6 DEF WaitInv
<1>6. CASE ApproveFails \/ onDone \/ \E i \in Ids : approve(i)
  <2>1. /\ window = "loaded" /\ UNCHANGED <<window, pending, toApp, toWallet>>
        /\ busy' = busy \/ busy' = NoId \/ busy' = pending
    BY <1>6 DEF ApproveFails, onDone, approve, OnScreen
  <2>2. Queues' /\ Listening'
    BY <1>0, <1>1, <2>1, QueuesStay DEF Queues
  <2>3. PageInv'
    BY <1>0, <1>1, <1>2, <2>1 DEF PageInv, Queues
  <2>4. SeenInv'
    BY <1>0, <1>1, <1>2, <2>1 DEF SeenInv, Reached, Answered
  <2> QED BY <2>2, <2>3, <2>4 DEF WaitInv
<1>7. CASE ApproveEnds
  <2>1. /\ window = "loaded" /\ busy # NoId /\ toApp' = Append(toApp, Signature(busy, busy))
        /\ busy' = NoId /\ pending' = NoId /\ UNCHANGED <<window, toWallet>>
    BY <1>7 DEF ApproveEnds, Approving
  <2>2. speaks /\ busy \in Ids /\ Holds(busy)
    BY <1>0, <2>1 DEF PageInv
  <2>3. Signature(busy, busy) # Ready /\ Signature(busy, busy).id = busy
    BY DEF Signature, Ready
  <2>4. toApp' \in Seq(Members(toApp')) /\ \A j \in Ids : j = busy => Answered(j)'
    <3>1. \A j \in Ids : j = busy => Answered(j)'
      BY <1>0, <2>1, <2>3, AnswerPosted
    <3>2. toApp' \in Seq(Members(toApp')) /\ Signature(busy, busy) \in Members(toApp')
      BY <1>0, <2>1, AnswerPosted
    <3> QED BY <3>1, <3>2
  <2>5. Queues' /\ Listening'
    BY <1>0, <1>1, <2>1, <2>4, QueuesStay DEF Queues
  <2>6. PageInv'
    BY <1>0, <1>1, <1>2, <2>1 DEF PageInv, Queues
  <2>7. SeenInv'
    <3>1. PICK j \in Ids : j = busy /\ Holds(j)
      BY <2>2
    <3>2. Holds(j)' /\ Answered(j)'
      BY <1>2, <2>4, <3>1
    <3> QED BY <1>1, <2>2, <3>2 DEF SeenInv, Reached
  <2> QED BY <2>5, <2>6, <2>7 DEF WaitInv
<1>8. CASE PersonCloses \/ \E i \in Ids : reject(i)
  <2>1. window' = "closed" /\ Forget /\ (toApp' = toApp \/ \E m : toApp' = Append(toApp, m))
    BY <1>8 DEF PersonCloses, reject
  <2>2. toApp' \in Seq(Members(toApp'))
    BY <1>0, <2>1, AnswerPosted DEF Queues
  <2>3. toWallet' = <<>>
    BY <2>1 DEF Forget
  <2>4. Queues' /\ Listening'
    BY <1>0, <1>1, <2>2, <2>3, MembersEmpty, QueuesStay
  <2>5. PageInv' /\ SeenInv'
    BY <2>1, Forgotten
  <2> QED BY <2>4, <2>5 DEF WaitInv
<1> QED BY <1>3, <1>4, <1>5, <1>6, <1>7, <1>8

\* No handler of either side breaks it.
LEMMA StepWait == IInv /\ WaitInv /\ [Next]_vars => WaitInv'
<1> SUFFICES ASSUME IInv, WaitInv, [Next]_vars PROVE WaitInv'
  OBVIOUS
<1>1. CASE UNCHANGED vars
  <2>1. UNCHANGED <<promise, handle, listeners, opened, window, screen, pending, busy, toApp, toWallet, speaks>>
    BY <1>1 DEF vars, appVars, pageVars
  <2>2. Queues' /\ Listening'
    BY <2>1, QueuesStay DEF WaitInv, Queues
  <2>3. \A j : Holds(j)' <=> Holds(j)
    BY <2>1, HoldsStay
  <2>4. PageInv'
    BY <2>1, <2>3 DEF WaitInv, PageInv, Queues
  <2>5. SeenInv'
    BY <2>1, <2>3 DEF WaitInv, SeenInv, Reached, Answered
  <2> QED BY <2>2, <2>4, <2>5 DEF WaitInv
<1> QED BY <1>1, AppWait, MessageWait, PageWait DEF Next

\* A request that holds the open window is on the wallet's screen, on its way
\* there, or has an answer under way that settles it or closes the window: the
\* page may forget a newer request when approve() ends, but not for good
\* (Connect.tsx setPending, client.ts finish).
THEOREM NobodyEverWaitsUnseen == Spec => []NobodyWaitsUnseen
<1>1. Init => IInv /\ WaitInv
  BY InitIInv, InitWait
<1>2. IInv /\ WaitInv /\ [Next]_vars => (IInv /\ WaitInv)'
  BY StepIInv, StepWait
<1> QED BY <1>1, <1>2, SeenFollows, PTL DEF Spec

----------------------------------------------------------------------------
(* Payments *)

\* Whoever is found, and the lookup that is still wanted, belong to the id in
\* the form.
Form ==
  /\ to \in MaybePayee
  /\ payee \in [id : MaybePayee, state : {"unknown", "looking", "found"}]
  /\ lookups \subseteq [id : Payees, live : BOOLEAN]
  /\ payee.state = "found" => payee.id = to
  /\ \A l \in lookups : l.live => l.id = to

Calls == [n : Nat, payee : MaybePayee, e2e : Nat, step : {"signing", "signed", "waiting"},
          sequence : Nat, screen : BOOLEAN]

\* A call of send() is for a payment sent, and one at most reports to the
\* screen, which waits for it under the id of the composition: the one sent last.
Flying ==
  /\ flights \subseteq Calls
  /\ IsFiniteSet(sent)
  /\ \A s \in sent : s.n \in Nat /\ s.n <= Cardinality(sent)
  /\ \A f \in flights : \E s \in sent : s.n = f.n /\ s.payee = f.payee
  /\ \A f \in flights : f.screen => stage = "sending" /\ f.e2e = e2e /\ f.n = Cardinality(sent)
  /\ \A f, g \in flights : f.screen /\ g.screen => f = g

Chain ==
  /\ sequence \in Nat
  /\ mempool \subseteq [n : Nat, sequence : Nat]
  /\ inBlock \subseteq [n : Nat, executed : BOOLEAN]

\* The id of the composition is the last one drawn, and no receipt has it
\* before the screen that shows the receipt.
Receipted ==
  /\ drawn \in Nat /\ e2e = drawn
  /\ outcome \in [n : Nat, ok : BOOLEAN]
  /\ receipts \subseteq [n : Nat, e2e : Nat]
  /\ \A r \in receipts : r.e2e <= drawn /\ (r.e2e = drawn => stage = "done" /\ outcome.ok)

PayInv ==
  Form /\ Flying /\ Chain /\ Receipted /\ PaidAsNamed /\ RecentsWerePaid /\ ReceiptsProve

\* Before anything is typed, nothing is sent, listed or reported (Pay.tsx Pay).
LEMMA InitPayInv == PayInit => PayInv
<1> SUFFICES ASSUME PayInit PROVE PayInv
  OBVIOUS
<1>1. Form
  BY DEF PayInit, Form, Blank, MaybePayee
<1>2. Flying /\ Chain
  BY FS_EmptySet DEF PayInit, Flying, Chain
<1>3. Receipted /\ PaidAsNamed /\ RecentsWerePaid /\ ReceiptsProve
  BY DEF PayInit, Receipted, NoOutcome, PaidAsNamed, RecentsWerePaid, ReceiptsProve
<1> QED BY <1>1, <1>2, <1>3 DEF PayInv

\* A changed id takes the payee found for the one before it away (Pay.tsx
\* effect on to).
LEMMA SetTo ==
  ASSUME Form, NEW p \in MaybePayee, setTo(p)
  PROVE  Form'
<1> DEFINE dead == {[l EXCEPT !.live = FALSE] : l \in lookups}
<1>1. \A l \in dead : l \in [id : Payees, live : BOOLEAN] /\ ~l.live
  BY DEF Form
<1>2. CASE p = to
  BY <1>2 DEF setTo, Form
<1>3. CASE p # to /\ p = NoOne
  BY <1>1, <1>3 DEF setTo, Form, Blank, MaybePayee
<1>4. CASE p # to /\ p # NoOne
  <2> DEFINE asked == [id |-> p, live |-> TRUE]
  <2>1. /\ to' = p /\ payee' = [id |-> p, state |-> "looking"]
        /\ lookups' = dead \cup {asked}
    BY <1>4 DEF setTo
  <2>2. payee' \in [id : MaybePayee, state : {"unknown", "looking", "found"}]
        /\ payee'.state # "found"
    BY <2>1
  <2>3. asked \in [id : Payees, live : BOOLEAN] /\ asked.id = p
    BY <1>4 DEF MaybePayee
  <2> HIDE DEF dead, asked
  <2>4. \A l \in lookups' : l \in [id : Payees, live : BOOLEAN] /\ (l.live => l.id = p)
    BY <1>1, <2>1, <2>3
  <2> QED BY <2>1, <2>2, <2>4 DEF Form
<1> QED BY <1>2, <1>3, <1>4

\* send() names the payee of the screen, which is the one the id in the form
\* resolved to (Pay.tsx send).
LEMMA Sending ==
  ASSUME PayInv, NEW id \in MaybePayee, NEW asked \in BOOLEAN, send(id, asked),
         stage = "compose", payee.state = "found", isKnown(id) \/ asked,
         UNCHANGED <<e2e, drawn, outcome, inBlock, receipts>>
  PROVE  Flying' /\ Receipted' /\ PaidAsNamed' /\ RecentsWerePaid' /\ ReceiptsProve'
<1> USE DEF PayInv
<1> DEFINE n == Cardinality(sent) + 1
           f == [n |-> n, payee |-> payee.id, e2e |-> e2e,
                 step |-> "signing", sequence |-> 0, screen |-> TRUE]
           s == [n |-> n, payee |-> payee.id, e2e |-> e2e, named |-> id,
                 known |-> isKnown(id), asked |-> asked, early |-> id # to]
<1>1. n \in Nat /\ Cardinality(sent) \in Nat
  BY FS_CardinalityType DEF Flying
<1>2. stage' = "sending" /\ flights' = flights \cup {f} /\ sent' = sent \cup {s} /\ recents' = recents
  BY DEF send
<1>3. f \in Calls
  BY <1>1 DEF Calls, Form, Receipted
<1>4. /\ f.n = n /\ s.n = n /\ f.payee = s.payee /\ f.e2e = e2e /\ s.e2e = e2e
      /\ (s.payee = s.named \/ s.early) /\ (s.known \/ s.asked)
  BY DEF Form
<1>5. IsFiniteSet(sent') /\ Cardinality(sent') = n
  <2>1. s \notin sent
    BY <1>1, <1>4 DEF Flying
  <2> HIDE DEF s
  <2> QED BY <1>2, <2>1, FS_AddElement DEF Flying
<1> HIDE DEF f, s
<1>6. Flying'
  <2>1. \A x \in sent' : x.n \in Nat /\ x.n <= n
    BY <1>1, <1>2, <1>4 DEF Flying
  <2> HIDE DEF n
  <2>2. \A g \in flights : ~g.screen
    BY DEF Flying
  <2> QED BY <1>2, <1>3, <1>4, <1>5, <2>1, <2>2 DEF Flying
<1>7. PaidAsNamed'
  BY <1>2, <1>4 DEF PaidAsNamed
<1>8. Receipted' /\ RecentsWerePaid'
  BY <1>2 DEF Receipted, RecentsWerePaid, Settled
<1>9. ReceiptsProve'
  <2>1. \A r \in receipts : r.e2e # s.e2e
    BY <1>4 DEF Receipted
  <2> QED BY <1>2, <2>1 DEF ReceiptsProve, Settled
<1> QED BY <1>9, <1>6, <1>7, <1>8

\* What send() writes when its call ends is true of the payment it was called
\* for (Pay.tsx send, book.ts remember).
LEMMA Reporting ==
  ASSUME PayInv, NEW f \in flights, NEW ok \in BOOLEAN, Report(f, ok), ok => Settled(f.n),
         UNCHANGED <<e2e, drawn, inBlock, sent>>
  PROVE  Flying' /\ Receipted' /\ RecentsWerePaid' /\ ReceiptsProve'
<1> USE DEF PayInv
<1>1. f \in Calls /\ \E s \in sent : s.n = f.n /\ s.payee = f.payee
  BY DEF Flying
<1>2. Flying'
  BY DEF Report, Flying
<1>3. RecentsWerePaid'
  BY <1>1 DEF Report, RecentsWerePaid, Settled
<1>4. CASE ~f.screen
  BY <1>2, <1>3, <1>4 DEF Report, Receipted, ReceiptsProve, Settled
<1>5. CASE f.screen
  <2>1. stage = "sending" /\ f.e2e = e2e /\ \A s \in sent : s.n <= f.n
    BY <1>5 DEF Flying
  <2>2. \A r \in receipts : r.e2e # e2e
    BY <2>1 DEF Receipted
  <2>3. Receipted'
    BY <1>1, <1>5, <2>1, <2>2 DEF Report, Receipted, Calls
  <2>4. ReceiptsProve'
    <3> DEFINE r == [n |-> f.n, e2e |-> f.e2e]
    <3>1. r.n = f.n /\ r.e2e = e2e /\ (ok => Settled(r.n)) /\ \A s \in sent : s.n <= r.n
      BY <2>1
    <3>2. receipts' = IF ok THEN receipts \cup {r} ELSE receipts
      BY <1>5 DEF Report
    <3>3. \A m : Settled(m)' <=> Settled(m)
      BY DEF Settled
    <3> HIDE DEF r
    <3> QED BY <2>2, <3>1, <3>2, <3>3 DEF ReceiptsProve
  <2> QED BY <1>2, <1>3, <2>3, <2>4
<1> QED BY <1>4, <1>5

\* A screen mounted anew draws an id no receipt has (Pay.tsx Pay).
LEMMA Anew ==
  ASSUME PayInv, Fresh, receipts' = receipts
  PROVE  Form' /\ Receipted'
<1>1. Form'
  BY DEF Fresh, Form, Blank, MaybePayee
<1>2. Receipted'
  BY DEF PayInv, Fresh, Receipted, NoOutcome
<1> QED BY <1>1, <1>2

\* Fields of a call that say how far it has got may change.
LEMMA Further ==
  ASSUME PayInv, NEW f \in flights, NEW g \in Calls,
         g.n = f.n, g.payee = f.payee, g.e2e = f.e2e, g.screen = f.screen,
         flights' = (flights \ {f}) \cup {g}, UNCHANGED <<sent, stage, e2e>>
  PROVE  Flying'
BY DEF PayInv, Flying

\* No handler, answer or block breaks it (Pay.tsx, chain.ts, signing.ts).
LEMMA StepPayInv == PayInv /\ [PayNext]_payVars => PayInv'
<1> SUFFICES ASSUME PayInv, [PayNext]_payVars PROVE PayInv'
  OBVIOUS
<1> DEFINE Rest == UNCHANGED <<flights, sent, stage, e2e, drawn, outcome, recents, receipts>>
<1>a. ASSUME Form', Rest, Chain', inBlock \subseteq inBlock'
      PROVE  PayInv'
  BY <1>a DEF PayInv, Flying, Receipted, PaidAsNamed, RecentsWerePaid, ReceiptsProve, Settled
<1>b. UNCHANGED chainVars => Chain'
  BY DEF PayInv, chainVars, Chain
<1>c. UNCHANGED <<to, payee, lookups>> => Form'
  BY DEF PayInv, Form
<1>1. ASSUME NEW p \in MaybePayee, Type(p) PROVE PayInv'
  BY <1>1, <1>a, <1>b, SetTo DEF PayInv, Type, chainVars, screenVars, historyVars
<1>2. ASSUME NEW l \in lookups, resolve(l) PROVE PayInv'
  <2>1. Form'
    BY <1>2 DEF PayInv, resolve, Form, StillWanted, MaybePayee
  <2> QED BY <1>2, <1>a, <1>b, <2>1 DEF resolve, chainVars, screenVars, historyVars
<1>3. ASSUME NEW c \in Codes, readCode(c) PROVE PayInv'
  BY <1>3, <1>a, <1>b, <1>c DEF readCode, chainVars, screenVars, historyVars
<1>4. CASE CodeRead
  <2>1. Form'
    <3>1. CASE checking.to \in Registered /\ setTo(checking.to)
      BY <3>1, SetTo, PaymentsAssumption DEF PayInv, MaybePayee
    <3>2. CASE UNCHANGED <<to, payee, lookups>>
      BY <3>2, <1>c
    <3> QED BY <1>4, <3>1, <3>2 DEF CodeRead
  <2> QED BY <1>4, <1>a, <1>b, <2>1 DEF CodeRead, chainVars, screenVars, historyVars
<1>5. CASE CodeUnreadable \/ Cancel
  BY <1>5, <1>a, <1>b, <1>c DEF CodeUnreadable, Cancel, chainVars, screenVars, historyVars
<1>6. CASE submit \/ PayAnyway
  <2>1. Form' /\ Chain'
    BY <1>6, <1>b, <1>c DEF submit, PayAnyway
  <2>2. CASE /\ stage = "compose" /\ payee.state = "found"
             /\ \/ isKnown(to) /\ send(to, FALSE)
                \/ send(to, TRUE)
    <3>1. to \in MaybePayee /\ UNCHANGED <<e2e, drawn, outcome, inBlock, receipts>>
      BY <1>6 DEF PayInv, Form, submit, PayAnyway, chainVars
    <3> QED BY <2>1, <2>2, <3>1, Sending DEF PayInv
  <2>3. CASE UNCHANGED <<stage, flights, sent, recents>>
    BY <1>6, <1>a, <2>1, <2>3 DEF submit, PayAnyway, chainVars
  <2> QED BY <1>6, <2>2, <2>3 DEF submit, PayAnyway, Pressed
<1>15. CASE PressedEarly
  <2> DEFINE id == checking.to
  <2>1. id \in MaybePayee /\ Form'
    BY <1>15, SetTo, PaymentsAssumption DEF PayInv, PressedEarly, MaybePayee
  <2>2. Chain' /\ UNCHANGED <<e2e, drawn, outcome, inBlock, receipts>>
    BY <1>15, <1>b DEF PressedEarly, chainVars
  <2>3. /\ stage = "compose" /\ payee.state = "found"
        /\ \/ isKnown(id) /\ send(id, FALSE)
           \/ send(id, TRUE)
           \/ UNCHANGED <<stage, flights, sent, recents>>
    BY <1>15 DEF PressedEarly, Pressed
  <2> HIDE DEF id
  <2>4. CASE (isKnown(id) /\ send(id, FALSE)) \/ send(id, TRUE)
    BY <2>1, <2>2, <2>3, <2>4, Sending DEF PayInv
  <2>5. CASE UNCHANGED <<stage, flights, sent, recents>>
    BY <1>a, <2>1, <2>2, <2>5
  <2> QED BY <2>3, <2>4, <2>5
<1>7. CASE Done
  <2>1. Form'
    BY <1>7, <1>c, SetTo DEF PayInv, Done, MaybePayee
  <2>2. Chain' /\ PaidAsNamed' /\ RecentsWerePaid' /\ ReceiptsProve'
    BY <1>7, <1>b DEF PayInv, Done, historyVars, chainVars, PaidAsNamed, RecentsWerePaid,
                      ReceiptsProve, Settled
  <2>3. Flying'
    BY <1>7 DEF PayInv, Done, historyVars, Flying
  <2>4. Receipted'
    BY <1>7 DEF PayInv, Done, historyVars, Receipted, Renewed, NoOutcome
  <2> QED BY <2>1, <2>2, <2>3, <2>4 DEF PayInv
<1>8. CASE Leave \/ Restart
  <2>1. Form' /\ Receipted'
    BY <1>8, Anew DEF Leave, Restart, historyVars
  <2>2. Chain' /\ PaidAsNamed' /\ RecentsWerePaid' /\ ReceiptsProve'
    BY <1>8, <1>b DEF PayInv, Leave, Restart, historyVars, chainVars, PaidAsNamed,
                      RecentsWerePaid, ReceiptsProve, Settled
  <2>3. Flying'
    <3>1. CASE Restart
      BY <3>1 DEF PayInv, Restart, historyVars, Flying
    <3>2. CASE Leave
      <4> DEFINE Left(f) == [f EXCEPT !.screen = FALSE]
      <4>1. sent' = sent /\ flights' = {Left(f) : f \in flights}
        BY <3>2 DEF Leave, historyVars
      <4>2. \A f \in flights :
              Left(f) \in Calls /\ Left(f).n = f.n /\ Left(f).payee = f.payee /\ ~Left(f).screen
        BY DEF PayInv, Flying, Calls
      <4> HIDE DEF Left
      <4>3. \A g \in flights' :
              /\ g \in Calls /\ ~g.screen
              /\ \E s \in sent' : s.n = g.n /\ s.payee = g.payee
        BY <4>1, <4>2 DEF PayInv, Flying
      <4> QED BY <4>1, <4>3 DEF PayInv, Flying
    <3> QED BY <1>8, <3>1, <3>2
  <2> QED BY <2>1, <2>2, <2>3 DEF PayInv
<1>9. ASSUME NEW f \in flights, Sign(f) PROVE PayInv'
  <2> DEFINE g == [f EXCEPT !.step = "signed", !.sequence = sequence]
  <2>1. g \in Calls /\ g.n = f.n /\ g.payee = f.payee /\ g.e2e = f.e2e /\ g.screen = f.screen
    BY DEF PayInv, Flying, Calls, Chain
  <2>2. flights' = (flights \ {f}) \cup {g} /\ UNCHANGED <<sent, stage, e2e>>
    BY <1>9 DEF Sign, historyVars, screenVars, formVars
  <2> HIDE DEF g
  <2>3. Flying'
    BY <2>1, <2>2, Further
  <2>4. Form' /\ Chain'
    BY <1>9, <1>b, <1>c DEF Sign, formVars
  <2>5. Receipted' /\ PaidAsNamed' /\ RecentsWerePaid' /\ ReceiptsProve'
    BY <1>9 DEF PayInv, Sign, formVars, screenVars, historyVars, chainVars, Receipted, PaidAsNamed,
                RecentsWerePaid, ReceiptsProve, Settled
  <2> QED BY <2>3, <2>4, <2>5 DEF PayInv
<1>10. ASSUME NEW f \in flights, Broadcast(f) PROVE PayInv'
  <2> DEFINE g == [f EXCEPT !.step = "waiting"]
  <2>1. g \in Calls /\ g.n = f.n /\ g.payee = f.payee /\ g.e2e = f.e2e /\ g.screen = f.screen
    BY DEF PayInv, Flying, Calls
  <2>2. flights' = (flights \ {f}) \cup {g} /\ UNCHANGED <<sent, stage, e2e>>
    BY <1>10 DEF Broadcast, historyVars, screenVars, formVars
  <2> HIDE DEF g
  <2>3. Flying'
    BY <2>1, <2>2, Further
  <2>4. Form' /\ Chain'
    BY <1>10, <1>c DEF PayInv, Broadcast, Accepted, formVars, Chain, Flying, Calls
  <2>5. Receipted' /\ PaidAsNamed' /\ RecentsWerePaid' /\ ReceiptsProve'
    BY <1>10 DEF PayInv, Broadcast, formVars, screenVars, historyVars, Receipted, PaidAsNamed,
                 RecentsWerePaid, ReceiptsProve, Settled
  <2> QED BY <2>3, <2>4, <2>5 DEF PayInv
<1>11. ASSUME NEW f \in flights, BroadcastRefused(f) \/ Thrown(f) PROVE PayInv'
  <2>1. Report(f, FALSE) /\ UNCHANGED <<e2e, drawn, inBlock, sent>>
    BY <1>11 DEF BroadcastRefused, Thrown, pay, formVars, chainVars
  <2>2. Form' /\ PaidAsNamed'
    BY <1>11, <1>c DEF PayInv, BroadcastRefused, Thrown, formVars, PaidAsNamed
  <2>3. Chain'
    <3>1. [n |-> f.n, sequence |-> f.sequence] \in [n : Nat, sequence : Nat]
      BY DEF PayInv, Flying, Calls
    <3>2. mempool' = mempool \/ mempool' = mempool \cup {[n |-> f.n, sequence |-> f.sequence]}
      BY <1>11 DEF BroadcastRefused, Thrown, Accepted, chainVars
    <3>3. UNCHANGED <<sequence, inBlock>>
      BY <1>11 DEF BroadcastRefused, Thrown, chainVars
    <3> QED BY <3>1, <3>2, <3>3 DEF PayInv, Chain
  <2> QED BY <2>1, <2>2, <2>3, Reporting DEF PayInv
<1>12. ASSUME NEW f \in flights, Included(f) PROVE PayInv'
  <2>1. PICK b \in inBlock : b.n = f.n /\ Report(f, b.executed)
    BY <1>12 DEF Included, describeTxResult
  <2>2. b.executed \in BOOLEAN /\ b = [n |-> f.n, executed |-> b.executed]
    BY <2>1 DEF PayInv, Chain
  <2>3. b.executed => Settled(f.n)
    BY <2>2 DEF Settled
  <2>4. Form' /\ Chain' /\ PaidAsNamed' /\ UNCHANGED <<e2e, drawn, inBlock, sent>>
    BY <1>12, <1>b, <1>c DEF PayInv, Included, formVars, chainVars, PaidAsNamed
  <2> QED BY <2>1, <2>2, <2>3, <2>4, Reporting DEF PayInv
<1>16. ASSUME NEW f \in flights, NoKey(f) \/ NoRoom(f) PROVE PayInv'
  <2>1. flights' \subseteq flights /\ UNCHANGED <<e2e, drawn, stage, recents, inBlock, sent, receipts>>
    BY <1>16 DEF NoKey, NoRoom, formVars, chainVars, screenVars, historyVars
  <2>2. Form' /\ Chain'
    BY <1>16, <1>b, <1>c DEF NoKey, NoRoom, formVars
  <2>3. Flying' /\ PaidAsNamed' /\ RecentsWerePaid' /\ ReceiptsProve'
    BY <2>1 DEF PayInv, Flying, PaidAsNamed, RecentsWerePaid, ReceiptsProve, Settled
  <2>4. Receipted'
    <3> DEFINE o == [n |-> f.n, ok |-> TRUE]
    <3>1. o \in [n : Nat, ok : BOOLEAN] /\ o.ok
      BY DEF PayInv, Flying, Calls
    <3>2. outcome' = outcome \/ outcome' = o
      BY <1>16 DEF NoKey, NoRoom
    <3> HIDE DEF o
    <3> QED BY <2>1, <3>1, <3>2 DEF PayInv, Receipted
  <2> QED BY <2>2, <2>3, <2>4 DEF PayInv
<1>13. ASSUME NEW tx \in mempool, Block(tx) \/ Evict(tx) PROVE PayInv'
  <2>1. Chain' /\ inBlock \subseteq inBlock'
    BY <1>13 DEF PayInv, Block, Evict, Chain
  <2>2. Rest /\ Form'
    BY <1>13, <1>c DEF Block, Evict, formVars, screenVars, historyVars
  <2> QED BY <1>a, <2>1, <2>2
<1>14. CASE UNCHANGED payVars
  BY <1>14, <1>a, <1>b, <1>c DEF payVars, formVars, screenVars, historyVars, chainVars
<1> QED BY <1>1, <1>2, <1>3, <1>4, <1>5, <1>6, <1>7, <1>8, <1>9, <1>10, <1>11, <1>12, <1>13,
           <1>14, <1>15, <1>16 DEF PayNext

\* Lookups and codes in any order: a payment goes to whom the screen named, and
\* to somebody new only after a second press (Pay.tsx submit).
THEOREM AlwaysPaidAsNamed == PaySpec => []PaidAsNamed
<1>1. PayInv => PaidAsNamed
  BY DEF PayInv
<1> QED BY <1>1, InitPayInv, StepPayInv, PTL DEF PaySpec

\* Nobody is listed as paid who was not, whatever was lost or restarted (book.ts
\* remember).
THEOREM RecentsAlwaysPaid == PaySpec => []RecentsWerePaid
<1>1. PayInv => RecentsWerePaid
  BY DEF PayInv
<1> QED BY <1>1, InitPayInv, StepPayInv, PTL DEF PaySpec

\* A receipt is of an executed payment and the only one of its end-to-end id,
\* however often the payment was tried (Pay.tsx send, signing.ts submit).
THEOREM ReceiptsAlwaysProve == PaySpec => []ReceiptsProve
<1>1. PayInv => ReceiptsProve
  BY DEF PayInv
<1> QED BY <1>1, InitPayInv, StepPayInv, PTL DEF PaySpec
=============================================================================
