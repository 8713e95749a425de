--------------------------- MODULE StorageProofs ---------------------------
(***************************************************************************)
(* What the tables of Storage guarantee for any number of users, groups    *)
(* and concurrent requests, whichever of them fail and whenever the server *)
(* crashes.                                                                *)
(***************************************************************************)
EXTENDS Storage, TLAPS

\* What a handler's place says about its request.
Places ==
    \A r \in Requests :
        /\ pc[r] # "new" => req[r] \in Request
        /\ pc[r] # "end" => answer[r] = None
        /\ pc[r] \in {"create", "creator"} => req[r].op = "create"
        /\ pc[r] = "find" => req[r].op \in GroupOps \ {"create"}
        /\ pc[r] = "join" => req[r].op \in {"join", "invite"}
        /\ pc[r] = "leave" => req[r].op \in {"leave", "kick"}
        /\ pc[r] \in {"first"} \cup InTransaction =>
               /\ req[r].op \in FriendOps
               /\ req[r].op = "add" => req[r].me # req[r].other

\* The write lock and the transactions belong together.
Lock == \A r \in Requests : writer = r <=> pc[r] \in InTransaction

Symmetric(table) ==
    \A u, v \in Users : <<u, v>> \in table => <<v, u>> \in table /\ u # v

\* The open transaction: one direction changed, then both.
One(r) == Changed(friends, r, <<req[r].me, req[r].other>>)
Both(r) == Changed(One(r), r, <<req[r].other, req[r].me>>)

Transaction ==
    \A r \in Requests :
        /\ pc[r] = "second" => draft = One(r)
        /\ pc[r] = "commit" => draft = Both(r) /\ Symmetric(draft)

\* Between its inserts a request is the one that made the group.
Creating == \A r \in Requests : pc[r] = "creator" => creator[req[r].group] = req[r].me

Inv ==
    /\ TypeOK
    /\ Places
    /\ Lock
    /\ Symmetric(friends)
    /\ Transaction
    /\ Creating
    /\ CreatorIsMember
    /\ ToldIsCreator

LEMMA InvInit == Init => Inv
BY NoneAssumption
   DEF Init, Inv, TypeOK, Places, Lock, Symmetric, Transaction, Creating, CreatorIsMember,
       ToldIsCreator, Labels, InTransaction

LEMMA ReceiveStep ==
    ASSUME Inv, NEW r \in Requests, NEW q \in Request, Receive(r, q)
    PROVE  Inv'
<1> USE NoneAssumption DEF Inv, Receive, groupVars, friendVars
<1>1. /\ Entry(q) \in {"create", "find", "first", "end"}
      /\ Entry(q) = "create" => q.op = "create"
      /\ Entry(q) = "find" => q.op \in GroupOps \ {"create"}
      /\ Entry(q) = "first" => q.op \in FriendOps /\ (q.op = "add" => q.me # q.other)
  BY DEF Entry, Request, GroupOps, FriendOps
<1>2. TypeOK'
  BY <1>1 DEF TypeOK, Labels
<1>3. Places' /\ Lock'
  BY <1>1 DEF Places, Lock, TypeOK, InTransaction
<1>4. Transaction' /\ Creating' /\ Symmetric(friends)'
  BY <1>1 DEF Transaction, One, Both, Changed, Symmetric, Creating, TypeOK
<1>5. CreatorIsMember' /\ ToldIsCreator'
  BY <1>1 DEF CreatorIsMember, ToldIsCreator, TypeOK, Places
<1> QED
  BY <1>2, <1>3, <1>4, <1>5

LEMMA InsertGroupStep ==
    ASSUME Inv, NEW r \in Requests, InsertGroup(r)
    PROVE  Inv'
<1> USE NoneAssumption DEF Inv, InsertGroup, End, Goto, friendVars
<1>0. req[r] \in Request /\ req[r].group \in Groups /\ req[r].me \in Users
  BY DEF Places, Request
<1>1. TypeOK'
  BY <1>0 DEF TypeOK, Labels
<1>2. Places' /\ Lock'
  BY <1>0 DEF Places, Lock, TypeOK, InTransaction
<1>3. Transaction' /\ Symmetric(friends)'
  BY <1>0 DEF Transaction, One, Both, Changed, Symmetric, TypeOK
<1>4. Creating' /\ ToldIsCreator'
  BY <1>0 DEF Creating, ToldIsCreator, TypeOK, Places, Request
<1>5. CreatorIsMember'
  BY <1>0 DEF CreatorIsMember, TypeOK
<1> QED
  BY <1>1, <1>2, <1>3, <1>4, <1>5

LEMMA InsertCreatorStep ==
    ASSUME Inv, NEW r \in Requests, InsertCreator(r)
    PROVE  Inv'
<1> USE NoneAssumption DEF Inv, InsertCreator, End, friendVars
<1>0. req[r] \in Request /\ req[r].group \in Groups /\ req[r].me \in Users
  BY DEF Places, Request
<1>1. TypeOK'
  BY <1>0 DEF TypeOK, Labels
<1>2. Places' /\ Lock'
  BY <1>0 DEF Places, Lock, TypeOK, InTransaction
<1>3. Transaction' /\ Symmetric(friends)'
  BY <1>0 DEF Transaction, One, Both, Changed, Symmetric, TypeOK
<1>4. Creating' /\ ToldIsCreator'
  BY <1>0 DEF Creating, ToldIsCreator, TypeOK, Places
<1>5. CreatorIsMember'
  BY <1>0 DEF CreatorIsMember, TypeOK, Creating
<1> QED
  BY <1>1, <1>2, <1>3, <1>4, <1>5

LEMMA FindGroupStep ==
    ASSUME Inv, NEW r \in Requests, FindGroup(r)
    PROVE  Inv'
<1> USE NoneAssumption DEF Inv, FindGroup, End, Goto, groupVars, friendVars
<1>1. TypeOK'
  BY DEF TypeOK, Labels
<1>2. Places' /\ Lock'
  BY DEF Places, Lock, TypeOK, InTransaction, GroupOps
<1>3. Transaction' /\ Symmetric(friends)'
  BY DEF Transaction, One, Both, Changed, Symmetric, TypeOK
<1>4. Creating' /\ ToldIsCreator' /\ CreatorIsMember'
  BY DEF Creating, ToldIsCreator, CreatorIsMember, TypeOK, Places
<1> QED
  BY <1>1, <1>2, <1>3, <1>4

LEMMA MembershipStep ==
    ASSUME Inv, NEW r \in Requests, JoinGroup(r) \/ LeaveGroup(r)
    PROVE  Inv'
<1> USE NoneAssumption DEF Inv, JoinGroup, LeaveGroup, End, friendVars
<1>0. req[r].group \in Groups /\ Subject(r) \in Users /\ req[r].op # "create"
  BY DEF Places, Request, Subject
<1>1. TypeOK'
  BY <1>0 DEF TypeOK, Labels
<1>2. Places' /\ Lock'
  BY DEF Places, Lock, TypeOK, InTransaction
<1>3. Transaction' /\ Symmetric(friends)'
  BY DEF Transaction, One, Both, Changed, Symmetric, TypeOK
<1>4. Creating' /\ ToldIsCreator'
  BY <1>0 DEF Creating, ToldIsCreator, TypeOK, Places
<1>5. CreatorIsMember'
  BY <1>0 DEF CreatorIsMember, TypeOK
<1> QED
  BY <1>1, <1>2, <1>3, <1>4, <1>5

LEMMA FirstDirectionStep ==
    ASSUME Inv, NEW r \in Requests, FirstDirection(r)
    PROVE  Inv'
<1> USE NoneAssumption DEF Inv, FirstDirection, Goto, groupVars
<1>0. req[r].me \in Users /\ req[r].other \in Users /\ r # None
  BY DEF Places, Request
<1>1. TypeOK'
  BY <1>0 DEF TypeOK, Labels, InTransaction, Changed
<1>2. Places' /\ Lock'
  BY <1>0 DEF Places, Lock, TypeOK, InTransaction
<1>3. Transaction' /\ Symmetric(friends)'
  BY <1>0 DEF Transaction, One, Both, Changed, Symmetric, TypeOK, Lock,
     InTransaction
<1>4. Creating' /\ ToldIsCreator' /\ CreatorIsMember'
  BY DEF Creating, ToldIsCreator, CreatorIsMember, TypeOK, Places
<1> QED
  BY <1>1, <1>2, <1>3, <1>4

LEMMA SecondDirectionStep ==
    ASSUME Inv, NEW r \in Requests, SecondDirection(r)
    PROVE  Inv'
<1> USE NoneAssumption DEF Inv, SecondDirection, Goto, groupVars
<1>0. /\ req[r].me \in Users /\ req[r].other \in Users /\ r # None
      /\ writer = r
      /\ req[r].op \in FriendOps
      /\ req[r].op = "add" => req[r].me # req[r].other
  BY DEF Places, Request, Lock, InTransaction
<1>1. TypeOK'
  BY <1>0 DEF TypeOK, Labels, InTransaction, Changed
<1>2. Places' /\ Lock'
  BY <1>0 DEF Places, Lock, TypeOK, InTransaction
<1>3. Symmetric(draft')
  <2>1. draft = Changed(friends, r, <<req[r].me, req[r].other>>)
    BY DEF Transaction, One
  <2>2. draft' = Changed(draft, r, <<req[r].other, req[r].me>>)
    OBVIOUS
  <2> DEFINE u == req[r].me
             v == req[r].other
  <2>3. CASE req[r].op = "add"
    <3>1. draft' = (friends \cup {<<u, v>>}) \cup {<<v, u>>}
      BY <2>1, <2>2, <2>3 DEF Changed
    <3>2. u # v
      BY <1>0, <2>3
    <3> QED
      BY <1>0, <3>1, <3>2 DEF Symmetric
  <2>4. CASE req[r].op = "remove"
    <3>1. draft' = (friends \ {<<u, v>>}) \ {<<v, u>>}
      BY <2>1, <2>2, <2>4 DEF Changed
    <3> QED
      BY <1>0, <3>1 DEF Symmetric
  <2> QED
    BY <1>0, <2>3, <2>4 DEF FriendOps
<1>4. Transaction' /\ Symmetric(friends)'
  <2>1. \A s \in Requests : s # r => pc'[s] \notin InTransaction
    BY <1>0 DEF Lock, TypeOK
  <2>2. pc'[r] # "second"
    BY DEF TypeOK
  <2>3. draft' = Both(r)'
    BY DEF Transaction, Both, One, Changed
  <2> QED
    BY <1>3, <2>1, <2>2, <2>3 DEF Transaction, InTransaction, Symmetric
<1>5. Creating' /\ ToldIsCreator' /\ CreatorIsMember'
  BY DEF Creating, ToldIsCreator, CreatorIsMember, TypeOK, Places
<1> QED
  BY <1>1, <1>2, <1>4, <1>5

LEMMA EndOfTransactionStep ==
    ASSUME Inv, NEW r \in Requests, Commit(r) \/ Rollback(r)
    PROVE  Inv'
<1> USE NoneAssumption DEF Inv, Commit, Rollback, End, groupVars
<1>0. r # None /\ writer = r /\ req[r].op \in FriendOps
  BY DEF Lock, InTransaction, Places
<1>1. TypeOK'
  BY <1>0 DEF TypeOK, Labels
<1>2. Places' /\ Lock'
  BY <1>0 DEF Places, Lock, TypeOK, InTransaction
<1>3. Transaction' /\ Symmetric(friends)'
  <2>1. \A s \in Requests : pc'[s] \notin InTransaction
    BY <1>0 DEF Lock, TypeOK, InTransaction
  <2>2. Symmetric(friends)'
    BY DEF Transaction, Symmetric
  <2> QED
    BY <2>1, <2>2 DEF Transaction, InTransaction
<1>4. Creating' /\ ToldIsCreator' /\ CreatorIsMember'
  BY <1>0 DEF Creating, ToldIsCreator, CreatorIsMember, TypeOK, Places, FriendOps
<1> QED
  BY <1>1, <1>2, <1>3, <1>4

LEMMA FailStep ==
    ASSUME Inv, NEW r \in Requests, Fail(r)
    PROVE  Inv'
<1> USE NoneAssumption DEF Inv, Fail, End, Goto, friendVars
<1>0. req[r] \in Request /\ req[r].group \in Groups
  BY DEF Places, Request
<1>1. TypeOK'
  BY <1>0 DEF TypeOK, Labels, InTransaction
<1>2. Places' /\ Lock'
  BY DEF Places, Lock, TypeOK, InTransaction
<1>3. Transaction' /\ Symmetric(friends)'
  BY DEF Transaction, One, Both, Changed, Symmetric, TypeOK, InTransaction
<1>4. Creating' /\ ToldIsCreator'
  BY DEF Creating, ToldIsCreator, TypeOK, Places
<1>5. CreatorIsMember'
  BY <1>0 DEF CreatorIsMember, TypeOK
<1> QED
  BY <1>1, <1>2, <1>3, <1>4, <1>5

LEMMA CrashStep ==
    ASSUME Inv, Crash
    PROVE  Inv'
<1> USE NoneAssumption DEF Inv, Crash
<1>1. TypeOK'
  BY DEF TypeOK, Labels, Places, Request
<1>2. Places' /\ Lock'
  BY DEF Places, Lock, TypeOK, InTransaction
<1>3. Transaction' /\ Symmetric(friends)'
  BY DEF Transaction, Symmetric
<1>4. Creating' /\ ToldIsCreator'
  BY DEF Creating, ToldIsCreator
<1>5. CreatorIsMember'
  BY DEF CreatorIsMember
<1> QED
  BY <1>1, <1>2, <1>3, <1>4, <1>5

LEMMA InvStep == Inv /\ [Next]_vars => Inv'
<1> SUFFICES ASSUME Inv, [Next]_vars
             PROVE  Inv'
  OBVIOUS
<1>1. ASSUME NEW r \in Requests, Handle(r)
      PROVE  Inv'
  BY <1>1, InsertGroupStep, InsertCreatorStep, FindGroupStep, MembershipStep,
     FirstDirectionStep, SecondDirectionStep, EndOfTransactionStep, FailStep
     DEF Handle
<1>2. ASSUME NEW r \in Requests, NEW q \in Request, Receive(r, q)
      PROVE  Inv'
  BY <1>2, ReceiveStep
<1>3. CASE Crash
  BY <1>3, CrashStep
<1>4. CASE UNCHANGED vars
  BY <1>4 DEF vars, Inv, TypeOK, Places, Lock, Symmetric, Transaction, One, Both, Changed, Creating,
         CreatorIsMember, ToldIsCreator
<1> QED
  BY <1>1, <1>2, <1>3, <1>4 DEF Next

LEMMA InvAlways == Spec => []Inv
BY InvInit, InvStep, PTL DEF Spec

\* AddFriend and RemoveFriend keep the friendship in both directions, and their write
\* lock is always held by a handler that is still inside its transaction.
THEOREM Friendship == Spec => [](FriendsSymmetric /\ WriterIsBusy)
<1>1. Inv => FriendsSymmetric /\ WriterIsBusy
  BY DEF Inv, Lock, WriterIsBusy, FriendsSymmetric, Symmetric
<1> QED
  BY <1>1, InvAlways, PTL

\* CreateGroup: the user who is told "ok" is the creator, and the creator is a member
\* unless he left or the creation was cut off between its two inserts.
THEOREM Creation == Spec => [](CreatorIsMember /\ ToldIsCreator)
<1>1. Inv => CreatorIsMember /\ ToldIsCreator
  BY DEF Inv
<1> QED
  BY <1>1, InvAlways, PTL

\* What a request asks for does not change, and a request to end it is not forgotten.
LEMMA StillAsked ==
    ASSUME Inv, [Next]_vars, NEW r \in Requests, pc[r] # "new"
    PROVE  /\ req'[r] = req[r] /\ pc'[r] # "new" /\ Subject(r)' = Subject(r)
           /\ EndAsked(r) => EndAsked(r)'
           /\ BreakAsked(r) => BreakAsked(r)'
<1>1. ASSUME NEW s \in Requests, pc[s] # "new"
      PROVE  req'[s] = req[s] /\ pc'[s] # "new" /\ Subject(s)' = Subject(s)
  <2>1. req'[s] = req[s] /\ pc'[s] # "new"
    BY <1>1 DEF Next, Handle, Receive, InsertGroup, InsertCreator, FindGroup, JoinGroup,
           LeaveGroup, FirstDirection, SecondDirection, Commit, Rollback, Fail, Crash,
           End, Goto, vars, Inv, TypeOK
  <2> QED
    BY <2>1 DEF Subject
<1>2. EndAsked(r) => EndAsked(r)'
  BY <1>1 DEF EndAsked, Received
<1>3. BreakAsked(r) => BreakAsked(r)'
  BY <1>1 DEF BreakAsked, Received
<1> QED
  BY <1>1, <1>2, <1>3

\* Only LeaveGroup takes a member away, and the one it was asked to.
LEMMA LosingMember ==
    ASSUME Inv, [Next]_vars, NEW g \in Groups, NEW u, u \in members[g], u \notin members'[g]
    PROVE  \E s \in Requests : pc[s] = "leave" /\ req[s].group = g /\ Subject(s) = u
<1>1. ASSUME NEW s \in Requests, InsertCreator(s) \/ JoinGroup(s)
      PROVE  FALSE
  BY <1>1 DEF InsertCreator, JoinGroup, Inv, TypeOK
<1>2. members' # members
  OBVIOUS
<1>3. PICK s \in Requests : LeaveGroup(s)
  BY <1>1, <1>2 DEF Next, Handle, Receive, InsertGroup, FindGroup, FirstDirection,
         SecondDirection, Commit, Rollback, Fail, Crash, groupVars, vars
<1>4. pc[s] = "leave" /\ members' = [members EXCEPT ![req[s].group] = @ \ {Subject(s)}]
  BY <1>2, <1>3 DEF LeaveGroup
<1> QED
  BY <1>4 DEF Inv, TypeOK

\* Only the commit of a RemoveFriend takes a friendship away, and the one it was asked to.
LEMMA LosingFriend ==
    ASSUME Inv, [Next]_vars, NEW u, NEW v, <<u, v>> \in friends, <<u, v>> \notin friends'
    PROVE  \E s \in Requests :
              /\ pc[s] = "commit" /\ req[s].op = "remove"
              /\ \/ req[s].me = u /\ req[s].other = v
                 \/ req[s].me = v /\ req[s].other = u
<1>1. PICK s \in Requests : Commit(s)
  BY DEF Next, Handle, Receive, InsertGroup, InsertCreator, FindGroup, JoinGroup, LeaveGroup,
         FirstDirection, SecondDirection, Rollback, Fail, Crash, friendVars, vars
<1>2. friends' = Both(s) /\ pc[s] = "commit" /\ req[s].op \in FriendOps
  BY <1>1 DEF Commit, Inv, Transaction, Places, InTransaction
<1> QED
  BY <1>2 DEF Both, One, Changed, FriendOps

\* The steps that answer "ok".
LEMMA Answering ==
    ASSUME Inv, [Next]_vars, NEW r \in Requests, answer[r] # "ok", answer'[r] = "ok"
    PROVE  InsertCreator(r) \/ JoinGroup(r) \/ LeaveGroup(r) \/ Commit(r)
<1>1. ASSUME NEW s \in Requests, NEW q, Receive(s, q)
      PROVE  FALSE
  BY <1>1, NoneAssumption DEF Receive, Inv, TypeOK
<1>2. ASSUME NEW s \in Requests, InsertGroup(s) \/ FindGroup(s) \/ Rollback(s) \/ Fail(s)
      PROVE  FALSE
  BY <1>2 DEF InsertGroup, FindGroup, Rollback, Fail, End, Goto, Inv, TypeOK
<1>3. answer' # answer
  OBVIOUS
<1>4. PICK s \in Requests : InsertCreator(s) \/ JoinGroup(s) \/ LeaveGroup(s) \/ Commit(s)
  BY <1>1, <1>2, <1>3 DEF Next, Handle, FirstDirection, SecondDirection, Crash, Goto, vars
<1>5. s = r
  BY <1>4 DEF InsertCreator, JoinGroup, LeaveGroup, Commit, End, Inv, TypeOK
<1> QED
  BY <1>4, <1>5

LEMMA DurableStep ==
    ASSUME Inv, AcknowledgedIsDurable, [Next]_vars
    PROVE  AcknowledgedIsDurable'
<1> SUFFICES ASSUME NEW r \in Requests, answer'[r] = "ok"
             PROVE  MembershipKept(r)' /\ FriendshipKept(r)'
  BY DEF AcknowledgedIsDurable
<1>1. CASE answer[r] = "ok"
  <2>0. pc[r] # "new" /\ req[r] \in Request /\ req[r].group \in Groups
    BY <1>1, NoneAssumption DEF Inv, Places, Request
  <2>1. MembershipKept(r)'
    <3>1. CASE EndAsked(r)
      BY <2>0, <3>1, StillAsked DEF MembershipKept
    <3>2. CASE ~EndAsked(r)
      <4>1. \A s \in Requests :
              ~(pc[s] = "leave" /\ req[s].group = req[r].group /\ Subject(s) = Subject(r))
        BY <3>2 DEF EndAsked, Received, Inv, Places
      <4>2. MembershipKept(r)
        BY <1>1 DEF AcknowledgedIsDurable
      <4> QED
        BY <2>0, <3>2, <4>1, <4>2, StillAsked, LosingMember DEF MembershipKept
    <3> QED
      BY <3>1, <3>2
  <2>2. FriendshipKept(r)'
    <3>1. CASE BreakAsked(r)
      BY <2>0, <3>1, StillAsked DEF FriendshipKept
    <3>2. CASE ~BreakAsked(r)
      <4>1. \A s \in Requests :
              ~(/\ pc[s] = "commit" /\ req[s].op = "remove"
                /\ \/ req[s].me = req[r].me /\ req[s].other = req[r].other
                   \/ req[s].me = req[r].other /\ req[s].other = req[r].me)
        BY <3>2 DEF BreakAsked, Received
      <4>2. FriendshipKept(r)
        BY <1>1 DEF AcknowledgedIsDurable
      <4> QED
        BY <2>0, <3>2, <4>1, <4>2, StillAsked, LosingFriend DEF FriendshipKept
    <3> QED
      BY <3>1, <3>2
  <2> QED
    BY <2>1, <2>2
<1>2. CASE answer[r] # "ok"
  <2>0. InsertCreator(r) \/ JoinGroup(r) \/ LeaveGroup(r) \/ Commit(r)
    BY <1>2, Answering
  <2>1. /\ pc[r] # "new" /\ req[r] \in Request /\ req[r].group \in Groups
        /\ req'[r] = req[r] /\ Subject(r)' = Subject(r)
    BY <2>0, StillAsked DEF InsertCreator, JoinGroup, LeaveGroup, Commit, Inv, Places, Request
  <2>2. CASE InsertCreator(r) \/ JoinGroup(r)
    <3>1. Subject(r) \in members'[req[r].group] /\ req[r].op # "add"
      BY <2>1, <2>2 DEF InsertCreator, JoinGroup, Subject, Inv, TypeOK, Places
    <3> QED
      BY <2>1, <3>1 DEF MembershipKept, FriendshipKept
  <2>3. CASE LeaveGroup(r)
    BY <2>1, <2>3 DEF LeaveGroup, MembershipKept, FriendshipKept, Inv, Places
  <2>4. CASE Commit(r)
    <3>1. friends' = Both(r) /\ req[r].op \in FriendOps
      BY <2>4 DEF Commit, Inv, Transaction, Places, InTransaction
    <3> QED
      BY <2>1, <3>1 DEF MembershipKept, FriendshipKept, Both, One, Changed, FriendOps
  <2> QED
    BY <2>0, <2>2, <2>3, <2>4
<1> QED
  BY <1>1, <1>2

\* What a client was told is done stays done, whatever overlaps with it or fails after it,
\* until somebody asks to undo it.
THEOREM Durable == Spec => []AcknowledgedIsDurable
<1>1. Init => AcknowledgedIsDurable
  BY NoneAssumption DEF Init, AcknowledgedIsDurable
<1>2. Inv /\ AcknowledgedIsDurable /\ [Next]_vars => AcknowledgedIsDurable'
  BY DurableStep
<1> QED
  BY <1>1, <1>2, InvAlways, PTL DEF Spec
=============================================================================
