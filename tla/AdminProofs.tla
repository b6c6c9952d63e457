---------------------------- MODULE AdminProofs ----------------------------
(***************************************************************************)
(* Proofs about the admin console (Admin, one section for each module it   *)
(* composes) and about the roles behind it (AdminRoles, the last section). *)
(***************************************************************************)
EXTENDS AdminRoles, Admin, FiniteSetTheorems, FunctionTheorems, SequenceTheorems, TLAPS

(***************************************************************************)
(* Approvals and their mails (routes/admin.ts, routes/resendWebhook.ts).   *)
(***************************************************************************)

\* The handlers that have given u the right and have still to tell him.
Telling(u) == {r \in Handler : task[r].pc = "tell" /\ task[r].user = u}

\* Every mail that was sent, or will be, has a reason of its own.
MailsDue ==
    /\ \A r \in Handler : task[r].pc # "idle" => /\ task[r].user \in Person
                                                 /\ task[r].way = "panel" \/ ~task[r].saw
    /\ \A u \in Person : /\ IsFiniteSet(Telling(u))
                         /\ told[u] + Cardinality(Telling(u)) <= due[u]

\* The mail's bounce has been looked at: a handler has it behind it, or the provider knows.
Seen(m) == \/ \E h \in Hook : hook[h].pc = "reply" /\ hook[h].mail = m /\ hook[h].event \in Approval!Bad
           \/ Approval!Bounced(m)

\* An event in hand is one the provider has posted, a row is written once, and a bounce looked at
\* is in the log or excused.
BouncesLogged ==
    /\ \A h \in Hook : hook[h].pc # "idle" => /\ hook[h].mail \in Mail
                                              /\ hook[h].event \in fate[hook[h].mail]
    /\ \A h \in Hook : hook[h].pc = "update" => Approval!Known(hook[h].mail)
    /\ \A m \in Mail : event[m] \subseteq fate[m] /\ (mail[m] # "done" => log[m] = None)
    /\ \A m \in Mail : Seen(m) => log[m] = "BOUNCED" \/ m \in excused

ApprovalsIInv == Approval!TypeOK /\ MailsDue /\ BouncesLogged

ApprovalsInductive == part = "approvals" => ApprovalsIInv

LEMMA ApprovalsStarts == AdminInit /\ part = "approvals" => Approval!Init
  BY DEF AdminInit

LEMMA ApprovalsMoves ==
  ASSUME [AdminNext]_administration, part' = "approvals"
  PROVE  part = "approvals" /\ [Approval!Next]_(Approval!vars)
<1>1. CASE UNCHANGED administration
  BY <1>1 DEF administration, Approval!vars, Approval!panel, Approval!post
<1>2. CASE AdminNext
  BY <1>2 DEF AdminNext
<1> QED BY <1>1, <1>2

LEMMA ApprovalsConstants ==
  MaxGrants \in Nat /\ MaxAgain \in Nat /\ None \notin Person /\ None \notin Approval!Status
  BY ApprovalAssumption DEF Approval!ApprovalsAssumption, Approval!Status

LEMMA ApprovalsInit == Approval!Init => ApprovalsIInv
<1> SUFFICES ASSUME Approval!Init PROVE ApprovalsIInv
  OBVIOUS
<1>1. Approval!TypeOK
  <2>1. 0 \in 0..MaxGrants /\ 0 \in 0..MaxAgain
    BY ApprovalsConstants
  <2>2. Approval!IdleJob \in [pc : {"idle", "grant", "tell"}, user : Person \cup {None},
                              way : Approval!Way, saw : BOOLEAN]
    BY DEF Approval!IdleJob, Approval!Way
  <2>3. Approval!IdleHook \in [pc : {"idle", "update", "reply"}, mail : Mail \cup {None},
                               event : Approval!Event]
    BY DEF Approval!IdleHook, Approval!Event
  <2> QED BY <2>1, <2>2, <2>3 DEF Approval!Init, Approval!TypeOK
<1>2. MailsDue
  <2>1. \A r \in Handler : task[r].pc = "idle"
    BY DEF Approval!Init, Approval!IdleJob
  <2>2. \A u \in Person : Telling(u) = {}
    BY <2>1 DEF Telling
  <2> QED BY <2>1, <2>2, FS_EmptySet DEF MailsDue, Approval!Init
<1>3. BouncesLogged
  <2>1. \A h \in Hook : hook[h].pc = "idle"
    BY DEF Approval!Init, Approval!IdleHook
  <2>2. \A m \in Mail : fate[m] = {} /\ event[m] = {} /\ log[m] = None
    BY DEF Approval!Init
  <2> QED BY <2>1, <2>2 DEF BouncesLogged, Seen, Approval!Bounced
<1> QED BY <1>1, <1>2, <1>3 DEF ApprovalsIInv

LEMMA Bumped ==
  ASSUME NEW S, NEW f \in [S -> Nat], NEW x
  PROVE  [f EXCEPT ![x] = @ + 1] \in [S -> Nat]
<1>1. CASE x \in S
  BY <1>1
<1>2. CASE x \notin S
  BY <1>2
<1> QED BY <1>1, <1>2

LEMMA ApprovalsType ==
  ASSUME Approval!TypeOK, BouncesLogged, [Approval!Next]_(Approval!vars)
  PROVE  Approval!TypeOK'
<1> USE ApprovalsConstants DEF Approval!TypeOK, Approval!panel, Approval!post
<1>1. ASSUME NEW r \in Handler, NEW u \in Person, NEW way \in Approval!Way,
             Approval!AskApprove(r, u, way)
      PROVE  Approval!TypeOK'
  <2>1. [pc |-> "grant", user |-> u, way |-> way, saw |-> right[u]]
          \in [pc : {"idle", "grant", "tell"}, user : Person \cup {None},
               way : Approval!Way, saw : BOOLEAN]
    OBVIOUS
  <2>2. grants' \in 0..MaxGrants
    BY <1>1 DEF Approval!AskApprove
  <2> QED BY <1>1, <2>1, <2>2 DEF Approval!AskApprove
<1>2. ASSUME NEW r \in Handler, Approval!Grant(r) PROVE Approval!TypeOK'
  <2>1. due' \in [Person -> Nat]
    <3>1. due \in [Person -> Nat] /\ (due' = due \/ due' = [due EXCEPT ![task[r].user] = @ + 1])
      BY <1>2 DEF Approval!Grant
    <3> QED BY <3>1, Bumped
  <2>2. right' \in [Person -> BOOLEAN]
    BY <1>2 DEF Approval!Grant
  <2>3. task' \in [Handler -> [pc : {"idle", "grant", "tell"}, user : Person \cup {None},
                               way : Approval!Way, saw : BOOLEAN]]
    BY <1>2 DEF Approval!Grant
  <2> QED BY <1>2, <2>1, <2>2, <2>3 DEF Approval!Grant
<1>3. ASSUME NEW r \in Handler, Approval!Tell(r) \/ Approval!Fail(r) PROVE Approval!TypeOK'
  <2>1. Approval!IdleJob \in [pc : {"idle", "grant", "tell"}, user : Person \cup {None},
                              way : Approval!Way, saw : BOOLEAN]
    BY DEF Approval!IdleJob, Approval!Way
  <2>2. CASE Approval!Tell(r)
    <3>1. told \in [Person -> Nat] /\ told' = [told EXCEPT ![task[r].user] = @ + 1]
      BY <2>2 DEF Approval!Tell
    <3>2. told' \in [Person -> Nat]
      BY <3>1, Bumped
    <3>3. mail' \in [Mail -> {"unsent", "sending", "sent", "failed", "done"}]
      BY <2>2 DEF Approval!Tell
    <3> QED BY <2>1, <2>2, <3>2, <3>3 DEF Approval!Tell
  <2>3. CASE Approval!Fail(r)
    BY <2>1, <2>3 DEF Approval!Fail
  <2> QED BY <1>3, <2>2, <2>3
<1>4. ASSUME NEW u \in Person, Approval!Unapprove(u) \/ Approval!Trash(u) PROVE Approval!TypeOK'
  BY <1>4 DEF Approval!Unapprove, Approval!Trash
<1>5. ASSUME NEW m \in Mail, Approval!Accept(m) PROVE Approval!TypeOK'
  <2>1. PICK f \in SUBSET Approval!Event : /\ fate' = [fate EXCEPT ![m] = f]
                                           /\ event' = [event EXCEPT ![m] = f]
    BY <1>5 DEF Approval!Accept, Approval!Event
  <2>2. fate' \in [Mail -> SUBSET Approval!Event] /\ event' \in [Mail -> SUBSET Approval!Event]
    BY <2>1
  <2> QED BY <1>5, <2>2 DEF Approval!Accept
<1>6. ASSUME NEW m \in Mail, Approval!Sends(m) PROVE Approval!TypeOK'
  BY <1>6 DEF Approval!Sends, Approval!Answered, Approval!GivesUp, Approval!Record, Approval!Status
<1>7. ASSUME NEW m \in Mail, NEW h \in Hook, NEW e \in Approval!Event, Approval!Post(h, m, e)
      PROVE  Approval!TypeOK'
  <2>1. [pc |-> IF Approval!Known(m) THEN "update" ELSE "reply", mail |-> m, event |-> e]
          \in [pc : {"idle", "update", "reply"}, mail : Mail \cup {None}, event : Approval!Event]
    OBVIOUS
  <2> QED BY <1>7, <2>1 DEF Approval!Post
<1>8. ASSUME NEW h \in Hook, Approval!Update(h) PROVE Approval!TypeOK'
  <2>1. Approval!StatusOf(hook[h].event) \in Approval!Status
    BY DEF Approval!StatusOf, Approval!Status
  <2>2. log' \in [Mail -> Approval!Status \cup {None}]
    BY <1>8, <2>1 DEF Approval!Update
  <2>3. hook' \in [Hook -> [pc : {"idle", "update", "reply"}, mail : Mail \cup {None},
                            event : Approval!Event]]
    BY <1>8 DEF Approval!Update
  <2>4. excused' \subseteq Mail
    <3>1. hook[h].pc = "update" => hook[h].mail \in Mail
      BY DEF BouncesLogged
    <3>2. excused' \in {excused, excused \ {hook[h].mail}, excused \cup {hook[h].mail}}
      BY <1>8 DEF Approval!Update
    <3> QED BY <1>8, <3>1, <3>2 DEF Approval!Update
  <2> QED BY <1>8, <2>2, <2>3, <2>4 DEF Approval!Update
<1>9. ASSUME NEW h \in Hook, Approval!Reply(h) \/ Approval!HookFails(h) PROVE Approval!TypeOK'
  <2>1. Approval!IdleHook \in [pc : {"idle", "update", "reply"}, mail : Mail \cup {None},
                               event : Approval!Event]
    BY DEF Approval!IdleHook, Approval!Event
  <2>2. CASE Approval!Reply(h)
    <3>1. again' \in 0..MaxAgain
      BY <2>2 DEF Approval!Reply
    <3>2. event' \in [Mail -> SUBSET Approval!Event]
      BY <2>2 DEF Approval!Reply
    <3>3. hook' \in [Hook -> [pc : {"idle", "update", "reply"}, mail : Mail \cup {None},
                              event : Approval!Event]]
      BY <2>1, <2>2 DEF Approval!Reply
    <3> QED BY <2>2, <3>1, <3>2, <3>3 DEF Approval!Reply
  <2>3. CASE Approval!HookFails(h)
    BY <2>1, <2>3 DEF Approval!HookFails
  <2> QED BY <1>9, <2>2, <2>3
<1>10. CASE UNCHANGED Approval!vars
  BY <1>10 DEF Approval!vars
<1> QED BY <1>1, <1>2, <1>3, <1>4, <1>5, <1>6, <1>7, <1>8, <1>9, <1>10
         DEF Approval!Next, Approval!Serves

\* The handlers that have still to tell somebody, when one handler's state changes.
LEMMA TellingMoves ==
  ASSUME task \in [Handler -> [pc : {"idle", "grant", "tell"}, user : Person \cup {None},
                               way : Approval!Way, saw : BOOLEAN]],
         NEW r \in Handler, NEW j, task' = [task EXCEPT ![r] = j], NEW u \in Person
  PROVE  /\ j.pc = "tell" /\ j.user = u => Telling(u)' = Telling(u) \cup {r}
         /\ ~(j.pc = "tell" /\ j.user = u) => Telling(u)' = Telling(u) \ {r}
  BY DEF Telling

LEMMA MailsStep ==
  ASSUME Approval!TypeOK, MailsDue, [Approval!Next]_(Approval!vars)
  PROVE  MailsDue'
<1>t. /\ task \in [Handler -> [pc : {"idle", "grant", "tell"}, user : Person \cup {None},
                               way : Approval!Way, saw : BOOLEAN]]
      /\ told \in [Person -> Nat] /\ due \in [Person -> Nat] /\ right \in [Person -> BOOLEAN]
  BY DEF Approval!TypeOK
<1>k. \A u \in Person : IsFiniteSet(Telling(u)) /\ told[u] + Cardinality(Telling(u)) <= due[u]
  BY DEF MailsDue
<1>l. ASSUME NEW r \in Handler, NEW u \in Person
      PROVE  /\ IsFiniteSet(Telling(u) \ {r}) /\ told[u] + Cardinality(Telling(u) \ {r}) <= due[u]
             /\ r \in Telling(u) => told[u] + 1 + Cardinality(Telling(u) \ {r}) <= due[u]
             /\ IsFiniteSet(Telling(u) \cup {r})
             /\ told[u] + Cardinality(Telling(u) \cup {r}) <= due[u] + 1
  <2>1. IsFiniteSet(Telling(u)) /\ Cardinality(Telling(u)) \in Nat
    BY <1>k, FS_CardinalityType
  <2>2. /\ IsFiniteSet(Telling(u) \ {r})
        /\ Cardinality(Telling(u) \ {r}) = IF r \in Telling(u) THEN Cardinality(Telling(u)) - 1
                                           ELSE Cardinality(Telling(u))
    BY <2>1, FS_RemoveElement
  <2>3. /\ IsFiniteSet(Telling(u) \cup {r})
        /\ Cardinality(Telling(u) \cup {r}) = IF r \in Telling(u) THEN Cardinality(Telling(u))
                                              ELSE Cardinality(Telling(u)) + 1
    BY <2>1, FS_AddElement
  <2>4. told[u] \in Nat /\ due[u] \in Nat /\ told[u] + Cardinality(Telling(u)) <= due[u]
    BY <1>t, <1>k
  <2> QED BY <2>1, <2>2, <2>3, <2>4
<1>1. ASSUME NEW r \in Handler, NEW u \in Person, NEW way \in Approval!Way,
             Approval!AskApprove(r, u, way)
      PROVE  MailsDue'
  <2> DEFINE j == [pc |-> "grant", user |-> u, way |-> way, saw |-> right[u]]
  <2>1. task' = [task EXCEPT ![r] = j] /\ UNCHANGED <<told, due>>
    BY <1>1 DEF Approval!AskApprove
  <2>2. j.pc = "grant" /\ j.user \in Person /\ (j.way = "panel" \/ ~j.saw)
    BY <1>1 DEF Approval!AskApprove, Approval!Refused
  <2> HIDE DEF j
  <2>3. \A v \in Person : Telling(v)' = Telling(v) \ {r}
    BY <1>t, <2>1, <2>2, TellingMoves
  <2>4. \A x \in Handler : task'[x] = IF x = r THEN j ELSE task[x]
    BY <1>t, <2>1
  <2>5. \A x \in Handler : task'[x].pc # "idle" =>
                             task'[x].user \in Person /\ (task'[x].way = "panel" \/ ~task'[x].saw)
    BY <2>2, <2>4 DEF MailsDue
  <2>6. \A v \in Person : IsFiniteSet(Telling(v)') /\ told'[v] + Cardinality(Telling(v)') <= due'[v]
    BY <1>l, <2>1, <2>3
  <2> QED BY <2>5, <2>6 DEF MailsDue
<1>2. ASSUME NEW r \in Handler, Approval!Grant(r) PROVE MailsDue'
  <2>1. task' = [task EXCEPT ![r] = [task[r] EXCEPT !.pc = "tell"]] /\ told' = told
    BY <1>2 DEF Approval!Grant
  <2>2. task[r].user \in Person /\ due' = [due EXCEPT ![task[r].user] = @ + 1]
    BY <1>2 DEF Approval!Grant, MailsDue
  <2>3. PICK j : /\ j = [task[r] EXCEPT !.pc = "tell"]
                 /\ j.pc = "tell" /\ j.user = task[r].user /\ j.way = task[r].way /\ j.saw = task[r].saw
    <3>1. task[r] \in [pc : {"idle", "grant", "tell"}, user : Person \cup {None},
                       way : Approval!Way, saw : BOOLEAN]
      BY <1>t
    <3>2. \A i \in [pc : {"idle", "grant", "tell"}, user : Person \cup {None},
                    way : Approval!Way, saw : BOOLEAN] :
            LET k == [i EXCEPT !.pc = "tell"]
            IN  k.pc = "tell" /\ k.user = i.user /\ k.way = i.way /\ k.saw = i.saw
      OBVIOUS
    <3> QED BY <3>1, <3>2
  <2>4. task' = [task EXCEPT ![r] = j]
    BY <2>1, <2>3
  <2>5. \A x \in Handler : task'[x] = IF x = r THEN j ELSE task[x]
    BY <1>t, <2>4
  <2>6. \A x \in Handler : task'[x].pc # "idle" =>
                             task'[x].user \in Person /\ (task'[x].way = "panel" \/ ~task'[x].saw)
    BY <1>2, <2>3, <2>5 DEF MailsDue, Approval!Grant
  <2>7. ASSUME NEW v \in Person
        PROVE  IsFiniteSet(Telling(v)') /\ told'[v] + Cardinality(Telling(v)') <= due'[v]
    <3>1. CASE v = task[r].user
      <4>1. Telling(v)' = Telling(v) \cup {r}
        BY <1>t, <2>3, <2>4, <3>1, TellingMoves
      <4>2. due'[v] = due[v] + 1 /\ told'[v] = told[v]
        BY <1>t, <2>1, <2>2, <3>1
      <4> QED BY <1>l, <4>1, <4>2
    <3>2. CASE v # task[r].user
      <4>1. Telling(v)' = Telling(v) \ {r}
        BY <1>t, <2>3, <2>4, <3>2, TellingMoves
      <4>2. due'[v] = due[v] /\ told'[v] = told[v]
        BY <1>t, <2>1, <2>2, <3>2
      <4> QED BY <1>l, <4>1, <4>2
    <3> QED BY <3>1, <3>2
  <2> QED BY <2>6, <2>7 DEF MailsDue
<1>3. ASSUME NEW r \in Handler, task[r].pc # "idle", task' = [task EXCEPT ![r] = Approval!IdleJob],
             due' = due,
             \/ task[r].pc = "tell" /\ told' = [told EXCEPT ![task[r].user] = @ + 1]
             \/ told' = told
      PROVE  MailsDue'
  <2>1. PICK j : j = Approval!IdleJob /\ j.pc = "idle"
    <3>1. Approval!IdleJob.pc = "idle"
      BY DEF Approval!IdleJob
    <3> QED BY <3>1
  <2>2. task' = [task EXCEPT ![r] = j]
    BY <1>3, <2>1
  <2>3. \A v \in Person : Telling(v)' = Telling(v) \ {r}
    BY <1>t, <2>1, <2>2, TellingMoves
  <2>4. \A x \in Handler : task'[x] = IF x = r THEN j ELSE task[x]
    BY <1>t, <2>2
  <2>5. \A x \in Handler : task'[x].pc # "idle" =>
                             task'[x].user \in Person /\ (task'[x].way = "panel" \/ ~task'[x].saw)
    BY <2>1, <2>4 DEF MailsDue
  <2>6. ASSUME NEW v \in Person
        PROVE  IsFiniteSet(Telling(v)') /\ told'[v] + Cardinality(Telling(v)') <= due'[v]
    <3>1. CASE told' = told
      BY <1>l, <1>3, <2>3, <3>1
    <3>2. CASE task[r].pc = "tell" /\ told' = [told EXCEPT ![task[r].user] = @ + 1]
      <4>1. CASE v = task[r].user
        <5>1. r \in Telling(v) /\ told'[v] = told[v] + 1
          BY <1>t, <3>2, <4>1 DEF Telling
        <5> QED BY <1>l, <1>3, <2>3, <5>1
      <4>2. CASE v # task[r].user
        <5>1. told'[v] = told[v]
          BY <1>t, <3>2, <4>2
        <5> QED BY <1>l, <1>3, <2>3, <5>1
      <4> QED BY <4>1, <4>2
    <3> QED BY <1>3, <3>1, <3>2
  <2> QED BY <2>5, <2>6 DEF MailsDue
<1>4. ASSUME UNCHANGED <<task, told, due>> PROVE MailsDue'
  BY <1>4 DEF MailsDue, Telling
<1>5. ASSUME NEW r \in Handler, Approval!Tell(r) \/ Approval!Fail(r) PROVE MailsDue'
  BY <1>3, <1>5 DEF Approval!Tell, Approval!Fail
<1> QED
  <2>1. ASSUME \/ \E u \in Person : Approval!Unapprove(u) \/ Approval!Trash(u)
               \/ \E m \in Mail : \/ Approval!Accept(m) \/ Approval!Sends(m)
                                  \/ \E h \in Hook, e \in Approval!Event : Approval!Post(h, m, e)
               \/ \E h \in Hook : Approval!Serves(h) \/ Approval!HookFails(h)
               \/ UNCHANGED Approval!vars
        PROVE  UNCHANGED <<task, told, due>>
    BY <2>1 DEF Approval!Unapprove, Approval!Trash, Approval!Accept, Approval!Sends, Approval!Answered,
                Approval!GivesUp, Approval!Record, Approval!Post, Approval!Serves, Approval!Update,
                Approval!Reply, Approval!HookFails, Approval!panel, Approval!vars
  <2> QED BY <1>1, <1>2, <1>4, <1>5, <2>1 DEF Approval!Next

LEMMA BouncesStep ==
  ASSUME Approval!TypeOK, BouncesLogged, [Approval!Next]_(Approval!vars)
  PROVE  BouncesLogged'
<1> USE DEF Approval!panel, Approval!post
<1>t. /\ log \in [Mail -> Approval!Status \cup {None}]
      /\ mail \in [Mail -> {"unsent", "sending", "sent", "failed", "done"}]
      /\ fate \in [Mail -> SUBSET Approval!Event] /\ event \in [Mail -> SUBSET Approval!Event]
      /\ hook \in [Hook -> [pc : {"idle", "update", "reply"}, mail : Mail \cup {None}, event : Approval!Event]]
  BY DEF Approval!TypeOK
<1>1. ASSUME UNCHANGED <<fate, event, hook, mail, log, excused>> PROVE BouncesLogged'
  BY <1>1 DEF BouncesLogged, Seen, Approval!Bounced, Approval!Known
<1>2. ASSUME NEW r \in Handler, Approval!Tell(r) PROVE BouncesLogged'
  <2>1. /\ UNCHANGED <<fate, event, hook, log, excused>>
        /\ mail' = mail \/ \E m \in Mail : mail[m] = "unsent" /\ mail' = [mail EXCEPT ![m] = "sending"]
    BY <1>2 DEF Approval!Tell
  <2>2. \A m \in Mail : mail'[m] # "done" => mail[m] # "done"
    BY <1>t, <2>1
  <2> QED BY <2>1, <2>2 DEF BouncesLogged, Seen, Approval!Bounced, Approval!Known
<1>3. ASSUME NEW m \in Mail, Approval!Accept(m) PROVE BouncesLogged'
  <2>1. PICK f \in SUBSET Approval!Event : /\ fate' = [fate EXCEPT ![m] = f]
                                           /\ event' = [event EXCEPT ![m] = f]
    BY <1>3 DEF Approval!Accept, Approval!Event
  <2>2. UNCHANGED <<hook, mail, log, excused>> /\ fate[m] = {}
    BY <1>3 DEF Approval!Accept
  <2>3. \A x \in Mail : Seen(x)' => Seen(x)
    BY <1>t, <2>1, <2>2 DEF Seen, Approval!Bounced
  <2>4. \A h \in Hook : hook[h].pc # "idle" => hook[h].mail \in Mail /\ hook[h].event \in fate'[hook[h].mail]
    BY <1>t, <2>1, <2>2 DEF BouncesLogged
  <2>5. \A x \in Mail : event'[x] \subseteq fate'[x]
    BY <1>t, <2>1 DEF BouncesLogged
  <2> QED BY <2>2, <2>3, <2>4, <2>5 DEF BouncesLogged, Approval!Known
<1>4. ASSUME NEW m \in Mail, Approval!Sends(m) PROVE BouncesLogged'
  <2>1. UNCHANGED <<hook, fate, event, excused>> /\ \A x \in Mail : Seen(x)' => Seen(x)
    BY <1>4 DEF Approval!Sends, Approval!Answered, Approval!GivesUp, Approval!Record, Seen, Approval!Bounced
  <2>2. \A x \in Mail : log'[x] # log[x] => log[x] = None /\ mail'[x] = "done"
    BY <1>t, <1>4 DEF Approval!Sends, Approval!Answered, Approval!GivesUp, Approval!Record, BouncesLogged
  <2>3. \A x \in Mail : mail'[x] # "done" => mail[x] # "done"
    BY <1>t, <1>4 DEF Approval!Sends, Approval!Answered, Approval!GivesUp, Approval!Record
  <2>4. \A h \in Hook : hook[h].pc = "update" => log'[hook[h].mail] = log[hook[h].mail]
    BY <1>t, <2>2, ApprovalsConstants DEF BouncesLogged, Approval!Known, Approval!Status
  <2>5. \A x \in Mail : log[x] = "BOUNCED" => log'[x] = "BOUNCED"
    BY <2>2, ApprovalsConstants DEF Approval!Status
  <2> QED BY <2>1, <2>2, <2>3, <2>4, <2>5 DEF BouncesLogged, Approval!Known
<1>5. ASSUME NEW m \in Mail, NEW h \in Hook, NEW e \in Approval!Event, Approval!Post(h, m, e)
      PROVE  BouncesLogged'
  <2> DEFINE j == [pc |-> IF Approval!Known(m) THEN "update" ELSE "reply", mail |-> m, event |-> e]
  <2>1. hook' = [hook EXCEPT ![h] = j] /\ UNCHANGED <<mail, log, fate, event>>
    BY <1>5 DEF Approval!Post
  <2>2. j.pc = (IF Approval!Known(m) THEN "update" ELSE "reply") /\ j.mail = m /\ j.event = e
    OBVIOUS
  <2> HIDE DEF j
  <2>3. \A x \in Hook : hook'[x] = IF x = h THEN j ELSE hook[x]
    BY <1>t, <2>1
  <2>4. excused \subseteq excused' /\ (e \in Approval!Bad /\ ~Approval!Known(m) => m \in excused')
    BY <1>5 DEF Approval!Post
  <2>5. e \in fate[m]
    BY <1>5 DEF Approval!Post, BouncesLogged
  <2>6. \A x \in Mail : Seen(x)' => Seen(x) \/ (x = m /\ e \in Approval!Bad /\ ~Approval!Known(m))
    BY <2>1, <2>2, <2>3 DEF Seen, Approval!Bounced, Approval!Bad
  <2>7. \A x \in Hook : hook'[x].pc # "idle" => hook'[x].mail \in Mail /\ hook'[x].event \in fate[hook'[x].mail]
    BY <2>2, <2>3, <2>5 DEF BouncesLogged
  <2>8. \A x \in Hook : hook'[x].pc = "update" => Approval!Known(hook'[x].mail)
    BY <2>2, <2>3 DEF BouncesLogged
  <2>9. \A x \in Mail : Seen(x)' => log[x] = "BOUNCED" \/ x \in excused'
    BY <2>4, <2>6 DEF BouncesLogged
  <2> QED BY <2>1, <2>7, <2>8, <2>9 DEF BouncesLogged, Approval!Known
<1>6. ASSUME NEW h \in Hook, Approval!Update(h) PROVE BouncesLogged'
  <2> DEFINE m == hook[h].mail
             e == hook[h].event
  <2>1. /\ hook[h].pc = "update" /\ m \in Mail /\ e \in fate[m] /\ Approval!Known(m)
        /\ log[m] # None /\ mail[m] = "done"
    BY <1>6, ApprovalsConstants DEF Approval!Update, BouncesLogged, Approval!Known, Approval!Status
  <2>2. /\ log' = [log EXCEPT ![m] = Approval!StatusOf(e)] /\ UNCHANGED <<mail, fate, event>>
        /\ hook' = [hook EXCEPT ![h] = [hook[h] EXCEPT !.pc = "reply"]]
    BY <1>6 DEF Approval!Update
  <2>3. excused' = IF e \in Approval!Bad THEN excused \ {m}
                   ELSE IF log[m] = "BOUNCED" THEN excused \cup {m} ELSE excused
    BY <1>6 DEF Approval!Update
  <2>4. /\ Approval!StatusOf(e) \in Approval!Status \ {"FAILED"}
        /\ e \in Approval!Bad => Approval!StatusOf(e) = "BOUNCED"
    BY DEF Approval!StatusOf, Approval!Status, Approval!Bad
  <2>5. \A x \in Hook : /\ hook'[x].mail = hook[x].mail /\ hook'[x].event = hook[x].event
                        /\ hook'[x].pc = IF x = h THEN "reply" ELSE hook[x].pc
    BY <1>t, <2>2
  <2>6. \A x \in Mail : log'[x] = IF x = m THEN Approval!StatusOf(e) ELSE log[x]
    BY <1>t, <2>1, <2>2
  <2> HIDE DEF m, e
  <2>7. \A x \in Mail : Seen(x)' => Seen(x) \/ (x = m /\ e \in Approval!Bad)
    BY <2>2, <2>5 DEF Seen, Approval!Bounced, Approval!Bad, m, e
  <2>8. \A x \in Mail : Seen(x)' => log'[x] = "BOUNCED" \/ x \in excused'
    BY <2>1, <2>3, <2>4, <2>6, <2>7 DEF BouncesLogged
  <2>9. \A x \in Hook : hook'[x].pc = "update" => log'[hook'[x].mail] \in Approval!Status \ {"FAILED"}
    BY <2>1, <2>4, <2>5, <2>6 DEF BouncesLogged, Approval!Known
  <2>10. \A x \in Hook : hook'[x].pc # "idle" => hook'[x].mail \in Mail /\ hook'[x].event \in fate'[hook'[x].mail]
    BY <2>1, <2>2, <2>5 DEF BouncesLogged
  <2>11. \A x \in Mail : event'[x] \subseteq fate'[x] /\ (mail'[x] # "done" => log'[x] = None)
    BY <2>1, <2>2, <2>6 DEF BouncesLogged
  <2> QED BY <2>8, <2>9, <2>10, <2>11 DEF BouncesLogged, Approval!Known
<1>7. ASSUME NEW h \in Hook, Approval!Reply(h) \/ Approval!HookFails(h) PROVE BouncesLogged'
  <2>1. /\ hook' = [hook EXCEPT ![h] = Approval!IdleHook] /\ UNCHANGED <<mail, log, fate, excused>>
        /\ hook[h].pc # "idle"
        /\ \/ event' = event
           \/ hook[h].pc = "reply" /\ event' = [event EXCEPT ![hook[h].mail] = @ \ {hook[h].event}]
    BY <1>7 DEF Approval!Reply, Approval!HookFails
  <2>2. Approval!IdleHook.pc = "idle"
    BY DEF Approval!IdleHook
  <2>3. \A x \in Hook : hook'[x].pc # "idle" => hook'[x] = hook[x]
    BY <1>t, <2>1, <2>2
  <2>4. /\ \A x \in Mail : event'[x] \subseteq event[x]
        /\ \A x \in Mail : \A e \in event[x] \ event'[x] :
             hook[h].pc = "reply" /\ hook[h].mail = x /\ hook[h].event = e
    BY <1>t, <2>1
  <2>5. \A x \in Mail : Seen(x)' => Seen(x)
    <3>1. SUFFICES ASSUME NEW x \in Mail, Seen(x)', ~Seen(x) PROVE FALSE
      OBVIOUS
    <3>2. Approval!Bounced(x)'
      BY <2>3, <3>1 DEF Seen
    <3>3. PICK e \in Approval!Bad : e \in event[x] \ event'[x]
      BY <2>1, <3>1, <3>2 DEF Seen, Approval!Bounced
    <3> QED BY <2>4, <3>1, <3>3 DEF Seen
  <2>6. \A x \in Hook : hook'[x].pc # "idle" => hook'[x].mail \in Mail /\ hook'[x].event \in fate[hook'[x].mail]
    BY <2>3 DEF BouncesLogged
  <2>7. \A x \in Hook : hook'[x].pc = "update" => Approval!Known(hook'[x].mail)
    BY <2>3 DEF BouncesLogged
  <2>8. \A x \in Mail : event'[x] \subseteq fate[x]
    BY <2>4 DEF BouncesLogged
  <2> QED BY <2>1, <2>5, <2>6, <2>7, <2>8 DEF BouncesLogged, Approval!Known
<1> QED
  <2>1. ASSUME \/ \E r \in Handler : Approval!Grant(r) \/ Approval!Fail(r)
               \/ \E r \in Handler, u \in Person, way \in Approval!Way : Approval!AskApprove(r, u, way)
               \/ \E u \in Person : Approval!Unapprove(u) \/ Approval!Trash(u)
               \/ UNCHANGED Approval!vars
        PROVE  UNCHANGED <<fate, event, hook, mail, log, excused>>
    BY <2>1 DEF Approval!Grant, Approval!Fail, Approval!AskApprove, Approval!Unapprove, Approval!Trash,
                Approval!vars
  <2> QED BY <1>1, <1>2, <1>3, <1>4, <1>5, <1>6, <1>7, <2>1 DEF Approval!Next, Approval!Serves

LEMMA ApprovalsStep == ApprovalsIInv /\ [Approval!Next]_(Approval!vars) => ApprovalsIInv'
  BY ApprovalsType, MailsStep, BouncesStep DEF ApprovalsIInv

LEMMA ApprovalsGoal == ApprovalsInductive => ApprovalsCorrect
<1> SUFFICES ASSUME ApprovalsIInv
             PROVE  Approval!TypeOK /\ Approval!MailsExplained /\ Approval!BounceShown
  BY DEF ApprovalsInductive, ApprovalsCorrect
<1>1. ASSUME NEW u \in Person PROVE told[u] <= due[u]
  <2>1. told[u] \in Nat /\ due[u] \in Nat
    BY DEF ApprovalsIInv, Approval!TypeOK
  <2>2. told[u] + Cardinality(Telling(u)) <= due[u] /\ Cardinality(Telling(u)) \in Nat
    BY FS_CardinalityType DEF ApprovalsIInv, MailsDue
  <2> QED BY <2>1, <2>2
<1> QED BY <1>1 DEF ApprovalsIInv, BouncesLogged, Seen, Approval!MailsExplained, Approval!BounceShown

\* However many handlers approve, however many mails and events are under way, no user gets more
\* mails than he was approved times, and a bounce the provider knows to be reported is in the log,
\* but for the overlaps the property names (routes/admin.ts, routes/resendWebhook.ts).
THEOREM ApprovalsHold == AdminSpec => []ApprovalsCorrect
<1>1. AdminInit => ApprovalsInductive
  BY ApprovalsStarts, ApprovalsInit DEF ApprovalsInductive
<1>2. ApprovalsInductive /\ [AdminNext]_administration => ApprovalsInductive'
  BY ApprovalsMoves, ApprovalsStep DEF ApprovalsInductive
<1> QED BY <1>1, <1>2, ApprovalsGoal, PTL DEF AdminSpec

-----------------------------------------------------------------------------
(***************************************************************************)
(* The site's settings (routes/admin.ts, admin/settings, banners-page.tsx).*)
(***************************************************************************)
Rows == [Key -> Value]

SaveJob == [phase : {"sent", "compared", "written", "done"}, rows : SUBSET Key, sent : Rows,
            changed : SUBSET Key]
LoadJob == [phase : {"loaded"}, sent : Rows]
SiteJob == {Site!Idle, [phase |-> "load"]} \cup SaveJob \cup LoadJob

SiteTypes ==
    /\ Site!TypeOK
    /\ excused \in [Editor -> SUBSET Key]
    /\ task \in [Site!Requester -> SiteJob]

\* The rows that are stored otherwise are excused.
Excuses(rows, stored, why) == \A k \in Key : Site!Kept(k, rows[k]) # Site!Kept(k, stored[k]) => k \in why

\* What a form that waits for no save takes for stored, or is about to, and what a save compared.
FormsExcused ==
    \A e \in Editor : /\ task[e].phase = "idle" => Excuses(saved[e], table, excused[e])
                      /\ task[e].phase = "loaded" => Excuses(task[e].sent, table, excused[e])

ComparedStill ==
    \A r \in Site!Requester : task[r].phase = "compared" =>
        \A k \in Important \ task[r].changed : Site!Sent(k, task[r].sent[k]) # table[k] => k \in crossed

SiteIInv == SiteTypes /\ FormsExcused /\ ComparedStill /\ Site!ReviewExplained

SettingsInductive == part = "settings" => SiteIInv


LEMMA SettingsStarts == AdminInit /\ part = "settings" => Site!Init
  BY DEF AdminInit

LEMMA SettingsMoves ==
  ASSUME [AdminNext]_administration, part' = "settings"
  PROVE  part = "settings" /\ [Site!Next]_(Site!vars)
<1>1. CASE UNCHANGED administration
  BY <1>1 DEF administration, Site!vars, Site!history, Site!bounds
<1>2. CASE AdminNext
  BY <1>2 DEF AdminNext
<1> QED BY <1>1, <1>2

LEMMA SettingsConstants ==
  /\ Important \subseteq Key /\ Fit \in Value /\ None \notin Editor
  /\ \A rows \in Tabs : rows \subseteq Key
  BY SiteAssumption DEF Site!RowsAssumption

\* What is made of a value is a value, and is the same made again.
LEMMA SiteKept ==
  ASSUME NEW k \in Key, NEW v \in Value
  PROVE  /\ Site!Kept(k, v) \in Value /\ Site!Sent(k, v) \in Value /\ Site!Sanitised(k, v) \in Value
         /\ Site!Kept(k, Site!Kept(k, v)) = Site!Kept(k, v)
         /\ Site!Kept(k, Site!Sanitised(k, v)) = Site!Kept(k, v)
         /\ kind = "settings" => Site!Sanitised(k, v) = v
  BY SiteAssumption DEF Site!RowsAssumption, Site!Kept, Site!Sent, Site!Sanitised

LEMMA SiteServed ==
  ASSUME NEW rows \in Rows
  PROVE  /\ [k \in Key |-> Site!Sanitised(k, rows[k])] \in Rows
         /\ \A k \in Key : Site!Kept(k, Site!Sanitised(k, rows[k])) = Site!Kept(k, rows[k])
<1>1. \A k \in Key : rows[k] \in Value
  BY DEF Rows
<1> QED BY <1>1, SiteKept DEF Rows

LEMMA SettingsInit == Site!Init => SiteIInv
<1> SUFFICES ASSUME Site!Init PROVE SiteIInv
  OBVIOUS
<1>1. table \in Rows
  BY DEF Site!Init, Rows
<1> DEFINE form == [k \in Key |-> Site!Sanitised(k, table[k])]
<1>2. form \in Rows /\ \A k \in Key : Site!Kept(k, form[k]) = Site!Kept(k, table[k])
  BY <1>1, SiteServed
<1>3. draft = [e \in Editor |-> form] /\ saved = draft
  BY DEF Site!Init
<1> HIDE DEF form
<1>4. Site!Idle.phase = "idle"
  BY DEF Site!Idle
<1>5. /\ task = [r \in Site!Requester |-> Site!Idle] /\ backup = None
      /\ excused = [e \in Editor |-> {}] /\ slipped = {}
  BY DEF Site!Init
<1>6. draft \in [Editor -> Rows] /\ saved \in [Editor -> Rows]
  BY <1>2, <1>3
<1>7. Site!TypeOK
  BY <1>1, <1>4, <1>5, <1>6 DEF Site!TypeOK, Rows
<1>8. SiteTypes
  BY <1>5, <1>7 DEF SiteTypes, SiteJob
<1>9. ComparedStill
  BY <1>4, <1>5 DEF ComparedStill
<1>10. FormsExcused
  BY <1>2, <1>3, <1>4, <1>5 DEF FormsExcused, Excuses, Site!Requester
<1> QED BY <1>5, <1>8, <1>9, <1>10 DEF SiteIInv, Site!ReviewExplained

\* What a form waits for, told by its phase.
LEMMA SitePhases ==
  ASSUME SiteTypes, NEW r \in Site!Requester
  PROVE  /\ task[r].phase \in {"sent", "compared", "written", "done"} => task[r] \in SaveJob
         /\ task[r].phase = "loaded" => task[r].sent \in Rows
         /\ Site!Idle.phase = "idle" /\ [phase |-> "load"].phase = "load"
<1>1. task[r] \in SiteJob
  BY DEF SiteTypes
<1>2. Site!Idle.phase = "idle" /\ [phase |-> "load"].phase = "load"
  BY DEF Site!Idle
<1>3. \A j \in LoadJob : j.phase = "loaded" /\ j.sent \in Rows
  BY DEF LoadJob
<1>4. \A j \in SaveJob : j.phase \in {"sent", "compared", "written", "done"}
  BY DEF SaveJob
<1> QED BY <1>1, <1>2, <1>3, <1>4 DEF SiteJob

LEMMA SiteEditors == None \in Site!Requester /\ Editor \subseteq Site!Requester
  BY DEF Site!Requester

LEMMA SiteJobPhases ==
  \A i \in SiteJob : i.phase \in {"idle", "sent", "compared", "written", "done", "load", "loaded"}
<1>1. Site!Idle.phase = "idle" /\ [phase |-> "load"].phase = "load"
  BY DEF Site!Idle
<1>2. \A i \in SaveJob : i.phase \in {"sent", "compared", "written", "done"}
  BY DEF SaveJob
<1>3. \A i \in LoadJob : i.phase = "loaded"
  BY DEF LoadJob
<1> QED BY <1>1, <1>2, <1>3 DEF SiteJob

\* A save is another, the rows are written or not.
LEMMA SiteTask ==
  ASSUME SiteTypes, NEW r \in Site!Requester, NEW j \in SiteJob, task' = [task EXCEPT ![r] = j]
  PROVE  /\ task' \in [Site!Requester -> SiteJob]
         /\ \A x \in Site!Requester : task'[x] = IF x = r THEN j ELSE task[x]
  BY DEF SiteTypes

\* The rows stay as they are, and the requests go on.
LEMMA SiteGoOn ==
  ASSUME SiteIInv, task' \in [Site!Requester -> SiteJob], UNCHANGED <<table, backup>>,
         draft' \in [Editor -> Rows], saved' \in [Editor -> Rows],
         excused' \in [Editor -> SUBSET Key], crossed \subseteq crossed', Site!ReviewExplained',
         \A x \in Editor : \/ task'[x] = task[x] /\ saved'[x] = saved[x] /\ excused'[x] = excused[x]
                           \/ /\ task'[x].phase = "idle" => Excuses(saved'[x], table, excused'[x])
                              /\ task'[x].phase = "loaded" => Excuses(task'[x].sent, table, excused'[x]),
         \A x \in Site!Requester :
            \/ task'[x] = task[x]
            \/ task'[x].phase = "compared" =>
                 \A k \in Important \ task'[x].changed :
                    Site!Sent(k, task'[x].sent[k]) # table[k] => k \in crossed,
         kind' = kind
  PROVE  SiteIInv'
<1>1. SiteTypes
  BY DEF SiteIInv
<1>2. \A x \in Site!Requester : task'[x].phase \in {"idle", "sent", "compared", "written", "done",
                                                    "load", "loaded"}
  BY SiteJobPhases
<1>3. SiteTypes'
  BY <1>1, <1>2 DEF SiteTypes, Site!TypeOK, Rows, Site!Requester
<1>4. FormsExcused'
  <2>1. ASSUME NEW x \in Editor
        PROVE  /\ task'[x].phase = "idle" => Excuses(saved'[x], table, excused'[x])
               /\ task'[x].phase = "loaded" => Excuses(task'[x].sent, table, excused'[x])
    BY DEF SiteIInv, FormsExcused
  <2>2. \A a, b, w : Excuses(a, b, w) <=> \A k \in Key : Site!Kept(k, a[k]) # Site!Kept(k, b[k]) => k \in w
    BY DEF Excuses
  <2>3. \A x \in Editor : /\ task'[x].phase = "idle" => Excuses(saved[x], table, excused[x])'
                          /\ task'[x].phase = "loaded" => Excuses(task[x].sent, table, excused[x])'
    BY <2>1 DEF Excuses, Site!Kept
  <2> QED BY <2>3 DEF FormsExcused, Excuses, Site!Kept
<1>5. ComparedStill'
  <2>1. SUFFICES ASSUME NEW x \in Site!Requester, task'[x].phase = "compared",
                        NEW k \in Important \ task'[x].changed,
                        Site!Sent(k, task[x].sent[k])' # table[k]
                 PROVE  k \in crossed'
    BY DEF ComparedStill, Site!Requester
  <2>2. Site!Sent(k, task'[x].sent[k]) # table[k]
    BY <2>1 DEF Site!Sent, Site!Kept
  <2> QED BY <2>1, <2>2 DEF SiteIInv, ComparedStill
<1> QED BY <1>3, <1>4, <1>5 DEF SiteIInv

\* One of them goes on that no review is due of.
LEMMA SiteGoesOn ==
  ASSUME SiteIInv, NEW r \in Site!Requester, NEW j \in SiteJob, task' = [task EXCEPT ![r] = j],
         task[r].phase # "written", UNCHANGED <<table, backup, slipped, crossed, gone, kind>>,
         draft' \in [Editor -> Rows], saved' \in [Editor -> Rows],
         excused' \in [Editor -> SUBSET Key],
         \A x \in Editor \ {r} : saved'[x] = saved[x] /\ excused'[x] = excused[x],
         r \in Editor /\ j.phase = "idle" => Excuses(saved'[r], table, excused'[r]),
         r \in Editor /\ j.phase = "loaded" => Excuses(j.sent, table, excused'[r]),
         j.phase = "compared" => \A k \in Important \ j.changed :
                                    Site!Sent(k, j.sent[k]) # table[k] => k \in crossed
  PROVE  SiteIInv'
<1>1. /\ task' \in [Site!Requester -> SiteJob]
      /\ \A x \in Site!Requester : task'[x] = IF x = r THEN j ELSE task[x]
  BY SiteTask DEF SiteIInv
<1>2. Site!ReviewExplained'
  <2>1. Site!ReviewExplained
    BY DEF SiteIInv
  <2>2. \A x \in Site!Requester : task[x].phase = "written" => task'[x] = task[x]
    BY <1>1
  <2> QED BY <2>1, <2>2 DEF Site!ReviewExplained, Site!Reviewing, Site!Requester
<1>3. Editor \subseteq Site!Requester
  BY SiteEditors
<1> QED BY <1>1, <1>2, <1>3, SiteGoOn

\* The rows are written for a request that goes on, or restored for nobody.
LEMMA SiteWritten ==
  ASSUME SiteIInv, NEW others \in SUBSET Site!Requester, NEW new \in Rows,
         table' = new, UNCHANGED <<backup, draft, saved, kind>>,
         excused' = Site!Rewritten(others, new), crossed' = crossed \cup Site!Overtakes(others, new),
         Site!ReviewExplained',
         \A x \in others : task'[x] = task[x],
         task' \in [Site!Requester -> SiteJob],
         \A x \in Site!Requester \ others : task'[x].phase \in {"sent", "written", "done"}
  PROVE  SiteIInv'
<1>1. SiteTypes /\ FormsExcused /\ ComparedStill /\ Editor \subseteq Site!Requester
  BY SiteEditors DEF SiteIInv
<1>2. \A x \in Site!Requester : task'[x].phase \in {"idle", "sent", "compared", "written", "done",
                                                    "load", "loaded"}
  BY SiteJobPhases
<1>3. excused' \in [Editor -> SUBSET Key]
  <2>1. excused \in [Editor -> SUBSET Key]
    BY <1>1 DEF SiteTypes
  <2> QED BY <2>1 DEF Site!Rewritten
<1>4. \A x \in Editor : x \in others => excused'[x] = excused[x] \cup {k \in Key : new[k] # table[k]}
  BY DEF Site!Rewritten
<1>5. SiteTypes'
  BY <1>1, <1>2, <1>3 DEF SiteTypes, Site!TypeOK, Rows, Site!Requester
<1>6. FormsExcused'
  <2>1. ASSUME NEW x \in Editor, NEW rows, x \in others, Excuses(rows, table, excused[x]), NEW k \in Key,
               Site!Kept(k, rows[k]) # Site!Kept(k, new[k])
        PROVE  k \in excused'[x]
    <3>1. CASE new[k] = table[k]
      BY <1>4, <2>1, <3>1 DEF Excuses
    <3>2. CASE new[k] # table[k]
      BY <1>4, <2>1, <3>2
    <3> QED BY <3>1, <3>2
  <2>2. \A x \in Editor : task'[x].phase \in {"idle", "loaded"} => x \in others
    BY <1>1
  <2>3. ASSUME NEW x \in Editor, NEW k \in Key, task'[x].phase = "idle",
               Site!Kept(k, saved[x][k]) # Site!Kept(k, new[k])
        PROVE  k \in excused'[x]
    BY <1>1, <2>1, <2>2, <2>3 DEF FormsExcused
  <2>4. ASSUME NEW x \in Editor, NEW k \in Key, task'[x].phase = "loaded",
               Site!Kept(k, task'[x].sent[k]) # Site!Kept(k, new[k])
        PROVE  k \in excused'[x]
    BY <1>1, <2>1, <2>2, <2>4 DEF FormsExcused
  <2> QED BY <2>3, <2>4 DEF FormsExcused, Excuses, Site!Kept
<1>7. ComparedStill'
  <2>1. SUFFICES ASSUME NEW x \in Site!Requester, task'[x].phase = "compared",
                        NEW k \in Important \ task'[x].changed,
                        Site!Sent(k, task[x].sent[k])' # new[k]
                 PROVE  k \in crossed'
    BY DEF ComparedStill, Site!Requester
  <2>2. x \in others /\ task'[x] = task[x] /\ k \in Key
    BY <2>1, SettingsConstants
  <2>3. Site!Sent(k, task[x].sent[k]) # new[k]
    BY <2>1, <2>2 DEF Site!Sent, Site!Kept
  <2>4. CASE new[k] = table[k]
    BY <1>1, <2>1, <2>2, <2>3, <2>4 DEF ComparedStill
  <2>5. CASE new[k] # table[k]
    BY <2>1, <2>2, <2>5 DEF Site!Overtakes
  <2> QED BY <2>4, <2>5
<1> QED BY <1>5, <1>6, <1>7 DEF SiteIInv

LEMMA SitePut ==
  ASSUME SiteIInv, NEW r \in Site!Requester, NEW rows, NEW p \in {"sent", "written", "done"},
         Site!Put(r, rows, p), task[r].phase \in {"sent", "compared"},
         kind = "settings" => task[r].phase = "compared" /\ p = "written"
  PROVE  SiteIInv'
<1> DEFINE new == Site!Stored(r, rows)
<1>t. SiteTypes
  BY DEF SiteIInv
<1>1. task[r] \in SaveJob /\ table \in Rows
  BY <1>t, SitePhases DEF SiteTypes, Site!TypeOK, Rows
<1>2. /\ new \in Rows
      /\ \A k \in Key : new[k] = IF k \in rows THEN Site!Sanitised(k, Site!Sent(k, task[r].sent[k]))
                                 ELSE table[k]
  <2>1. \A k \in Key : task[r].sent[k] \in Value /\ table[k] \in Value
    BY <1>1 DEF SaveJob, Rows
  <2>2. \A k \in Key : Site!Sanitised(k, Site!Sent(k, task[r].sent[k])) \in Value
    BY <2>1, SiteKept
  <2> QED BY <2>1, <2>2 DEF Site!Stored, Rows
<1>3. /\ table' = new /\ UNCHANGED <<backup, draft, saved, gone, kind>>
      /\ task' = [task EXCEPT ![r] = [task[r] EXCEPT !.phase = p, !.rows = @ \ rows]]
      /\ crossed' = crossed \cup Site!Overtakes(Site!Requester \ {r}, new)
      /\ excused' = Site!Rewritten(Site!Requester \ {r}, new)
      /\ slipped' = slipped \cup Site!Altered(new)
  BY DEF Site!Put, Site!bounds
<1>4. PICK j \in SaveJob : /\ j = [task[r] EXCEPT !.phase = p, !.rows = @ \ rows] /\ j.phase = p
                           /\ j.changed = task[r].changed
  <2>1. PICK i \in SaveJob : i = task[r]
    BY <1>1
  <2>2. LET j == [i EXCEPT !.phase = p, !.rows = @ \ rows]
        IN  j \in SaveJob /\ j.phase = p /\ j.changed = i.changed
    BY DEF SaveJob
  <2> QED BY <2>1, <2>2
<1>5. task' = [task EXCEPT ![r] = j] /\ j \in SiteJob
  BY <1>3, <1>4 DEF SiteJob
<1>6. /\ task' \in [Site!Requester -> SiteJob]
      /\ \A x \in Site!Requester : task'[x] = IF x = r THEN j ELSE task[x]
  BY <1>t, <1>5, SiteTask
<1>7. \A k \in Site!Altered(new) : k \in Site!Reviewing' \/ k \in crossed
  <2>1. SUFFICES ASSUME NEW k \in Important, kind = "settings", new[k] # table[k], k \notin crossed
                 PROVE  k \in Site!Reviewing'
    BY DEF Site!Altered
  <2>2. task[r].sent[k] \in Value /\ k \in Key
    BY <1>1, SettingsConstants DEF SaveJob, Rows
  <2>3. Site!Sent(k, task[r].sent[k]) # table[k]
    BY <1>2, <2>1, <2>2, SiteKept
  <2>4. k \in task[r].changed
    BY <2>1, <2>3 DEF SiteIInv, ComparedStill
  <2>5. task'[r].phase = "written" /\ k \in task'[r].changed
    BY <1>4, <1>6, <2>1, <2>4
  <2> QED BY <2>5 DEF Site!Reviewing, Site!Requester
<1>8. Site!Reviewing \subseteq Site!Reviewing'
  <2>1. \A x \in Site!Requester : task[x].phase = "written" => task'[x] = task[x]
    BY <1>6
  <2> QED BY <2>1 DEF Site!Reviewing, Site!Requester
<1>9. Site!ReviewExplained'
  BY <1>3, <1>7, <1>8 DEF SiteIInv, Site!ReviewExplained
<1>10. \A x \in Site!Requester \ {r} : task'[x] = task[x]
  BY <1>6
<1>11. \A x \in Site!Requester \ (Site!Requester \ {r}) : task'[x].phase \in {"sent", "written", "done"}
  BY <1>4, <1>6
<1> HIDE DEF new
<1> QED BY <1>2, <1>3, <1>6, <1>9, <1>10, <1>11, SiteWritten

LEMMA SiteRestore ==
  ASSUME SiteIInv, Site!Restore
  PROVE  SiteIInv'
<1> DEFINE new == [k \in Key |-> Site!Sanitised(k, backup[k])]
<1>1. SiteTypes
  BY DEF SiteIInv
<1>2. backup \in Rows
  BY <1>1 DEF Site!Restore, SiteTypes, Site!TypeOK, Rows
<1>3. new \in Rows
  BY <1>2, SiteServed
<1>4. /\ table' = new /\ UNCHANGED <<backup, draft, saved, kind, task>>
      /\ crossed' = crossed \cup Site!Overtakes(Site!Requester, new)
      /\ excused' = Site!Rewritten(Site!Requester, new)
      /\ slipped' = slipped \cup Site!Altered(new) /\ gone' = gone \cup Site!Altered(new)
  BY DEF Site!Restore
<1> HIDE DEF new
<1>5. Site!ReviewExplained'
  <2>1. Site!Reviewing' = Site!Reviewing
    BY <1>4 DEF Site!Reviewing
  <2> QED BY <1>4, <2>1 DEF SiteIInv, Site!ReviewExplained
<1>6. task' \in [Site!Requester -> SiteJob]
  BY <1>1, <1>4 DEF SiteTypes
<1> QED BY <1>3, <1>4, <1>5, <1>6, SiteWritten

\* Reviewed, or the review fails and is lost.
LEMMA SiteReview ==
  ASSUME SiteIInv, NEW r \in Site!Requester, Site!Review(r)
  PROVE  SiteIInv'
<1>t. /\ SiteTypes /\ draft \in [Editor -> Rows] /\ saved \in [Editor -> Rows]
      /\ excused \in [Editor -> SUBSET Key]
  BY DEF SiteIInv, SiteTypes, Site!TypeOK, Rows
<1>1. task[r] \in SaveJob /\ task[r].phase = "written"
  BY <1>t, SitePhases DEF Site!Review
<1>2. PICK j \in SaveJob : j = [task[r] EXCEPT !.phase = "done"] /\ j.phase = "done"
  <2>1. PICK i \in SaveJob : i = task[r]
    BY <1>1
  <2>2. [i EXCEPT !.phase = "done"] \in SaveJob /\ [i EXCEPT !.phase = "done"].phase = "done"
    BY DEF SaveJob
  <2> QED BY <2>1, <2>2
<1>3. /\ task' = [task EXCEPT ![r] = j] /\ j \in SiteJob
      /\ UNCHANGED <<table, backup, draft, saved, crossed, excused, kind>>
  BY <1>2 DEF Site!Review, SiteJob
<1>4. /\ task' \in [Site!Requester -> SiteJob]
      /\ \A x \in Site!Requester : task'[x] = IF x = r THEN j ELSE task[x]
  BY <1>t, <1>3, SiteTask
<1>5. \A k \in Site!Reviewing : k \in Site!Reviewing' \/ k \in task[r].changed
  <2>1. SUFFICES ASSUME NEW x \in Site!Requester, task[x].phase = "written", NEW k \in task[x].changed,
                        k \notin task[r].changed
                 PROVE  k \in Site!Reviewing'
    BY DEF Site!Reviewing
  <2>2. task'[x] = task[x]
    BY <1>4, <2>1
  <2> QED BY <2>1, <2>2 DEF Site!Reviewing, Site!Requester
<1>6. Site!ReviewExplained'
  <2>1. \/ slipped' = slipped \ task[r].changed /\ gone' = gone
        \/ gone' = gone \cup task[r].changed /\ slipped' = slipped
    BY DEF Site!Review
  <2> QED BY <1>3, <1>5, <2>1 DEF SiteIInv, Site!ReviewExplained
<1>7. Editor \subseteq Site!Requester /\ \A x \in Editor : task'[x] # task[x] => x = r
  BY <1>4, SiteEditors
<1>8. task'[r].phase = "done"
  BY <1>2, <1>4
<1> QED BY <1>t, <1>3, <1>4, <1>6, <1>7, <1>8, SiteGoOn

\* The save fails for its form; for the server, it may go on.
LEMMA SiteFails ==
  ASSUME SiteIInv, NEW e \in Editor, Site!Fail(e) \/ Site!GiveUp(e)
  PROVE  SiteIInv'
<1>t. /\ SiteTypes /\ draft \in [Editor -> Rows] /\ saved \in [Editor -> Rows]
      /\ excused \in [Editor -> SUBSET Key]
  BY DEF SiteIInv, SiteTypes, Site!TypeOK, Rows
<1>i. /\ Site!Idle.phase = "idle" /\ Site!Idle \in SiteJob /\ None \notin Editor
      /\ None \in Site!Requester /\ Editor \subseteq Site!Requester
  BY SiteEditors, SettingsConstants DEF Site!Idle, SiteJob
<1>f. Site!FormFails(e)
  BY DEF Site!Fail, Site!GiveUp
<1>1. /\ excused' = [excused EXCEPT ![e] = Site!Astray(saved[e])]
      /\ UNCHANGED <<kind, table, backup, draft, saved, slipped, crossed>>
  BY <1>f DEF Site!FormFails
<1>2. /\ excused' \in [Editor -> SUBSET Key]
      /\ \A x \in Editor \ {e} : excused'[x] = excused[x]
      /\ excused'[e] = Site!Astray(saved[e])
  BY <1>t, <1>1 DEF Site!Astray
<1>3. Excuses(saved'[e], table, excused'[e])
  BY <1>1, <1>2 DEF Excuses, Site!Astray
<1>4. CASE Site!Fail(e)
  <2>1. /\ task' = [task EXCEPT ![e] = Site!Idle]
        /\ gone' = IF task[e].phase = "written" THEN gone \cup task[e].changed ELSE gone
    BY <1>4 DEF Site!Fail
  <2>2. /\ task' \in [Site!Requester -> SiteJob]
        /\ \A x \in Site!Requester : task'[x] = IF x = e THEN Site!Idle ELSE task[x]
    BY <1>t, <1>i, <2>1, SiteTask
  <2>3. \A k \in Site!Reviewing : k \in Site!Reviewing' \/ k \in gone'
    <3>1. SUFFICES ASSUME NEW x \in Site!Requester, task[x].phase = "written", NEW k \in task[x].changed
                   PROVE  k \in Site!Reviewing' \/ k \in gone'
      BY DEF Site!Reviewing
    <3>2. CASE x = e
      BY <2>1, <3>1, <3>2
    <3>3. CASE x # e
      <4>1. task'[x] = task[x]
        BY <2>2, <3>3
      <4> QED BY <3>1, <4>1 DEF Site!Reviewing, Site!Requester
    <3> QED BY <3>2, <3>3
  <2>4. Site!ReviewExplained'
    BY <1>1, <2>1, <2>3 DEF SiteIInv, Site!ReviewExplained
  <2>5. task'[e].phase = "idle" /\ \A x \in Editor : task'[x] # task[x] => x = e
    BY <1>i, <2>2
  <2>6. \A x \in Site!Requester : task'[x] = task[x] \/ task'[x].phase # "compared"
    BY <1>i, <2>2
  <2> QED BY <1>t, <1>1, <1>2, <1>3, <2>2, <2>4, <2>5, <2>6, SiteGoOn
<1>5. CASE Site!GiveUp(e)
  <2>1. PICK rows \in {{k} : k \in task[e].rows} \cup {task[e].rows} :
            task' = [task EXCEPT ![e] = Site!Idle, ![None] = [task[e] EXCEPT !.rows = rows]]
    BY <1>5 DEF Site!GiveUp
  <2>2. task[e].phase \in {"sent", "compared", "written"} /\ task[None] = Site!Idle /\ gone' = gone
    BY <1>5 DEF Site!GiveUp
  <2>3. task[e] \in SaveJob
    BY <1>t, <1>i, <2>2, SitePhases
  <2>4. PICK j \in SaveJob : /\ j = [task[e] EXCEPT !.rows = rows] /\ j.phase = task[e].phase
                             /\ j.sent = task[e].sent /\ j.changed = task[e].changed
    <3>1. PICK i \in SaveJob : i = task[e]
      BY <2>3
    <3>2. rows \in SUBSET Key
      BY <2>1, <2>3 DEF SaveJob
    <3>3. LET j == [i EXCEPT !.rows = rows]
          IN  j \in SaveJob /\ j.phase = i.phase /\ j.sent = i.sent /\ j.changed = i.changed
      BY <3>2 DEF SaveJob
    <3> QED BY <3>1, <3>3
  <2>5. /\ task' \in [Site!Requester -> SiteJob] /\ task'[e] = Site!Idle /\ task'[None] = j
        /\ \A x \in Editor \ {e} : task'[x] = task[x]
    <3>1. task' = [task EXCEPT ![e] = Site!Idle, ![None] = j] /\ j \in SiteJob
      BY <2>1, <2>4 DEF SiteJob
    <3>2. task \in [Site!Requester -> SiteJob]
      BY <1>t DEF SiteTypes
    <3> QED BY <1>i, <3>1, <3>2
  <2>6. Site!Reviewing \subseteq Site!Reviewing'
    <3>1. SUFFICES ASSUME NEW x \in Site!Requester, task[x].phase = "written", NEW k \in task[x].changed
                   PROVE  \E y \in Site!Requester : task'[y].phase = "written" /\ k \in task'[y].changed
      BY DEF Site!Reviewing, Site!Requester
    <3>2. CASE x = e
      BY <1>i, <2>4, <2>5, <3>1, <3>2
    <3>3. CASE x \in Editor \ {e}
      BY <1>i, <2>5, <3>1, <3>3
    <3>4. x # None
      BY <1>i, <2>2, <3>1
    <3> QED BY <3>2, <3>3, <3>4 DEF Site!Requester
  <2>7. Site!ReviewExplained'
    BY <1>1, <2>2, <2>6 DEF SiteIInv, Site!ReviewExplained
  <2>8. /\ \A x \in Editor : task'[x] # task[x] => x = e
        /\ \A x \in Site!Requester \ {None} : task'[x] = task[x] \/ task'[x].phase # "compared"
        /\ task'[e].phase = "idle"
    BY <1>i, <2>5 DEF Site!Requester
  <2>9. task'[None].phase = "compared" =>
          \A k \in Important \ task'[None].changed :
             Site!Sent(k, task'[None].sent[k]) # table[k] => k \in crossed
    BY <1>i, <2>4, <2>5 DEF SiteIInv, ComparedStill
  <2> QED BY <1>t, <1>1, <1>2, <1>3, <2>5, <2>7, <2>8, <2>9, SiteGoOn
<1> QED BY <1>4, <1>5

LEMMA SiteStep == SiteIInv /\ [Site!Next]_(Site!vars) => SiteIInv'
<1> SUFFICES ASSUME SiteIInv, [Site!Next]_(Site!vars) PROVE SiteIInv'
  OBVIOUS
<1> USE DEF Site!history, Site!bounds
<1>t. /\ SiteTypes /\ table \in Rows /\ draft \in [Editor -> Rows] /\ saved \in [Editor -> Rows]
      /\ excused \in [Editor -> SUBSET Key] /\ backup \in Rows \cup {None}
  BY DEF SiteIInv, SiteTypes, Site!TypeOK, Rows
<1>i. /\ Site!Idle.phase = "idle" /\ [phase |-> "load"].phase = "load"
      /\ Site!Idle \in SiteJob /\ [phase |-> "load"] \in SiteJob
      /\ None \notin Editor /\ None \in Site!Requester /\ Editor \subseteq Site!Requester
  BY SiteEditors, SettingsConstants DEF Site!Idle, SiteJob
<1>1. ASSUME UNCHANGED <<table, saved, task, slipped, crossed, gone, excused, kind>>,
             draft' \in [Editor -> Rows], backup' \in Rows \cup {None}
      PROVE  SiteIInv'
  <2>1. SiteTypes'
    BY <1>1, <1>t DEF SiteTypes, Site!TypeOK, Rows, Site!Requester
  <2>2. FormsExcused'
    BY <1>1 DEF SiteIInv, FormsExcused, Excuses, Site!Kept
  <2>3. ComparedStill'
    BY <1>1 DEF SiteIInv, ComparedStill, Site!Requester, Site!Sent, Site!Kept
  <2>4. Site!ReviewExplained'
    BY <1>1 DEF SiteIInv, Site!ReviewExplained, Site!Reviewing, Site!Requester
  <2> QED BY <2>1, <2>2, <2>3, <2>4 DEF SiteIInv
<1>2. ASSUME NEW e \in Editor, Site!Type(e) PROVE SiteIInv'
  <2>1. draft' \in [Editor -> Rows]
    BY <1>2, <1>t DEF Site!Type, Rows
  <2>2. UNCHANGED <<table, backup, saved, task, slipped, crossed, gone, excused, kind>>
    BY <1>2 DEF Site!Type
  <2> QED BY <1>1, <1>t, <2>1, <2>2
<1>3. ASSUME NEW e \in Editor, NEW rows \in SUBSET Key, Site!Send(e, rows) PROVE SiteIInv'
  <2>1. PICK j \in SaveJob : /\ j.phase = "sent"
                             /\ j = [phase |-> "sent", rows |-> rows, sent |-> draft[e], changed |-> {}]
    BY <1>t DEF SaveJob
  <2>2. /\ task' = [task EXCEPT ![e] = j] /\ task[e].phase = "idle" /\ j \in SiteJob
        /\ UNCHANGED <<table, backup, draft, saved, slipped, crossed, gone, excused, kind>>
    BY <1>3, <1>i, <2>1 DEF Site!Send, SiteJob
  <2> QED BY <1>t, <1>i, <2>1, <2>2, SiteGoesOn
<1>4. ASSUME NEW e \in Editor, Site!Save(e) PROVE SiteIInv'
  <2>1. \E rows \in SUBSET Key : Site!Send(e, rows)
    BY <1>4, SettingsConstants DEF Site!Save
  <2> QED BY <1>3, <2>1
<1>5. ASSUME NEW r \in Site!Requester, Site!Compare(r) PROVE SiteIInv'
  <2>1. task[r] \in SaveJob /\ task[r].phase = "sent"
    BY <1>5, <1>t, SitePhases DEF Site!Compare
  <2> DEFINE c == {k \in Important : table[k] # Site!Sent(k, task[r].sent[k])}
  <2>2. c \in SUBSET Key
    BY SettingsConstants
  <2>3. task' = [task EXCEPT ![r] = [task[r] EXCEPT !.phase = "compared", !.changed = c]]
    BY <1>5 DEF Site!Compare, Site!Changed
  <2>4. \A k \in Important \ c : Site!Sent(k, task[r].sent[k]) = table[k]
    OBVIOUS
  <2> HIDE DEF c
  <2>5. PICK j \in SaveJob : /\ j = [task[r] EXCEPT !.phase = "compared", !.changed = c]
                             /\ j.phase = "compared" /\ j.changed = c /\ j.sent = task[r].sent
    <3>1. PICK i \in SaveJob : i = task[r]
      BY <2>1
    <3>2. LET j == [i EXCEPT !.phase = "compared", !.changed = c]
          IN  j \in SaveJob /\ j.phase = "compared" /\ j.changed = c /\ j.sent = i.sent
      BY <2>2 DEF SaveJob
    <3> QED BY <3>1, <3>2
  <2>6. /\ task' = [task EXCEPT ![r] = j] /\ j \in SiteJob
        /\ UNCHANGED <<table, backup, draft, saved, slipped, crossed, gone, excused, kind>>
    BY <1>5, <2>3, <2>5 DEF Site!Compare, SiteJob
  <2> QED BY <1>t, <2>1, <2>4, <2>5, <2>6, SiteGoesOn
<1>6. ASSUME NEW r \in Site!Requester, Site!WriteSettings(r) \/ Site!WriteBlock(r) PROVE SiteIInv'
  <2>1. CASE Site!WriteSettings(r)
    BY <2>1, SitePut DEF Site!WriteSettings
  <2>2. CASE Site!WriteBlock(r)
    BY <2>2, SitePut DEF Site!WriteBlock
  <2> QED BY <1>6, <2>1, <2>2
<1>7. ASSUME NEW e \in Editor, Site!Answer(e) PROVE SiteIInv'
  <2>1. task[e] \in SaveJob /\ task[e].phase = "done"
    BY <1>7, <1>t, <1>i, SitePhases DEF Site!Answer
  <2>2. CASE kind = "banners"
    <3>1. /\ saved' = [saved EXCEPT ![e] = task[e].sent] /\ task' = [task EXCEPT ![e] = Site!Idle]
          /\ excused' = [excused EXCEPT ![e] = Site!Astray(task[e].sent)]
          /\ UNCHANGED <<table, backup, draft, slipped, crossed, gone, kind>>
      BY <1>7, <2>2 DEF Site!Answer
    <3>2. task[e].sent \in Rows
      BY <2>1 DEF SaveJob
    <3>3. /\ saved' \in [Editor -> Rows] /\ excused' \in [Editor -> SUBSET Key]
          /\ saved'[e] = task[e].sent /\ excused'[e] = Site!Astray(task[e].sent)
          /\ \A x \in Editor \ {e} : saved'[x] = saved[x] /\ excused'[x] = excused[x]
      BY <1>t, <3>1, <3>2 DEF Site!Astray
    <3>4. Excuses(saved'[e], table, excused'[e])
      BY <3>3 DEF Excuses, Site!Astray
    <3> QED BY <1>t, <1>i, <2>1, <3>1, <3>3, <3>4, SiteGoesOn
  <2>3. CASE kind # "banners"
    <3>1. /\ task' = [task EXCEPT ![e] = [phase |-> "load"]]
          /\ UNCHANGED <<table, backup, draft, saved, excused, slipped, crossed, gone, kind>>
      BY <1>7, <2>3 DEF Site!Answer
    <3> QED BY <1>t, <1>i, <2>1, <3>1, SiteGoesOn
  <2> QED BY <2>2, <2>3
<1>8. ASSUME NEW e \in Editor, Site!Reload(e) PROVE SiteIInv'
  <2>1. /\ task' = [task EXCEPT ![e] = [phase |-> "load"]] /\ task[e].phase = "idle"
        /\ UNCHANGED <<table, backup, draft, saved, excused, slipped, crossed, gone, kind>>
    BY <1>8, <1>i DEF Site!Reload
  <2> QED BY <1>t, <1>i, <2>1, SiteGoesOn
<1>9. ASSUME NEW e \in Editor, Site!LoadReads(e) PROVE SiteIInv'
  <2> DEFINE form == [k \in Key |-> Site!Sanitised(k, table[k])]
  <2>1. form \in Rows /\ \A k \in Key : Site!Kept(k, form[k]) = Site!Kept(k, table[k])
    BY <1>t, SiteServed
  <2>2. /\ task' = [task EXCEPT ![e] = [phase |-> "loaded", sent |-> form]] /\ task[e].phase = "load"
        /\ excused' = [excused EXCEPT ![e] = {}]
        /\ UNCHANGED <<table, backup, draft, saved, slipped, crossed, gone, kind>>
    BY <1>9 DEF Site!LoadReads
  <2> HIDE DEF form
  <2>3. PICK j \in LoadJob : /\ j = [phase |-> "loaded", sent |-> form]
                             /\ j.phase = "loaded" /\ j.sent = form
    <3>1. LET j == [phase |-> "loaded", sent |-> form]
          IN  j \in LoadJob /\ j.phase = "loaded" /\ j.sent = form
      BY <2>1 DEF LoadJob
    <3> QED BY <3>1
  <2>4. /\ excused' \in [Editor -> SUBSET Key] /\ j \in SiteJob
        /\ \A x \in Editor \ {e} : excused'[x] = excused[x]
    BY <1>t, <2>2 DEF SiteJob
  <2>5. Excuses(j.sent, table, excused'[e])
    BY <2>1, <2>3 DEF Excuses
  <2> QED BY <1>t, <1>i, <2>2, <2>3, <2>4, <2>5, SiteGoesOn
<1>10. ASSUME NEW e \in Editor, Site!LoadAnswers(e) PROVE SiteIInv'
  <2>1. /\ task' = [task EXCEPT ![e] = Site!Idle]
        /\ UNCHANGED <<table, backup, excused, slipped, crossed, gone, kind>>
        /\ draft' = [draft EXCEPT ![e] = task[e].sent] /\ saved' = [saved EXCEPT ![e] = task[e].sent]
        /\ task[e].phase = "loaded"
    BY <1>10 DEF Site!LoadAnswers
  <2>2. task[e].sent \in Rows /\ Excuses(task[e].sent, table, excused[e])
    BY <1>t, <1>i, <2>1, SitePhases DEF SiteIInv, FormsExcused
  <2>3. /\ draft' \in [Editor -> Rows] /\ saved' \in [Editor -> Rows] /\ saved'[e] = task[e].sent
        /\ \A x \in Editor \ {e} : saved'[x] = saved[x]
    BY <1>t, <2>1, <2>2
  <2> QED BY <1>t, <1>i, <2>1, <2>2, <2>3, SiteGoesOn
<1>11. CASE Site!Unheard
  <2>1. /\ task' = [task EXCEPT ![None] = Site!Idle] /\ task[None].phase = "done"
        /\ UNCHANGED <<table, backup, draft, saved, excused, slipped, crossed, gone, kind>>
    BY <1>11 DEF Site!Unheard
  <2> QED BY <1>t, <1>i, <2>1, SiteGoesOn
<1>12. CASE Site!CreateBackup \/ Site!DeleteBackup
  <2>1. /\ UNCHANGED <<table, draft, saved, task, slipped, crossed, gone, excused, kind>>
        /\ backup' \in {table, None}
    BY <1>12 DEF Site!CreateBackup, Site!DeleteBackup
  <2> QED BY <1>1, <1>t, <2>1
<1>13. CASE UNCHANGED Site!vars
  <2>1. UNCHANGED <<table, backup, draft, saved, task, slipped, crossed, gone, excused, kind>>
    BY <1>13 DEF Site!vars
  <2> QED BY <1>1, <1>t, <2>1
<1>14. CASE \E e \in Editor : Site!Fail(e) \/ Site!GiveUp(e)
  BY <1>14, SiteFails
<1>15. CASE \E r \in Site!Requester : Site!Review(r)
  BY <1>15, SiteReview
<1> QED BY <1>2, <1>4, <1>5, <1>6, <1>7, <1>8, <1>9, <1>10, <1>11, <1>12, <1>13, <1>14, <1>15, SiteRestore
        DEF Site!Next

LEMMA SettingsGoal == SettingsInductive => SettingsCorrect
<1> SUFFICES ASSUME SiteIInv PROVE Site!TypeOK /\ Site!ReviewExplained /\ Site!CleanExplained
  BY DEF SettingsInductive, SettingsCorrect
<1>1. ASSUME NEW e \in Editor, NEW rows \in Tabs, task[e] = Site!Idle, Site!Clean(e, rows),
             NEW k \in rows, Site!Kept(k, draft[e][k]) # Site!Kept(k, table[k])
      PROVE  k \in excused[e]
  <2>1. task[e].phase = "idle" /\ k \in Key /\ saved[e][k] = draft[e][k]
    BY <1>1, SettingsConstants DEF Site!Idle, Site!Clean
  <2> QED BY <1>1, <2>1 DEF SiteIInv, FormsExcused, Excuses
<1> QED BY <1>1 DEF SiteIInv, SiteTypes, Site!CleanExplained

\* With any number of administrators, rows, tabs, saves, failures and restored backups, an important
\* setting stored anew is named in a policy review, or is about to be, unless another write overtook
\* the save, its review was lost or the row was restored; and a banner tab that calls itself saved
\* shows what is stored, as corrected, but for the rows the model names as excused
\* (routes/admin.ts, lib/policyImpact.ts, banners-page.tsx).
THEOREM SettingsHold == AdminSpec => []SettingsCorrect
<1>1. AdminInit => SettingsInductive
  BY SettingsStarts, SettingsInit DEF SettingsInductive
<1>2. SettingsInductive /\ [AdminNext]_administration => SettingsInductive'
  BY SettingsMoves, SiteStep DEF SettingsInductive
<1> QED BY <1>1, <1>2, SettingsGoal, PTL DEF AdminSpec

-----------------------------------------------------------------------------
(***************************************************************************)
(* The sub-admins' switches (routes/admin.ts, sub-admins/page.tsx).        *)
(***************************************************************************)
Lists == [SubAdmin -> Switches!Permissions]

SentCall == [phase : {"sent"}, admin : SubAdmin, key : Feature, value : BOOLEAN, prev : Lists,
             alone : BOOLEAN]
StoredCall == [phase : {"stored"}, admin : SubAdmin, prev : Lists, alone : BOOLEAN, at : Nat]
AnsweredCall == [phase : {"answered"}, admin : SubAdmin, prev : Lists, alone : BOOLEAN, at : Nat,
                 read : Nat, row : Switches!Permissions]
LateCall == [phase : {"late"}, admin : SubAdmin, key : Feature, value : BOOLEAN]
PatchCall == {Switches!Idle} \cup SentCall \cup StoredCall \cup AnsweredCall \cup LateCall
ListLoad == {Switches!Idle, [phase |-> "done"]} \cup
            [phase : {"read"}, rows : Lists, at : Nat]

SwitchTypes == /\ Switches!TypeOK
               /\ clock \in Nat
               /\ excuse \in [SubAdmin -> SUBSET {"missed", "overtaken", "rolledback"}]
               /\ req \in [Call -> PatchCall]
               /\ load \in ListLoad

\* The calls that have written.
HasWritten(q) == req[q].phase \in {"stored", "answered"}

\* Something tells, or will tell, of a write of the row after this time.
Covered(a, time) == \/ gone[a] > time
                    \/ own[a] > time
                    \/ \E q \in Call : HasWritten(q) /\ req[q].admin = a /\ req[q].at > time

\* There are switches only after the load, and calls only with switches.
SwitchOrder ==
    /\ shown = None => \A q \in Call : req[q] = Switches!Idle
    /\ shown # None => load = [phase |-> "done"]
    /\ \A q \in Call : /\ HasWritten(q) => req[q].at <= clock
                       /\ req[q].phase = "answered" => req[q].at <= req[q].read /\ req[q].read <= clock
    /\ load.phase = "read" => load.at <= clock

\* What was read is what is stored, or a later write is told of.
ReadsCovered ==
    /\ \A q \in Call, a \in SubAdmin, s \in 0..clock :
          req[q].phase = "answered" /\ req[q].admin = a /\ req[q].read = s =>
            req[q].row = Switches!Effective(a) \/ Covered(a, s)
    /\ load.phase = "read" =>
          \A a \in SubAdmin : load.rows[a] = Switches!Effective(a) \/ gone[a] > load.at

\* What is shown is what is stored, or the row has an excuse, or a call about it is under way; and
\* the same of the list that a call without company would bring back.
RowsExplained ==
    /\ shown # None =>
          \A a \in SubAdmin : \/ excuse[a] # {} \/ shown[a] = Switches!Effective(a)
                              \/ \E q \in Switches!InFlight : req[q].admin = a
    /\ \A q \in Switches!InFlight : req[q].alone =>
          /\ Switches!InFlight = {q}
          /\ \A a \in SubAdmin : \/ excuse[a] # {} \/ req[q].prev[a] = Switches!Effective(a)
                                 \/ req[q].admin = a /\ HasWritten(q)

SwitchesIInv == SwitchTypes /\ SwitchOrder /\ ReadsCovered /\ RowsExplained

SwitchesInductive == part = "switches" => SwitchesIInv

LEMMA SwitchesStarts == AdminInit /\ part = "switches" => Switches!Init
  BY DEF AdminInit

LEMMA SwitchesMoves ==
  ASSUME [AdminNext]_administration, part' = "switches"
  PROVE  part = "switches" /\ [Switches!Next]_(Switches!vars)
<1>1. CASE UNCHANGED administration
  BY <1>1 DEF administration, Switches!vars
<1>2. CASE AdminNext
  BY <1>2 DEF AdminNext
<1> QED BY <1>1, <1>2

LEMMA SwitchesConstants == ByDefault \subseteq Feature /\ None \notin BOOLEAN /\ None \notin Lists
  BY SwitchesAssumption DEF Switches!SubAdminsAssumption, Lists, Switches!Permissions

LEMMA SwitchesInit == Switches!Init => SwitchesIInv
<1> SUFFICES ASSUME Switches!Init PROVE SwitchesIInv
  OBVIOUS
<1>1. Switches!Idle.phase = "idle"
  BY DEF Switches!Idle
<1>2. SwitchTypes
  <2>1. clock = 0 /\ 0 \in 0..0
    BY DEF Switches!Init
  <2>2. load \in ListLoad /\ req \in [Call -> PatchCall]
    BY DEF Switches!Init, ListLoad, PatchCall
  <2>3. gone \in [SubAdmin -> 0..clock] /\ own \in [SubAdmin -> 0..clock]
    BY <2>1 DEF Switches!Init
  <2>4. excuse \in [SubAdmin -> SUBSET {"missed", "overtaken", "rolledback"}]
    BY DEF Switches!Init
  <2>5. grants \in [SubAdmin -> [Feature -> BOOLEAN \cup {None}]] /\ shown = None /\ flag = None
    BY DEF Switches!Init
  <2> QED BY <2>1, <2>2, <2>3, <2>4, <2>5 DEF SwitchTypes, Switches!TypeOK
<1>3. \A q \in Call : req[q] = Switches!Idle /\ req[q].phase = "idle"
  BY <1>1 DEF Switches!Init
<1>4. SwitchOrder /\ ReadsCovered
  BY <1>1, <1>3 DEF SwitchOrder, ReadsCovered, Switches!Init, HasWritten
<1>5. RowsExplained
  BY <1>3 DEF RowsExplained, Switches!Init, Switches!InFlight
<1> QED BY <1>2, <1>4, <1>5 DEF SwitchesIInv

\* What is read of the rows is a list of permissions, and the same while they are.
LEMMA EffectiveType ==
  ASSUME SwitchTypes
  PROVE  \A a \in SubAdmin : Switches!Effective(a) \in Switches!Permissions
<1>1. grants \in [SubAdmin -> [Feature -> BOOLEAN \cup {None}]]
  BY DEF SwitchTypes, Switches!TypeOK
<1>2. ASSUME NEW a \in SubAdmin, NEW k \in Feature
      PROVE  (IF grants[a][k] = None THEN k \in ByDefault ELSE grants[a][k]) \in BOOLEAN
  <2>1. CASE grants[a][k] = None
    BY <2>1
  <2>2. CASE grants[a][k] # None
    BY <1>1, <2>2
  <2> QED BY <2>1, <2>2
<1> QED BY <1>2 DEF Switches!Effective, Switches!Permissions

LEMMA EffectiveKept ==
  ASSUME NEW a, grants'[a] = grants[a]
  PROVE  Switches!Effective(a)' = Switches!Effective(a)
  BY DEF Switches!Effective

\* What a call is, told by its phase.
LEMMA CallPhases ==
  ASSUME SwitchTypes, NEW q \in Call
  PROVE  /\ req[q].phase = "sent" => req[q] \in SentCall
         /\ req[q].phase = "stored" => req[q] \in StoredCall
         /\ req[q].phase = "answered" => req[q] \in AnsweredCall
         /\ req[q].phase = "late" => req[q] \in LateCall
         /\ Switches!Idle.phase = "idle"
         /\ req[q].phase \in {"idle", "sent", "stored", "answered", "late"}
<1>1. req[q] \in PatchCall
  BY DEF SwitchTypes
<1>2. Switches!Idle.phase = "idle"
  BY DEF Switches!Idle
<1>3. /\ \A j \in SentCall : j.phase = "sent"
      /\ \A j \in StoredCall : j.phase = "stored"
      /\ \A j \in AnsweredCall : j.phase = "answered"
      /\ \A j \in LateCall : j.phase = "late"
  BY DEF SentCall, StoredCall, AnsweredCall, LateCall
<1> QED BY <1>1, <1>2, <1>3 DEF PatchCall

LEMMA OneCall ==
  ASSUME SwitchTypes, NEW q \in Call, NEW j \in PatchCall, req' = [req EXCEPT ![q] = j]
  PROVE  req' \in [Call -> PatchCall] /\ \A x \in Call : req'[x] = IF x = q THEN j ELSE req[x]
  BY DEF SwitchTypes

\* Times go on.
LEMMA CoveredKept ==
  ASSUME NEW a \in SubAdmin, NEW s \in Nat, Covered(a, s),
         gone[a] \in Nat, own[a] \in Nat, gone'[a] \in Nat, own'[a] \in Nat,
         gone[a] <= gone'[a], own[a] <= own'[a],
         \A q \in Call : HasWritten(q) /\ req[q].admin = a =>
            /\ req[q].at \in Nat
            /\ \/ HasWritten(q)' /\ req'[q].admin = a /\ req'[q].at = req[q].at
               \/ req[q].at <= gone'[a]
               \/ req[q].at <= own'[a]
  PROVE  Covered(a, s)'
<1>1. CASE gone[a] > s \/ own[a] > s
  BY <1>1 DEF Covered
<1>2. CASE \E q \in Call : HasWritten(q) /\ req[q].admin = a /\ req[q].at > s
  <2>1. PICK q \in Call : HasWritten(q) /\ req[q].admin = a /\ req[q].at > s
    BY <1>2
  <2> QED BY <2>1 DEF Covered
<1> QED BY <1>1, <1>2 DEF Covered

LEMMA LoadPhases ==
  ASSUME SwitchTypes
  PROVE  /\ load.phase = "read" => load \in [phase : {"read"}, rows : Lists, at : Nat]
         /\ [phase |-> "done"].phase = "done" /\ Switches!Idle.phase = "idle"
  BY DEF SwitchTypes, ListLoad, Switches!Idle

LEMMA SwitchNumbers ==
  ASSUME SwitchTypes, NEW a \in SubAdmin
  PROVE  /\ gone[a] \in Nat /\ gone[a] <= clock /\ own[a] \in Nat /\ own[a] <= clock /\ clock \in Nat
  BY DEF SwitchTypes, Switches!TypeOK

\* The calls that have written stay covered when each of them is still there or has been told of.
StillTold(q) == \/ HasWritten(q)' /\ req'[q].admin = req[q].admin /\ req'[q].at = req[q].at
                \/ req[q].at <= gone'[req[q].admin]
                \/ req[q].at <= own'[req[q].admin]

LEMMA ReadsKept ==
  ASSUME SwitchTypes, SwitchOrder, ReadsCovered,
         \A q \in Call, a \in SubAdmin : req'[q].phase = "answered" /\ req'[q].admin = a =>
            req'[q] = req[q] \/ req'[q].row = Switches!Effective(a)',
         load'.phase = "read" => load' = load,
         \A a \in SubAdmin : /\ gone'[a] \in Nat /\ own'[a] \in Nat
                             /\ gone[a] <= gone'[a] /\ own[a] <= own'[a],
         \A q \in Call : HasWritten(q) => StillTold(q),
         \A a \in SubAdmin : grants'[a] # grants[a] => \A s \in 0..clock : Covered(a, s)',
         load.phase = "read" => \A a \in SubAdmin : grants'[a] # grants[a] => gone'[a] > clock
  PROVE  ReadsCovered'
<1>1. ASSUME NEW q \in Call, NEW a \in SubAdmin, NEW s,
             req'[q].phase = "answered", req'[q].admin = a, req'[q].read = s
      PROVE  req'[q].row = Switches!Effective(a)' \/ Covered(a, s)'
  <2>1. CASE req'[q] = req[q]
    <3>1. req[q] \in AnsweredCall /\ s \in 0..clock /\ s \in Nat
      BY <1>1, <2>1, CallPhases, SwitchNumbers DEF SwitchOrder, AnsweredCall
    <3>2. req[q].row = Switches!Effective(a) \/ Covered(a, s)
      BY <1>1, <2>1, <3>1 DEF ReadsCovered
    <3>3. CASE grants'[a] # grants[a]
      BY <3>1, <3>3
    <3>4. CASE grants'[a] = grants[a]
      <4>1. CASE req[q].row = Switches!Effective(a)
        BY <2>1, <3>4, <4>1, EffectiveKept
      <4>2. CASE Covered(a, s)
        <5>1. \A x \in Call : HasWritten(x) /\ req[x].admin = a =>
                 /\ req[x].at \in Nat
                 /\ \/ HasWritten(x)' /\ req'[x].admin = a /\ req'[x].at = req[x].at
                    \/ req[x].at <= gone'[a]
                    \/ req[x].at <= own'[a]
          BY CallPhases DEF HasWritten, StoredCall, AnsweredCall, StillTold
        <5>2. Covered(a, s)'
          BY <3>1, <4>2, <5>1, CoveredKept, SwitchNumbers
        <5> QED BY <5>2
      <4> QED BY <3>2, <4>1, <4>2
    <3> QED BY <3>3, <3>4
  <2> QED BY <1>1, <2>1
<1>2. ASSUME load'.phase = "read", NEW a \in SubAdmin
      PROVE  load'.rows[a] = Switches!Effective(a)' \/ gone'[a] > load'.at
  <2>1. /\ load' = load /\ load.at <= clock /\ load.at \in Nat
        /\ load.rows[a] = Switches!Effective(a) \/ gone[a] > load.at
    BY <1>2, LoadPhases DEF SwitchOrder, ReadsCovered
  <2>2. CASE grants'[a] # grants[a]
    BY <1>2, <2>1, <2>2, SwitchNumbers
  <2>3. CASE grants'[a] = grants[a]
    BY <2>1, <2>3, EffectiveKept, SwitchNumbers
  <2> QED BY <2>2, <2>3
<1> QED BY <1>1, <1>2 DEF ReadsCovered

\* A row is written.
LEMMA SwitchWrites ==
  ASSUME SwitchTypes, NEW a \in SubAdmin, NEW k \in Feature, NEW v \in BOOLEAN, Switches!Write(a, k, v)
  PROVE  /\ grants' \in [SubAdmin -> [Feature -> BOOLEAN \cup {None}]]
         /\ clock' = clock + 1 /\ clock' \in Nat
         /\ \A b \in SubAdmin \ {a} : grants'[b] = grants[b]
<1>1. Switches!Stored(k, v) \in BOOLEAN \cup {None}
  BY DEF Switches!Stored
<1>2. grants' = [grants EXCEPT ![a][k] = Switches!Stored(k, v)] /\ clock' = clock + 1
  BY DEF Switches!Write
<1> QED BY <1>1, <1>2 DEF SwitchTypes, Switches!TypeOK

\* Nobody will tell the page of it.
LEMMA SwitchMisses ==
  ASSUME SwitchTypes, NEW a \in SubAdmin, Switches!Miss(a, clock + 1), clock' = clock + 1
  PROVE  /\ gone' \in [SubAdmin -> 0..clock'] /\ gone'[a] = clock + 1
         /\ \A b \in SubAdmin \ {a} : gone'[b] = gone[b] /\ excuse'[b] = excuse[b]
         /\ excuse' \in [SubAdmin -> SUBSET {"missed", "overtaken", "rolledback"}] /\ excuse'[a] # {}
<1>1. /\ gone \in [SubAdmin -> 0..clock] /\ clock \in Nat
      /\ excuse \in [SubAdmin -> SUBSET {"missed", "overtaken", "rolledback"}]
  BY DEF SwitchTypes, Switches!TypeOK
<1>2. /\ gone' = [gone EXCEPT ![a] = IF clock + 1 > gone[a] THEN clock + 1 ELSE gone[a]]
      /\ excuse' = [excuse EXCEPT ![a] = excuse[a] \cup {"missed"}]
  BY DEF Switches!Miss
<1>3. gone' = [gone EXCEPT ![a] = clock + 1]
  <2>1. gone[a] \in Nat /\ gone[a] <= clock /\ clock \in Nat
    BY SwitchNumbers
  <2>2. clock + 1 > gone[a]
    BY <2>1
  <2> QED BY <1>2, <2>2
<1> QED BY <1>1, <1>2, <1>3

LEMMA SwitchReadList ==
  ASSUME SwitchesIInv, Switches!ReadList
  PROVE  SwitchesIInv'
<1>t. SwitchTypes /\ SwitchOrder /\ ReadsCovered /\ RowsExplained
  BY DEF SwitchesIInv
<1>1. /\ UNCHANGED <<grants, clock, shown, flag, req, own, gone, excuse>> /\ load = Switches!Idle
      /\ load' = [phase |-> "read", rows |-> [a \in SubAdmin |-> Switches!Effective(a)], at |-> clock]
  BY DEF Switches!ReadList
<1>2. [a \in SubAdmin |-> Switches!Effective(a)] \in Lists
  BY <1>t, EffectiveType DEF Lists
<1>3. /\ load' \in [phase : {"read"}, rows : Lists, at : Nat] /\ load'.at = clock /\ load'.phase = "read"
      /\ load'.rows = [a \in SubAdmin |-> Switches!Effective(a)]
  BY <1>t, <1>1, <1>2 DEF SwitchTypes
<1>4. shown = None
  BY <1>t, <1>1, LoadPhases DEF SwitchOrder
<1>5. SwitchTypes'
  BY <1>t, <1>1, <1>3 DEF SwitchTypes, Switches!TypeOK, ListLoad
<1>6. SwitchOrder'
  BY <1>t, <1>1, <1>3, <1>4 DEF SwitchOrder, HasWritten, SwitchTypes
<1>7. \A q \in Call : req[q].phase = "idle"
  BY <1>t, <1>4, CallPhases DEF SwitchOrder
<1>8. \A a \in SubAdmin : Switches!Effective(a)' = Switches!Effective(a)
  BY <1>1, EffectiveKept
<1>9. ReadsCovered'
  BY <1>1, <1>3, <1>7, <1>8 DEF ReadsCovered
<1>10. RowsExplained'
  BY <1>1, <1>4, <1>7 DEF RowsExplained, Switches!InFlight
<1> QED BY <1>5, <1>6, <1>9, <1>10 DEF SwitchesIInv

LEMMA SwitchShowList ==
  ASSUME SwitchesIInv, Switches!ShowList
  PROVE  SwitchesIInv'
<1>t. SwitchTypes /\ SwitchOrder /\ ReadsCovered /\ RowsExplained
  BY DEF SwitchesIInv
<1>1. /\ UNCHANGED <<grants, clock, flag, req, gone>> /\ load.phase = "read"
      /\ shown' = load.rows /\ own' = [a \in SubAdmin |-> load.at]
      /\ excuse' = [a \in SubAdmin |-> Switches!Since(a, load.at)]
      /\ load' = [phase |-> "done"]
  BY DEF Switches!ShowList
<1>2. load.rows \in Lists /\ load.at \in Nat /\ load.at <= clock /\ clock \in Nat
  BY <1>t, <1>1, LoadPhases DEF SwitchOrder, SwitchTypes
<1>3. shown = None /\ load'.phase = "done"
  BY <1>t, <1>1, LoadPhases DEF SwitchOrder
<1>4. \A q \in Call : req[q] = Switches!Idle /\ req[q].phase = "idle"
  BY <1>t, <1>3, CallPhases DEF SwitchOrder
<1>5. excuse' \in [SubAdmin -> SUBSET {"missed", "overtaken", "rolledback"}]
  BY <1>1 DEF Switches!Since
<1>6. own' \in [SubAdmin -> 0..clock]
  BY <1>1, <1>2
<1>7. SwitchTypes'
  BY <1>t, <1>1, <1>2, <1>5, <1>6 DEF SwitchTypes, Switches!TypeOK, ListLoad, Lists
<1>8. SwitchOrder'
  BY <1>1, <1>3, <1>4 DEF SwitchOrder, HasWritten
<1>9. ReadsCovered'
  BY <1>1, <1>3, <1>4 DEF ReadsCovered
<1>10. ASSUME NEW a \in SubAdmin PROVE excuse'[a] # {} \/ shown'[a] = Switches!Effective(a)'
  <2>1. load.rows[a] = Switches!Effective(a) \/ gone[a] > load.at
    BY <1>t, <1>1 DEF ReadsCovered
  <2>2. Switches!Effective(a)' = Switches!Effective(a)
    BY <1>1, EffectiveKept
  <2> QED BY <1>1, <2>1, <2>2 DEF Switches!Since
<1>11. RowsExplained'
  BY <1>1, <1>4, <1>10 DEF RowsExplained, Switches!InFlight
<1> QED BY <1>7, <1>8, <1>9, <1>11 DEF SwitchesIInv

\* What is shown stays as it is.
LEMMA SwitchKeeps ==
  ASSUME SwitchesIInv, UNCHANGED <<grants, clock, shown, flag, req, own, gone, excuse>>,
         load' = load \/ (load' = [phase |-> "done"])
  PROVE  SwitchesIInv'
<1>t. SwitchTypes /\ SwitchOrder /\ ReadsCovered /\ RowsExplained
  BY DEF SwitchesIInv
<1>1. [phase |-> "done"].phase = "done"
  OBVIOUS
<1>2. SwitchTypes'
  BY <1>t DEF SwitchTypes, Switches!TypeOK, ListLoad
<1>3. SwitchOrder'
  BY <1>t, <1>1 DEF SwitchOrder, HasWritten
<1>4. \A a \in SubAdmin : Switches!Effective(a)' = Switches!Effective(a)
  BY EffectiveKept
<1>5. ReadsCovered'
  <2>1. ASSUME NEW a \in SubAdmin, NEW s, Covered(a, s)
        PROVE  Covered(a, s)'
    BY <2>1 DEF Covered, HasWritten
  <2>2. load'.phase = "read" => load' = load
    BY <1>1
  <2> QED BY <1>t, <1>4, <2>1, <2>2 DEF ReadsCovered
<1>6. RowsExplained'
  BY <1>t, <1>4 DEF RowsExplained, Switches!InFlight, HasWritten
<1> QED BY <1>2, <1>3, <1>5, <1>6 DEF SwitchesIInv

\* A row is written and the page is not told, by a call it has given up or from elsewhere.
LEMMA SwitchUntold ==
  ASSUME SwitchesIInv, NEW a \in SubAdmin, NEW k \in Feature, NEW v \in BOOLEAN,
         Switches!Write(a, k, v), Switches!Miss(a, clock + 1),
         UNCHANGED <<load, shown, flag, own>>,
         req' \in [Call -> PatchCall],
         \A q \in Call : \/ req'[q] = req[q]
                         \/ req[q].phase = "late" /\ req'[q] = Switches!Idle
  PROVE  SwitchesIInv'
<1>t. SwitchTypes /\ SwitchOrder /\ ReadsCovered /\ RowsExplained
  BY DEF SwitchesIInv
<1>1. /\ grants' \in [SubAdmin -> [Feature -> BOOLEAN \cup {None}]]
      /\ clock' = clock + 1 /\ clock' \in Nat /\ clock \in Nat
      /\ \A b \in SubAdmin \ {a} : grants'[b] = grants[b]
  BY <1>t, SwitchWrites DEF SwitchTypes
<1>2. /\ gone' \in [SubAdmin -> 0..clock'] /\ gone'[a] = clock + 1
      /\ \A b \in SubAdmin \ {a} : gone'[b] = gone[b] /\ excuse'[b] = excuse[b]
      /\ excuse' \in [SubAdmin -> SUBSET {"missed", "overtaken", "rolledback"}] /\ excuse'[a] # {}
  BY <1>t, <1>1, SwitchMisses
<1>3. own' \in [SubAdmin -> 0..clock']
  BY <1>t, <1>1 DEF SwitchTypes, Switches!TypeOK
<1>4. SwitchTypes'
  BY <1>t, <1>1, <1>2, <1>3 DEF SwitchTypes, Switches!TypeOK
<1>5. \A q \in Call : /\ req'[q].phase \in {"sent", "stored", "answered"} => req'[q] = req[q]
                      /\ req[q].phase \in {"sent", "stored", "answered"} => req'[q] = req[q]
  BY <1>t, CallPhases
<1>6. SwitchOrder'
  <2>1. \A q \in Call : /\ HasWritten(q) => req[q].at \in Nat
                        /\ req[q].phase = "answered" => req[q].read \in Nat
    BY <1>t, CallPhases DEF HasWritten, StoredCall, AnsweredCall
  <2>2. load.phase = "read" => load.at \in Nat
    BY <1>t, LoadPhases
  <2>3. shown = None => \A q \in Call : req[q].phase = "idle"
    BY <1>t, CallPhases DEF SwitchOrder
  <2>4. shown' = None => \A q \in Call : req'[q] = Switches!Idle
    BY <1>t, <2>3 DEF SwitchOrder
  <2> QED BY <1>t, <1>1, <1>5, <2>1, <2>2, <2>4 DEF SwitchOrder, HasWritten
<1>7. ReadsCovered'
  <2>1. \A b \in SubAdmin : /\ gone'[b] \in Nat /\ own'[b] \in Nat
                            /\ gone[b] <= gone'[b] /\ own[b] <= own'[b]
    <3>1. \A b \in SubAdmin : gone'[b] = gone[b] \/ gone'[b] = clock + 1
      BY <1>2
    <3> QED BY <1>t, <1>1, <3>1, SwitchNumbers
  <2>2. \A q \in Call : HasWritten(q) => StillTold(q)
    BY <1>5 DEF HasWritten, StillTold
  <2>3. \A b \in SubAdmin : grants'[b] # grants[b] => gone'[b] > clock
    BY <1>1, <1>2
  <2>4. \A b \in SubAdmin : grants'[b] # grants[b] => \A s \in 0..clock : Covered(b, s)'
    BY <1>1, <2>3, <2>1 DEF Covered
  <2>5. \A q \in Call, b \in SubAdmin : req'[q].phase = "answered" /\ req'[q].admin = b =>
            req'[q] = req[q] \/ req'[q].row = Switches!Effective(b)'
    BY <1>5
  <2> QED BY <1>t, <2>1, <2>2, <2>3, <2>4, <2>5, ReadsKept
<1>8. \A b \in SubAdmin : excuse'[b] # {} \/ (excuse'[b] = excuse[b] /\ Switches!Effective(b)' = Switches!Effective(b))
  BY <1>1, <1>2, EffectiveKept
<1>9. RowsExplained'
  BY <1>t, <1>5, <1>8 DEF RowsExplained, Switches!InFlight, HasWritten
<1> QED BY <1>4, <1>6, <1>7, <1>9 DEF SwitchesIInv

LEMMA SwitchElsewhere ==
  ASSUME SwitchesIInv, NEW a \in SubAdmin, NEW k \in Feature, Switches!ChangedElsewhere(a, k)
  PROVE  SwitchesIInv'
<1>1. SwitchTypes
  BY DEF SwitchesIInv
<1>2. req' \in [Call -> PatchCall] /\ req' = req
  BY <1>1 DEF SwitchTypes, Switches!ChangedElsewhere
<1>3. (~Switches!Effective(a)[k]) \in BOOLEAN
  <2>1. \A w \in BOOLEAN : (~w) \in BOOLEAN
    OBVIOUS
  <2>2. Switches!Effective(a)[k] \in BOOLEAN
    BY <1>1, EffectiveType DEF Switches!Permissions
  <2> QED BY <2>1, <2>2
<1>4. PICK v \in BOOLEAN : v = ~Switches!Effective(a)[k]
  BY <1>3
<1>5. Switches!Write(a, k, v) /\ Switches!Miss(a, clock + 1) /\ UNCHANGED <<load, shown, flag, own>>
  BY <1>4 DEF Switches!ChangedElsewhere
<1> QED BY <1>2, <1>5, SwitchUntold

LEMMA SwitchLate ==
  ASSUME SwitchesIInv, NEW q \in Call, Switches!CommitLate(q)
  PROVE  SwitchesIInv'
<1>1. SwitchTypes
  BY DEF SwitchesIInv
<1>2. req[q] \in LateCall /\ req[q].phase = "late"
  BY <1>1, CallPhases DEF Switches!CommitLate
<1>3. PICK a \in SubAdmin, k \in Feature, v \in BOOLEAN :
         a = req[q].admin /\ k = req[q].key /\ v = req[q].value
  BY <1>2 DEF LateCall
<1>4. /\ Switches!Write(a, k, v) /\ Switches!Miss(a, clock + 1) /\ UNCHANGED <<load, shown, flag, own>>
      /\ req' = [req EXCEPT ![q] = Switches!Idle]
  BY <1>3 DEF Switches!CommitLate
<1>5. Switches!Idle \in PatchCall
  BY DEF PatchCall
<1>6. req' \in [Call -> PatchCall] /\ \A x \in Call : req'[x] = IF x = q THEN Switches!Idle ELSE req[x]
  BY <1>1, <1>4, <1>5, OneCall
<1> QED BY <1>2, <1>4, <1>6, SwitchUntold

LEMMA SwitchCommit ==
  ASSUME SwitchesIInv, NEW q \in Call, Switches!Commit(q)
  PROVE  SwitchesIInv'
<1>t. SwitchTypes /\ SwitchOrder /\ ReadsCovered /\ RowsExplained
  BY DEF SwitchesIInv
<1>1. req[q] \in SentCall /\ req[q].phase = "sent"
  BY <1>t, CallPhases DEF Switches!Commit
<1>2. PICK a \in SubAdmin, k \in Feature, v \in BOOLEAN, al \in BOOLEAN, pr \in Lists :
         /\ a = req[q].admin /\ k = req[q].key /\ v = req[q].value
         /\ al = req[q].alone /\ pr = req[q].prev
  BY <1>1 DEF SentCall
<1>3. /\ Switches!Write(a, k, v) /\ UNCHANGED <<load, shown, flag, own, gone, excuse>>
      /\ req' = [req EXCEPT ![q] = [phase |-> "stored", admin |-> a, prev |-> pr, alone |-> al,
                                    at |-> clock + 1]]
  BY <1>2 DEF Switches!Commit
<1>4. clock \in Nat
  BY <1>t DEF SwitchTypes
<1>5. PICK j \in PatchCall : /\ j = [phase |-> "stored", admin |-> a, prev |-> pr, alone |-> al,
                                     at |-> clock + 1]
                             /\ j.phase = "stored" /\ j.admin = a /\ j.prev = pr /\ j.alone = al
                             /\ j.at = clock + 1
  <2>1. [phase |-> "stored", admin |-> a, prev |-> pr, alone |-> al, at |-> clock + 1] \in StoredCall
    BY <1>4 DEF StoredCall
  <2> QED BY <2>1 DEF PatchCall
<1>6. /\ req' \in [Call -> PatchCall] /\ \A x \in Call : req'[x] = IF x = q THEN j ELSE req[x]
  <2>1. req' = [req EXCEPT ![q] = j]
    BY <1>3, <1>5
  <2> QED BY <1>t, <2>1, OneCall
<1>7. /\ grants' \in [SubAdmin -> [Feature -> BOOLEAN \cup {None}]]
      /\ clock' = clock + 1 /\ clock' \in Nat
      /\ \A b \in SubAdmin \ {a} : grants'[b] = grants[b]
  BY <1>t, <1>3, SwitchWrites
<1>8. SwitchTypes'
  <2>1. own' \in [SubAdmin -> 0..clock'] /\ gone' \in [SubAdmin -> 0..clock']
    BY <1>t, <1>3, <1>4, <1>7 DEF SwitchTypes, Switches!TypeOK
  <2> QED BY <1>t, <1>3, <1>6, <1>7, <2>1 DEF SwitchTypes, Switches!TypeOK
<1>9. shown # None /\ load.phase # "read"
  BY <1>t, <1>1, CallPhases, LoadPhases DEF SwitchOrder
<1>10. SwitchOrder'
  <2>1. \A x \in Call : /\ HasWritten(x) => req[x].at \in Nat
                        /\ req[x].phase = "answered" => req[x].read \in Nat
    BY <1>t, CallPhases DEF HasWritten, StoredCall, AnsweredCall
  <2> QED BY <1>t, <1>3, <1>4, <1>5, <1>6, <1>7, <1>9, <2>1 DEF SwitchOrder, HasWritten
<1>11. ReadsCovered'
  <2>1. \A b \in SubAdmin : /\ gone'[b] \in Nat /\ own'[b] \in Nat
                            /\ gone[b] <= gone'[b] /\ own[b] <= own'[b]
    BY <1>t, <1>3, SwitchNumbers
  <2>2. \A x \in Call : HasWritten(x) => StillTold(x)
    BY <1>1, <1>6 DEF HasWritten, StillTold
  <2>3. \A s \in 0..clock : Covered(a, s)'
    BY <1>4, <1>5, <1>6 DEF Covered, HasWritten
  <2>4. \A b \in SubAdmin : grants'[b] # grants[b] => b = a
    BY <1>7
  <2>5. \A x \in Call, b \in SubAdmin : req'[x].phase = "answered" /\ req'[x].admin = b =>
            req'[x] = req[x] \/ req'[x].row = Switches!Effective(b)'
    BY <1>5, <1>6
  <2>6. \A b \in SubAdmin : grants'[b] # grants[b] => \A s \in 0..clock : Covered(b, s)'
    BY <2>3, <2>4
  <2> QED BY <1>t, <1>3, <1>9, <2>1, <2>2, <2>5, <2>6, ReadsKept
<1>12. RowsExplained'
  <2>1. \A b \in SubAdmin \ {a} : Switches!Effective(b)' = Switches!Effective(b)
    BY <1>7, EffectiveKept
  <2>2. Switches!InFlight' = Switches!InFlight /\ q \in Switches!InFlight
    BY <1>1, <1>5, <1>6 DEF Switches!InFlight
  <2>3. ASSUME NEW b \in SubAdmin
        PROVE  \/ excuse'[b] # {} \/ shown'[b] = Switches!Effective(b)'
               \/ \E x \in Switches!InFlight' : req'[x].admin = b
    <3>1. CASE b = a
      BY <1>5, <1>6, <2>2, <3>1
    <3>2. CASE b # a
      <4>1. \A x \in Switches!InFlight : req'[x].admin = req[x].admin
        BY <1>2, <1>5, <1>6 DEF Switches!InFlight
      <4> QED BY <1>t, <1>3, <1>9, <2>1, <2>2, <3>2, <4>1 DEF RowsExplained
    <3> QED BY <3>1, <3>2
  <2>4. ASSUME NEW x \in Switches!InFlight', req'[x].alone
        PROVE  /\ Switches!InFlight' = {x}
               /\ \A b \in SubAdmin : \/ excuse'[b] # {} \/ req'[x].prev[b] = Switches!Effective(b)'
                                      \/ req'[x].admin = b /\ HasWritten(x)'
    <3>1. x \in Call /\ req[x].alone /\ x \in Switches!InFlight
      BY <1>2, <1>5, <1>6, <2>2, <2>4 DEF Switches!InFlight
    <3>2. Switches!InFlight = {x} /\ x = q
      BY <1>t, <2>2, <3>1 DEF RowsExplained
    <3>3. HasWritten(q)' /\ req'[q].admin = a /\ req'[q].prev = req[q].prev
      BY <1>2, <1>5, <1>6 DEF HasWritten
    <3>4. \A b \in SubAdmin \ {a} : excuse'[b] # {} \/ req[q].prev[b] = Switches!Effective(b)'
      BY <1>t, <1>2, <1>3, <2>1, <3>1, <3>2 DEF RowsExplained
    <3> QED BY <2>2, <3>2, <3>3, <3>4
  <2> QED BY <2>3, <2>4 DEF RowsExplained
<1> QED BY <1>8, <1>10, <1>11, <1>12 DEF SwitchesIInv

LEMMA SwitchReread ==
  ASSUME SwitchesIInv, NEW q \in Call, Switches!Reread(q)
  PROVE  SwitchesIInv'
<1>t. SwitchTypes /\ SwitchOrder /\ ReadsCovered /\ RowsExplained
  BY DEF SwitchesIInv
<1>1. req[q] \in StoredCall /\ req[q].phase = "stored"
  BY <1>t, CallPhases DEF Switches!Reread
<1>2. PICK a \in SubAdmin, al \in BOOLEAN, pr \in Lists, n \in Nat, e \in Switches!Permissions :
         /\ a = req[q].admin /\ al = req[q].alone /\ pr = req[q].prev /\ n = req[q].at
         /\ e = Switches!Effective(a)
  BY <1>t, <1>1, EffectiveType DEF StoredCall
<1>3. /\ UNCHANGED <<grants, clock, load, shown, flag, own, gone, excuse>>
      /\ req' = [req EXCEPT ![q] = [phase |-> "answered", admin |-> a, prev |-> pr, alone |-> al,
                                    at |-> n, read |-> clock, row |-> e]]
  BY <1>2 DEF Switches!Reread
<1>4. clock \in Nat /\ n <= clock
  BY <1>t, <1>1, <1>2 DEF SwitchTypes, SwitchOrder, HasWritten
<1>5. PICK j \in PatchCall : /\ j = [phase |-> "answered", admin |-> a, prev |-> pr, alone |-> al,
                                     at |-> n, read |-> clock, row |-> e]
                             /\ j.phase = "answered" /\ j.admin = a /\ j.prev = pr /\ j.alone = al
                             /\ j.at = n /\ j.read = clock /\ j.row = e
  <2>1. [phase |-> "answered", admin |-> a, prev |-> pr, alone |-> al, at |-> n, read |-> clock, row |-> e]
          \in AnsweredCall
    BY <1>4 DEF AnsweredCall
  <2> QED BY <2>1 DEF PatchCall
<1>6. /\ req' \in [Call -> PatchCall] /\ \A x \in Call : req'[x] = IF x = q THEN j ELSE req[x]
  <2>1. req' = [req EXCEPT ![q] = j]
    BY <1>3, <1>5
  <2> QED BY <1>t, <2>1, OneCall
<1>7. \A b : Switches!Effective(b)' = Switches!Effective(b)
  BY <1>3, EffectiveKept
<1>8. SwitchTypes'
  BY <1>t, <1>3, <1>6 DEF SwitchTypes, Switches!TypeOK
<1>9. shown # None /\ load.phase # "read"
  BY <1>t, <1>1, CallPhases, LoadPhases DEF SwitchOrder
<1>10. SwitchOrder'
  BY <1>t, <1>3, <1>4, <1>5, <1>6, <1>9 DEF SwitchOrder, HasWritten
<1>11. ReadsCovered'
  <2>1. \A b \in SubAdmin : /\ gone'[b] \in Nat /\ own'[b] \in Nat
                            /\ gone[b] <= gone'[b] /\ own[b] <= own'[b]
    BY <1>t, <1>3, SwitchNumbers
  <2>2. \A x \in Call : HasWritten(x) => StillTold(x)
    BY <1>2, <1>5, <1>6 DEF HasWritten, StillTold
  <2>3. \A x \in Call, b \in SubAdmin : req'[x].phase = "answered" /\ req'[x].admin = b =>
            req'[x] = req[x] \/ req'[x].row = Switches!Effective(b)'
    BY <1>2, <1>5, <1>6, <1>7
  <2> QED BY <1>t, <1>3, <1>9, <2>1, <2>2, <2>3, ReadsKept
<1>12. RowsExplained'
  <2>1. \A x \in Call : /\ req'[x].alone = req[x].alone /\ req'[x].admin = req[x].admin
                        /\ req'[x].prev = req[x].prev
    BY <1>2, <1>5, <1>6
  <2>2. Switches!InFlight' = Switches!InFlight /\ \A x \in Call : HasWritten(x) => HasWritten(x)'
    BY <1>1, <1>5, <1>6 DEF Switches!InFlight, HasWritten
  <2> QED BY <1>t, <1>3, <1>7, <2>1, <2>2 DEF RowsExplained, Switches!InFlight
<1> QED BY <1>8, <1>10, <1>11, <1>12 DEF SwitchesIInv

LEMMA SwitchToggle ==
  ASSUME SwitchesIInv, NEW q \in Call, NEW a \in SubAdmin, NEW k \in Feature, Switches!Toggle(q, a, k)
  PROVE  SwitchesIInv'
<1>t. SwitchTypes /\ SwitchOrder /\ ReadsCovered /\ RowsExplained
  BY DEF SwitchesIInv
<1>1. /\ UNCHANGED <<grants, clock, load, own, gone, excuse>> /\ shown # None /\ req[q] = Switches!Idle
      /\ shown' = [shown EXCEPT ![a][k] = ~shown[a][k]] /\ flag' = <<a, k>>
  BY DEF Switches!Toggle
<1>2. shown \in Lists
  BY <1>t, <1>1 DEF SwitchTypes, Switches!TypeOK, Lists
<1>3. PICK v \in BOOLEAN : v = ~shown[a][k]
  <2>1. shown[a][k] \in BOOLEAN
    BY <1>2 DEF Lists, Switches!Permissions
  <2>2. \A w \in BOOLEAN : (~w) \in BOOLEAN
    OBVIOUS
  <2> QED BY <2>1, <2>2
<1>4. PICK al \in BOOLEAN : al = (Switches!InFlight = {})
  OBVIOUS
<1>5. shown' \in Lists /\ shown' # None /\ \A b \in SubAdmin \ {a} : shown'[b] = shown[b]
  <2>1. shown' = [shown EXCEPT ![a][k] = v]
    BY <1>1, <1>3
  <2>2. shown' \in Lists
    BY <1>2, <2>1 DEF Lists, Switches!Permissions
  <2>3. \A b \in SubAdmin \ {a} : shown'[b] = shown[b]
    BY <1>2, <2>1 DEF Lists, Switches!Permissions
  <2> QED BY <2>2, <2>3, SwitchesConstants
<1>6. PICK j \in PatchCall : /\ j = [phase |-> "sent", admin |-> a, key |-> k, value |-> v, prev |-> shown,
                                     alone |-> al]
                             /\ j.phase = "sent" /\ j.admin = a /\ j.prev = shown /\ j.alone = al
  <2>1. [phase |-> "sent", admin |-> a, key |-> k, value |-> v, prev |-> shown, alone |-> al] \in SentCall
    BY <1>2 DEF SentCall
  <2> QED BY <2>1 DEF PatchCall
<1>7. req' = [x \in Call |-> IF x = q THEN j
                             ELSE IF x \in Switches!InFlight THEN [req[x] EXCEPT !.alone = FALSE]
                             ELSE req[x]]
  BY <1>3, <1>4, <1>6 DEF Switches!Toggle, Switches!Copy
<1>8. ASSUME NEW x \in Switches!InFlight
      PROVE  LET i == [req[x] EXCEPT !.alone = FALSE]
             IN  /\ i \in PatchCall /\ i.phase = req[x].phase /\ i.admin = req[x].admin
                 /\ i.prev = req[x].prev /\ ~i.alone
                 /\ req[x].phase # "sent" => i.at = req[x].at
                 /\ req[x].phase = "answered" => i.read = req[x].read /\ i.row = req[x].row
  <2>1. req[x].phase \in {"sent", "stored", "answered"} /\ x \in Call
    BY DEF Switches!InFlight
  <2>2. \A c \in SentCall : LET i == [c EXCEPT !.alone = FALSE]
                            IN  /\ i \in SentCall /\ i.phase = c.phase /\ i.admin = c.admin
                                /\ i.prev = c.prev /\ i.alone = FALSE
    BY DEF SentCall
  <2>3. \A c \in StoredCall : LET i == [c EXCEPT !.alone = FALSE]
                              IN  /\ i \in StoredCall /\ i.phase = c.phase /\ i.admin = c.admin
                                  /\ i.prev = c.prev /\ i.alone = FALSE /\ i.at = c.at
    BY DEF StoredCall
  <2>4. \A c \in AnsweredCall : LET i == [c EXCEPT !.alone = FALSE]
                                IN  /\ i \in AnsweredCall /\ i.phase = c.phase /\ i.admin = c.admin
                                    /\ i.prev = c.prev /\ i.alone = FALSE /\ i.at = c.at
                                    /\ i.read = c.read /\ i.row = c.row
    BY DEF AnsweredCall
  <2>5. CASE req[x].phase = "sent"
    BY <1>t, <2>1, <2>2, <2>5, CallPhases DEF PatchCall
  <2>6. CASE req[x].phase = "stored"
    BY <1>t, <2>1, <2>3, <2>6, CallPhases DEF PatchCall
  <2>7. CASE req[x].phase = "answered"
    BY <1>t, <2>1, <2>4, <2>7, CallPhases DEF PatchCall
  <2> QED BY <2>1, <2>5, <2>6, <2>7
<1>9. q \notin Switches!InFlight /\ req[q].phase = "idle"
  BY <1>t, <1>1, CallPhases DEF Switches!InFlight
<1>10. req' \in [Call -> PatchCall]
  <2>1. \A x \in Call : req[x] \in PatchCall
    BY <1>t DEF SwitchTypes
  <2> QED BY <1>7, <1>8, <2>1
<1>11. ASSUME NEW x \in Call, x # q
       PROVE  /\ req'[x].phase = req[x].phase /\ (x \in Switches!InFlight => ~req'[x].alone)
              /\ x \in Switches!InFlight => req'[x].admin = req[x].admin /\ req'[x].prev = req[x].prev
              /\ HasWritten(x) => req'[x].admin = req[x].admin /\ req'[x].at = req[x].at
              /\ req[x].phase = "answered" => req'[x].read = req[x].read /\ req'[x].row = req[x].row
  <2>1. CASE x \in Switches!InFlight
    BY <1>7, <1>8, <1>11, <2>1 DEF HasWritten
  <2>2. CASE x \notin Switches!InFlight
    BY <1>7, <1>11, <2>2 DEF HasWritten, Switches!InFlight
  <2> QED BY <2>1, <2>2
<1>12. req'[q] = j
  BY <1>7
<1>13. SwitchTypes'
  BY <1>t, <1>1, <1>5, <1>10 DEF SwitchTypes, Switches!TypeOK, Lists
<1>14. SwitchOrder'
  BY <1>t, <1>1, <1>5, <1>6, <1>11, <1>12 DEF SwitchOrder, HasWritten
<1>15. \A b : Switches!Effective(b)' = Switches!Effective(b)
  BY <1>1, EffectiveKept
<1>16. \A x \in Call : /\ HasWritten(x)' = HasWritten(x)
                       /\ req'[x].phase = "answered" <=> req[x].phase = "answered"
  BY <1>6, <1>9, <1>11, <1>12 DEF HasWritten
<1>17. ReadsCovered'
  <2>1. ASSUME NEW b \in SubAdmin, NEW s, Covered(b, s)
        PROVE  Covered(b, s)'
    <3>1. \A x \in Call : HasWritten(x) => req'[x].admin = req[x].admin /\ req'[x].at = req[x].at
      BY <1>9, <1>11 DEF HasWritten
    <3> QED BY <1>1, <1>16, <2>1, <3>1 DEF Covered
  <2>2. \A x \in Call : req'[x].phase = "answered" =>
           /\ req[x].phase = "answered" /\ req'[x].admin = req[x].admin
           /\ req'[x].read = req[x].read /\ req'[x].row = req[x].row
    BY <1>9, <1>11, <1>16 DEF HasWritten
  <2> QED BY <1>t, <1>1, <1>15, <2>1, <2>2 DEF ReadsCovered
<1>18. RowsExplained'
  <2>1. Switches!InFlight' = Switches!InFlight \cup {q}
    BY <1>6, <1>11, <1>12 DEF Switches!InFlight
  <2>2. ASSUME NEW b \in SubAdmin
        PROVE  \/ excuse'[b] # {} \/ shown'[b] = Switches!Effective(b)'
               \/ \E x \in Switches!InFlight' : req'[x].admin = b
    <3>1. CASE b = a
      BY <1>6, <1>12, <2>1, <3>1
    <3>2. CASE b # a
      <4>1. \/ excuse[b] # {} \/ shown[b] = Switches!Effective(b)
            \/ \E x \in Switches!InFlight : req[x].admin = b
        BY <1>t, <1>1 DEF RowsExplained
      <4>2. \A x \in Switches!InFlight : x \in Call /\ req'[x].admin = req[x].admin
        BY <1>9, <1>11 DEF Switches!InFlight
      <4> QED BY <1>1, <1>5, <1>15, <2>1, <3>2, <4>1, <4>2
    <3> QED BY <3>1, <3>2
  <2>3. ASSUME NEW x \in Switches!InFlight', req'[x].alone
        PROVE  /\ Switches!InFlight' = {x}
               /\ \A b \in SubAdmin : \/ excuse'[b] # {} \/ req'[x].prev[b] = Switches!Effective(b)'
                                      \/ req'[x].admin = b /\ HasWritten(x)'
    <3>1. x = q
      <4>1. SUFFICES ASSUME x # q PROVE FALSE
        OBVIOUS
      <4>2. x \in Switches!InFlight /\ x \in Call
        BY <2>1, <2>3, <4>1 DEF Switches!InFlight
      <4> QED BY <1>11, <2>3, <4>1, <4>2
    <3>2. Switches!InFlight = {}
      BY <1>4, <1>6, <1>12, <2>3, <3>1
    <3>3. \A b \in SubAdmin : excuse[b] # {} \/ shown[b] = Switches!Effective(b)
      BY <1>t, <1>1, <3>2 DEF RowsExplained
    <3> QED BY <1>1, <1>6, <1>12, <1>15, <2>1, <3>1, <3>2, <3>3
  <2> QED BY <2>2, <2>3 DEF RowsExplained
<1> QED BY <1>13, <1>14, <1>17, <1>18 DEF SwitchesIInv

LEMMA SwitchAnswer ==
  ASSUME SwitchesIInv, NEW q \in Call, Switches!Answer(q)
  PROVE  SwitchesIInv'
<1>t. SwitchTypes /\ SwitchOrder /\ ReadsCovered /\ RowsExplained
  BY DEF SwitchesIInv
<1>1. req[q] \in AnsweredCall /\ req[q].phase = "answered"
  BY <1>t, CallPhases DEF Switches!Answer
<1>2. PICK a \in SubAdmin, m \in Nat, n \in Nat, e \in Switches!Permissions :
         a = req[q].admin /\ m = req[q].at /\ n = req[q].read /\ e = req[q].row
  BY <1>1 DEF AnsweredCall
<1>3. /\ UNCHANGED <<grants, clock, load, gone>> /\ shown' = [shown EXCEPT ![a] = e] /\ flag' = None
      /\ req' = [req EXCEPT ![q] = Switches!Idle]
      /\ IF n >= own[a]
         THEN own' = [own EXCEPT ![a] = n] /\ excuse' = [excuse EXCEPT ![a] = Switches!Since(a, n)]
         ELSE excuse' = [excuse EXCEPT ![a] = excuse[a] \cup {"overtaken"}] /\ own' = own
  BY <1>2 DEF Switches!Answer
<1>4. clock \in Nat /\ m <= n /\ n <= clock
  BY <1>t, <1>1, <1>2 DEF SwitchTypes, SwitchOrder
<1>5. shown # None /\ shown \in Lists /\ load.phase # "read"
  BY <1>t, <1>1, CallPhases, LoadPhases DEF SwitchOrder, SwitchTypes, Switches!TypeOK, Lists
<1>6. shown' \in Lists /\ shown' # None /\ shown'[a] = e /\ \A b \in SubAdmin \ {a} : shown'[b] = shown[b]
  <2>1. shown' \in Lists /\ shown'[a] = e /\ \A b \in SubAdmin \ {a} : shown'[b] = shown[b]
    BY <1>3, <1>5 DEF Lists
  <2> QED BY <2>1, SwitchesConstants
<1>7. /\ req' \in [Call -> PatchCall]
      /\ \A x \in Call : req'[x] = IF x = q THEN Switches!Idle ELSE req[x]
      /\ Switches!Idle.phase = "idle"
  <2>1. Switches!Idle \in PatchCall
    BY DEF PatchCall
  <2> QED BY <1>t, <1>3, <2>1, OneCall, CallPhases
<1>8. /\ own \in [SubAdmin -> 0..clock] /\ gone \in [SubAdmin -> 0..clock]
      /\ excuse \in [SubAdmin -> SUBSET {"missed", "overtaken", "rolledback"}]
  BY <1>t DEF SwitchTypes, Switches!TypeOK
<1>9. /\ own' \in [SubAdmin -> 0..clock] /\ excuse' \in [SubAdmin -> SUBSET {"missed", "overtaken", "rolledback"}]
      /\ \A b \in SubAdmin \ {a} : own'[b] = own[b] /\ excuse'[b] = excuse[b]
      /\ own[a] <= own'[a] /\ n <= own'[a] /\ own[a] \in Nat /\ own'[a] \in Nat
      /\ own[a] > n \/ gone[a] > n => excuse'[a] # {}
  <2>1. own[a] \in 0..clock /\ gone[a] \in 0..clock /\ n \in 0..clock
    BY <1>4, <1>8
  <2>2. Switches!Since(a, n) = IF gone[a] > n THEN {"missed"} ELSE {}
    BY DEF Switches!Since
  <2>3. CASE n >= own[a]
    BY <1>3, <1>8, <2>1, <2>2, <2>3
  <2>4. CASE ~(n >= own[a])
    BY <1>3, <1>8, <2>1, <2>4
  <2> QED BY <2>3, <2>4
<1>10. SwitchTypes'
  BY <1>t, <1>3, <1>6, <1>7, <1>9 DEF SwitchTypes, Switches!TypeOK, Lists
<1>11. SwitchOrder'
  BY <1>t, <1>3, <1>5, <1>6, <1>7 DEF SwitchOrder, HasWritten
<1>12. ReadsCovered'
  <2>1. \A b \in SubAdmin : /\ gone'[b] \in Nat /\ own'[b] \in Nat
                            /\ gone[b] <= gone'[b] /\ own[b] <= own'[b]
    BY <1>t, <1>3, <1>9, SwitchNumbers
  <2>2. \A x \in Call : HasWritten(x) => StillTold(x)
    <3>1. StillTold(q)
      BY <1>2, <1>4, <1>9 DEF StillTold
    <3> QED BY <1>7, <3>1 DEF HasWritten, StillTold
  <2>3. \A x \in Call, b \in SubAdmin : req'[x].phase = "answered" /\ req'[x].admin = b =>
            req'[x] = req[x] \/ req'[x].row = Switches!Effective(b)'
    BY <1>7
  <2> QED BY <1>t, <1>3, <1>5, <2>1, <2>2, <2>3, ReadsKept
<1>13. RowsExplained'
  <2>1. Switches!InFlight' = Switches!InFlight \ {q} /\ q \in Switches!InFlight
    BY <1>1, <1>7 DEF Switches!InFlight
  <2>2. \A x \in Switches!InFlight \ {q} : req'[x] = req[x]
    BY <1>7 DEF Switches!InFlight
  <2>3. \A b : Switches!Effective(b)' = Switches!Effective(b)
    BY <1>3, EffectiveKept
  <2>4. ASSUME NEW b \in SubAdmin
        PROVE  \/ excuse'[b] # {} \/ shown'[b] = Switches!Effective(b)'
               \/ \E x \in Switches!InFlight' : req'[x].admin = b
    <3>1. CASE b = a
      <4>1. e = Switches!Effective(a) \/ Covered(a, n)
        <5>1. n \in 0..clock
          BY <1>4
        <5> QED BY <1>t, <1>1, <1>2, <5>1 DEF ReadsCovered
      <4>2. ASSUME NEW x \in Call, HasWritten(x), req[x].admin = a, req[x].at > n
            PROVE  x \in Switches!InFlight \ {q}
        BY <1>2, <1>4, <4>2 DEF HasWritten, Switches!InFlight
      <4> QED BY <1>6, <1>9, <2>1, <2>2, <2>3, <3>1, <4>1, <4>2 DEF Covered
    <3>2. CASE b # a
      <4>1. \/ excuse[b] # {} \/ shown[b] = Switches!Effective(b)
            \/ \E x \in Switches!InFlight : req[x].admin = b
        BY <1>t, <1>5 DEF RowsExplained
      <4> QED BY <1>2, <1>6, <1>9, <2>1, <2>2, <2>3, <3>2, <4>1
    <3> QED BY <3>1, <3>2
  <2>5. \A x \in Switches!InFlight' : ~req'[x].alone
    BY <1>t, <2>1, <2>2 DEF RowsExplained
  <2> QED BY <2>4, <2>5 DEF RowsExplained
<1> QED BY <1>10, <1>11, <1>12, <1>13 DEF SwitchesIInv

LEMMA SwitchFail ==
  ASSUME SwitchesIInv, NEW q \in Call, Switches!Fail(q)
  PROVE  SwitchesIInv'
<1>t. SwitchTypes /\ SwitchOrder /\ ReadsCovered /\ RowsExplained
  BY DEF SwitchesIInv
<1>1. /\ q \in Switches!InFlight /\ req[q] \in SentCall \cup StoredCall \cup AnsweredCall
      /\ req[q].phase \in {"sent", "stored", "answered"}
  BY <1>t, CallPhases DEF Switches!Fail, Switches!InFlight
<1>2. PICK a \in SubAdmin, al \in BOOLEAN, pr \in Lists :
         a = req[q].admin /\ al = req[q].alone /\ pr = req[q].prev
  BY <1>1 DEF SentCall, StoredCall, AnsweredCall
<1>3. PICK stored \in BOOLEAN : stored <=> HasWritten(q)
  <2>1. CASE HasWritten(q)
    BY <2>1
  <2>2. CASE ~HasWritten(q)
    BY <2>2
  <2> QED BY <2>1, <2>2
<1>4. stored = (req[q].phase # "sent")
  BY <1>1, <1>3 DEF HasWritten
<1>5. /\ UNCHANGED <<grants, clock, load, own>> /\ shown' = pr /\ flag' = None
      /\ gone' = [gone EXCEPT ![a] = IF stored /\ req[q].at > gone[a] THEN req[q].at ELSE gone[a]]
      /\ excuse' = [x \in SubAdmin |-> excuse[x] \cup (IF al THEN {} ELSE {"rolledback"})
                                                 \cup IF x = a /\ stored THEN {"missed"} ELSE {}]
      /\ \/ req' = [req EXCEPT ![q] = Switches!Idle]
         \/ /\ ~stored
            /\ req' = [req EXCEPT ![q] = [phase |-> "late", admin |-> a, key |-> req[q].key,
                                          value |-> req[q].value]]
  BY <1>2, <1>4 DEF Switches!Fail
<1>6. PICK j \in PatchCall : req' = [req EXCEPT ![q] = j] /\ j.phase \in {"idle", "late"}
  <2>1. CASE req' = [req EXCEPT ![q] = Switches!Idle]
    BY <1>t, <2>1, CallPhases DEF PatchCall
  <2>2. CASE ~stored /\ req' = [req EXCEPT ![q] = [phase |-> "late", admin |-> a, key |-> req[q].key,
                                                   value |-> req[q].value]]
    <3>1. req[q].key \in Feature /\ req[q].value \in BOOLEAN
      BY <1>t, <1>4, <2>2, CallPhases DEF SentCall
    <3>2. PICK i : i = [phase |-> "late", admin |-> a, key |-> req[q].key, value |-> req[q].value]
      OBVIOUS
    <3>3. i \in LateCall /\ i.phase = "late"
      BY <3>1, <3>2 DEF LateCall
    <3> QED BY <2>2, <3>2, <3>3 DEF PatchCall
  <2> QED BY <1>5, <2>1, <2>2
<1>7. req' \in [Call -> PatchCall] /\ \A x \in Call : req'[x] = IF x = q THEN j ELSE req[x]
  BY <1>t, <1>6, OneCall
<1>8. shown' \in Lists /\ shown' # None
  BY <1>5, SwitchesConstants
<1>9. shown # None /\ load.phase # "read"
  BY <1>t, <1>1, CallPhases, LoadPhases DEF SwitchOrder
<1>10. /\ clock \in Nat /\ gone \in [SubAdmin -> 0..clock]
       /\ stored => req[q].at \in Nat /\ req[q].at <= clock
  BY <1>t, <1>3, CallPhases DEF SwitchTypes, Switches!TypeOK, SwitchOrder, HasWritten, StoredCall, AnsweredCall
<1>11. /\ gone' \in [SubAdmin -> 0..clock] /\ \A b \in SubAdmin \ {a} : gone'[b] = gone[b]
       /\ gone[a] <= gone'[a] /\ gone[a] \in Nat /\ gone'[a] \in Nat
       /\ stored => req[q].at <= gone'[a]
  <2>1. PICK g \in 0..clock : g = IF stored /\ req[q].at > gone[a] THEN req[q].at ELSE gone[a]
    BY <1>10
  <2>2. gone' = [gone EXCEPT ![a] = g]
    BY <1>5, <2>1
  <2> QED BY <1>10, <2>1, <2>2
<1>12. /\ excuse' \in [SubAdmin -> SUBSET {"missed", "overtaken", "rolledback"}]
       /\ \A b \in SubAdmin : /\ excuse[b] \subseteq excuse'[b]
                              /\ ~al \/ (b = a /\ stored) => excuse'[b] # {}
  <2>1. excuse \in [SubAdmin -> SUBSET {"missed", "overtaken", "rolledback"}]
    BY <1>t DEF SwitchTypes
  <2>2. \A b \in SubAdmin : excuse'[b] = excuse[b] \cup (IF al THEN {} ELSE {"rolledback"})
                                                   \cup IF b = a /\ stored THEN {"missed"} ELSE {}
    BY <1>5
  <2>3. \A b \in SubAdmin : excuse'[b] \in SUBSET {"missed", "overtaken", "rolledback"}
    BY <2>1, <2>2
  <2> QED BY <1>5, <2>2, <2>3
<1>13. SwitchTypes'
  BY <1>t, <1>5, <1>7, <1>8, <1>11, <1>12 DEF SwitchTypes, Switches!TypeOK, Lists
<1>14. SwitchOrder'
  BY <1>t, <1>5, <1>6, <1>7, <1>8, <1>9 DEF SwitchOrder, HasWritten
<1>15. ReadsCovered'
  <2>1. \A b \in SubAdmin : /\ gone'[b] \in Nat /\ own'[b] \in Nat
                            /\ gone[b] <= gone'[b] /\ own[b] <= own'[b]
    BY <1>t, <1>5, <1>11, SwitchNumbers
  <2>2. \A x \in Call : HasWritten(x) => StillTold(x)
    <3>1. HasWritten(q) => StillTold(q)
      BY <1>2, <1>3, <1>11 DEF StillTold
    <3> QED BY <1>7, <3>1 DEF HasWritten, StillTold
  <2>3. \A x \in Call, b \in SubAdmin : req'[x].phase = "answered" /\ req'[x].admin = b =>
            req'[x] = req[x] \/ req'[x].row = Switches!Effective(b)'
    BY <1>6, <1>7
  <2> QED BY <1>t, <1>5, <1>9, <2>1, <2>2, <2>3, ReadsKept
<1>16. RowsExplained'
  <2>1. Switches!InFlight' = Switches!InFlight \ {q}
    BY <1>6, <1>7 DEF Switches!InFlight
  <2>2. \A x \in Switches!InFlight \ {q} : req'[x] = req[x]
    BY <1>7 DEF Switches!InFlight
  <2>3. \A b : Switches!Effective(b)' = Switches!Effective(b)
    BY <1>5, EffectiveKept
  <2>4. ASSUME NEW b \in SubAdmin PROVE excuse'[b] # {} \/ shown'[b] = Switches!Effective(b)'
    <3>1. al => \/ excuse[b] # {} \/ pr[b] = Switches!Effective(b)
                \/ a = b /\ stored
      BY <1>t, <1>1, <1>2, <1>3 DEF RowsExplained
    <3> QED BY <1>5, <1>12, <2>3, <3>1
  <2>5. \A x \in Switches!InFlight' : ~req'[x].alone
    BY <1>t, <1>1, <2>1, <2>2 DEF RowsExplained
  <2> QED BY <2>4, <2>5 DEF RowsExplained
<1> QED BY <1>13, <1>14, <1>15, <1>16 DEF SwitchesIInv

LEMMA SwitchesStep == SwitchesIInv /\ [Switches!Next]_(Switches!vars) => SwitchesIInv'
<1> SUFFICES ASSUME SwitchesIInv, [Switches!Next]_(Switches!vars) PROVE SwitchesIInv'
  OBVIOUS
<1>1. CASE Switches!LoadFails \/ UNCHANGED Switches!vars
  BY <1>1, SwitchKeeps DEF Switches!LoadFails, Switches!vars
<1> QED BY <1>1, SwitchReadList, SwitchShowList, SwitchElsewhere, SwitchToggle, SwitchCommit, SwitchLate,
           SwitchReread, SwitchAnswer, SwitchFail DEF Switches!Next

LEMMA SwitchesGoal ==
  ASSUME SwitchesIInv
  PROVE  Switches!TypeOK /\ Switches!SwitchesExplained
  BY DEF SwitchesIInv, SwitchTypes, RowsExplained, Switches!SwitchesExplained

-----------------------------------------------------------------------------
(***************************************************************************)
(* The list panels (components/admin, app/admin).                          *)
(***************************************************************************)
PanelOp == {Panel!edit, Panel!create, Panel!bulk, Panel!fetch, Panel!wipe, Panel!post, Panel!pin,
            Panel!mail}

LoadReq == [phase : {"asked", "read"}, by : SUBSET Filter, left : SUBSET Filter, rows : SUBSET Row,
            time : Nat, of : PanelOp \cup {None}, n : Nat, alone : BOOLEAN, missed : BOOLEAN]
ActReq == [phase : {"sent", "done", "late"}, op : PanelOp, on : SUBSET Row, by : SUBSET Filter, n : Nat]

CopyRec == [rows : SUBSET Row, time : Nat, missed : BOOLEAN]

PanelTypes == /\ Panel!TypeOK
              /\ panel \in Panel!Panels
              /\ clock \in Nat /\ own \in Nat /\ issued \in Nat
              /\ req \in [Call -> {Panel!Idle} \cup LoadReq \cup ActReq]
              /\ shown \in [by : SUBSET Filter, rows : SUBSET Row, time : Nat, n : Nat]

\* An executed operation's answer is still to come, and with it a load.
Outstanding == \E q \in Call : req[q].phase = "done" /\ req[q].op.then # "nothing"

\* The load, or the list, is for the chosen filter and late enough, or another load will come.
LoadFits(q) == /\ timer \/ req[q].by = Panel!Wanted
               /\ Outstanding \/ req[q].missed \/ req[q].time >= own
ShownFits == /\ timer \/ shown.by = Panel!Wanted
             /\ Outstanding \/ shown.time >= own

\* No load was asked for later.
NewestLoad(q) == shown.n <= req[q].n /\ \A p \in Panel!Loads : req[p].n <= req[q].n
NewestShown == \A p \in Panel!Loads : req[p].n <= shown.n

NewestFits == excuse = {} => /\ \A q \in Panel!Loads : NewestLoad(q) => LoadFits(q)
                             /\ NewestShown => ShownFits

\* A load that had no company, and was followed by nothing, has none.
AloneFits == /\ shown.n <= issued
             /\ \A q \in Panel!Loads : /\ req[q].n <= issued
                                       /\ req[q].alone /\ req[q].n = issued =>
                                             /\ Panel!InFlight = {q}
                                             /\ req[q].missed \/ req[q].time >= own

\* Where loading leaves the flag alone, one operation keeps it up.
SoleAct == ~panel.flagged /\ Panel!mail \notin panel.ops =>
              \A q \in Panel!Acting : Panel!Acting = {q} /\ flag["panel"] # None

\* A cached list no eviction missed is late enough.
CopyFits == backup # None => backup \in CopyRec /\ (backup.missed \/ backup.time >= own)

\* An operation that was given up has left its mark.
LateFits == \A q \in Call : req[q].phase = "late" => excuse # {}

PanelsIInv == PanelTypes /\ NewestFits /\ AloneFits /\ SoleAct /\ Panel!SelectionShown
                /\ CopyFits /\ LateFits

PanelsInductive == part = "panels" => PanelsIInv

LEMMA PanelsStarts == AdminInit /\ part = "panels" => Panel!Init
  BY DEF AdminInit

LEMMA PanelsMoves ==
  ASSUME [AdminNext]_administration, part' = "panels"
  PROVE  part = "panels" /\ [Panel!Next]_(Panel!vars)
<1>1. CASE UNCHANGED administration
  BY <1>1 DEF administration, Panel!vars
<1>2. CASE AdminNext
  BY <1>2 DEF AdminNext
<1> QED BY <1>1, <1>2

\* What an operation does with its flag.
LEMMA OpTraits ==
  ASSUME NEW op \in PanelOp
  PROVE  /\ op.raises \in Panel!Flag /\ op.on \in {"row", "new", "selection"}
         /\ op.then \in {"reload", "nothing", "start"}
         /\ op.raises # "panel" => op.on = "row"
         /\ op \in {Panel!edit, Panel!create} => op.off = {"panel"} /\ op.raises = "panel"
<1> USE DEF Panel!Flag
<1>1. CASE op \in {Panel!edit, Panel!create}
  BY <1>1 DEF Panel!edit, Panel!create
<1>2. CASE op \in {Panel!bulk, Panel!fetch}
  <2>1. CASE op = Panel!bulk
    BY <2>1 DEF Panel!edit, Panel!create, Panel!bulk
  <2>2. CASE op = Panel!fetch
    BY <2>2 DEF Panel!edit, Panel!create, Panel!fetch
  <2> QED BY <1>2, <2>1, <2>2
<1>3. CASE op \in {Panel!wipe, Panel!post, Panel!pin, Panel!mail}
  BY <1>3 DEF Panel!edit, Panel!create, Panel!wipe, Panel!post, Panel!pin, Panel!mail
<1> QED BY <1>1, <1>2, <1>3 DEF PanelOp

\* What a panel offers.
LEMMA PanelTraits ==
  ASSUME NEW p \in Panel!Panels
  PROVE  /\ p.ops \subseteq PanelOp
         /\ (~p.flagged /\ Panel!mail \notin p.ops => p.ops \subseteq {Panel!edit, Panel!create})
<1> USE DEF PanelOp
<1>1. CASE p \in {Panel!UsersTab, Panel!QuotesTab, Panel!BannedIps, Panel!BannedTelegram, Panel!TrashTab,
                  Panel!FeedbackTab, Panel!ActivityTab, Panel!CategoriesTab, Panel!HashtagsTab,
                  Panel!AnnouncementsTab, Panel!SeoTab, Panel!BackupTab}
  BY <1>1 DEF Panel!Plain, Panel!UsersTab, Panel!QuotesTab, Panel!BannedIps, Panel!BannedTelegram, Panel!TrashTab,
                  Panel!FeedbackTab, Panel!ActivityTab, Panel!CategoriesTab, Panel!HashtagsTab,
                  Panel!AnnouncementsTab, Panel!SeoTab, Panel!BackupTab
<1>2. CASE p = Panel!ActiveOtps
  BY <1>2 DEF Panel!Plain, Panel!ActiveOtps
<1>3. CASE p \in {Panel!AuditLogsTab, Panel!EmailLogs}
  BY <1>3 DEF Panel!Plain, Panel!AuditLogsTab, Panel!EmailLogs
<1>4. CASE p \in {Panel!QuizzesPage, Panel!PoliciesPage}
  <2>1. p.ops \subseteq {Panel!edit, Panel!create}
    BY <1>4 DEF Panel!Plain, Panel!QuizzesPage, Panel!PoliciesPage
  <2> QED BY <2>1
<1> QED BY <1>1, <1>2, <1>3, <1>4 DEF Panel!Panels

LEMMA PanelsConstants == Filter # {} /\ None # "up"
  BY PanelAssumption DEF Panel!PanelsAssumption

LEMMA PanelsInit == Panel!Init => PanelsIInv
<1> SUFFICES ASSUME Panel!Init PROVE PanelsIInv
  OBVIOUS
<1>1. \A q \in Call : req[q] = Panel!Idle /\ req[q].phase = "idle"
  BY DEF Panel!Init, Panel!Idle
<1>2. filter \in Filter
  BY PanelsConstants DEF Panel!Init
<1>3. shown \in [by : SUBSET Filter, rows : SUBSET Row, time : Nat, n : Nat] /\ shown.time = 0 /\ shown.n = 0
      /\ shown.rows = {} /\ shown.by = {}
  BY DEF Panel!Init
<1>4. Panel!TypeOK
  <2>1. flag \in [Panel!Flag -> Row \cup {"up", None}]
    BY DEF Panel!Init
  <2> QED BY <1>2, <1>3, <2>1 DEF Panel!Init, Panel!TypeOK
<1>5. PanelTypes
  BY <1>3, <1>4 DEF Panel!Init, PanelTypes
<1>6. Panel!Loads = {} /\ Panel!Acting = {}
  BY <1>1 DEF Panel!Loads, Panel!Acting, Panel!InFlight
<1>7. NewestFits /\ AloneFits /\ SoleAct /\ Panel!SelectionShown
  BY <1>3, <1>6 DEF NewestFits, AloneFits, SoleAct, Panel!SelectionShown, ShownFits, Panel!Init
<1>8. CopyFits /\ LateFits
  BY <1>1 DEF CopyFits, LateFits, Panel!Init
<1> QED BY <1>5, <1>7, <1>8 DEF PanelsIInv

\* What a request is, told by its phase.
LEMMA ReqPhases ==
  ASSUME PanelTypes, NEW q \in Call
  PROVE  /\ req[q].phase \in {"asked", "read"} => req[q] \in LoadReq
         /\ req[q].phase \in {"sent", "done", "late"} => req[q] \in ActReq
         /\ req[q] = Panel!Idle <=> req[q].phase = "idle"
         /\ req[q].phase \in {"idle", "asked", "read", "sent", "done", "late"}
         /\ Panel!Idle.phase = "idle"
<1>1. req[q] \in {Panel!Idle} \cup LoadReq \cup ActReq
  BY DEF PanelTypes
<1>2. Panel!Idle.phase = "idle"
  BY DEF Panel!Idle
<1>3. /\ \A j \in LoadReq : j.phase \in {"asked", "read"}
      /\ \A j \in ActReq : j.phase \in {"sent", "done", "late"}
  BY DEF LoadReq, ActReq
<1> QED BY <1>1, <1>2, <1>3

LEMMA OneReq ==
  ASSUME PanelTypes, NEW q \in Call, NEW j \in {Panel!Idle} \cup LoadReq \cup ActReq,
         req' = [req EXCEPT ![q] = j]
  PROVE  /\ req' \in [Call -> {Panel!Idle} \cup LoadReq \cup ActReq]
         /\ \A x \in Call : req'[x] = IF x = q THEN j ELSE req[x]
  BY DEF PanelTypes

\* Who is a load, and who is under way.
LEMMA LoadsAre ==
  ASSUME PanelTypes
  PROVE  /\ \A x \in Call : x \in Panel!Loads <=> req[x].phase \in {"asked", "read"}
         /\ \A x \in Call : x \in Panel!InFlight <=> req[x].phase # "idle"
         /\ \A x \in Call : x \in Panel!Acting <=>
               \/ req[x].phase \in {"sent", "done"}
               \/ req[x].phase \in {"asked", "read"} /\ req[x].of # None
         /\ Panel!Loads \subseteq Call /\ Panel!InFlight \subseteq Call /\ Panel!Acting \subseteq Call
         /\ \A x \in Panel!Loads : req[x] \in LoadReq /\ req[x].n \in Nat /\ req[x].time \in Nat
<1>1. \A x \in Call : x \in Panel!InFlight <=> req[x].phase # "idle"
  BY ReqPhases DEF Panel!InFlight
<1>2. \A x \in Call : x \in Panel!Loads <=> req[x].phase \in {"asked", "read"}
  BY <1>1 DEF Panel!Loads, Panel!InFlight
<1>3. \A x \in Call : x \in Panel!Acting <=>
               \/ req[x].phase \in {"sent", "done"}
               \/ req[x].phase \in {"asked", "read"} /\ req[x].of # None
  BY <1>1 DEF Panel!Acting, Panel!InFlight
<1>4. Panel!Loads \subseteq Call /\ Panel!InFlight \subseteq Call /\ Panel!Acting \subseteq Call
  BY DEF Panel!Loads, Panel!InFlight, Panel!Acting
<1>5. \A x \in Panel!Loads : req[x] \in LoadReq /\ req[x].n \in Nat /\ req[x].time \in Nat
  BY <1>2, <1>4, ReqPhases DEF LoadReq
<1> QED BY <1>1, <1>2, <1>3, <1>4, <1>5

\* Is the request an operation under way, or the load one waits for?
Acts(j) == (j.phase \in {"sent", "done"}) \/ (j.phase \in {"asked", "read"} /\ j.of # None)

\* One request moves on.
LEMMA OneMoves ==
  ASSUME PanelTypes, NEW q \in Call, NEW j \in {Panel!Idle} \cup LoadReq \cup ActReq,
         req' = [req EXCEPT ![q] = j]
  PROVE  /\ req' \in [Call -> {Panel!Idle} \cup LoadReq \cup ActReq]
         /\ \A x \in Call : req'[x] = IF x = q THEN j ELSE req[x]
         /\ Panel!Loads' = IF j.phase \in {"asked", "read"} THEN Panel!Loads \cup {q} ELSE Panel!Loads \ {q}
         /\ Panel!InFlight' = IF j.phase # "idle" THEN Panel!InFlight \cup {q} ELSE Panel!InFlight \ {q}
         /\ Panel!Acting' = IF Acts(j) THEN Panel!Acting \cup {q} ELSE Panel!Acting \ {q}
<1>1. /\ req' \in [Call -> {Panel!Idle} \cup LoadReq \cup ActReq]
      /\ \A x \in Call : req'[x] = IF x = q THEN j ELSE req[x]
  BY OneReq
<1>2. Panel!Idle.phase = "idle" /\ (j = Panel!Idle <=> j.phase = "idle")
  <2>1. /\ \A i \in LoadReq : i.phase \in {"asked", "read"}
        /\ \A i \in ActReq : i.phase \in {"sent", "done", "late"}
    BY DEF LoadReq, ActReq
  <2>2. Panel!Idle.phase = "idle"
    BY DEF Panel!Idle
  <2> QED BY <2>1, <2>2
<1>3. \A x \in Call : x \in Panel!InFlight' <=> IF x = q THEN j.phase # "idle" ELSE x \in Panel!InFlight
  BY <1>1, <1>2 DEF Panel!InFlight
<1>4. Panel!InFlight' = IF j.phase # "idle" THEN Panel!InFlight \cup {q} ELSE Panel!InFlight \ {q}
  BY <1>3 DEF Panel!InFlight
<1>5. Panel!Loads' = IF j.phase \in {"asked", "read"} THEN Panel!Loads \cup {q} ELSE Panel!Loads \ {q}
  BY <1>1, <1>3 DEF Panel!Loads, Panel!InFlight
<1>6. \A x \in Call : x \in Panel!Acting' <=> IF x = q THEN Acts(j) ELSE x \in Panel!Acting
  BY <1>1, <1>2, <1>3 DEF Panel!Acting, Panel!InFlight, Acts
<1>7. Panel!Acting' = IF Acts(j) THEN Panel!Acting \cup {q} ELSE Panel!Acting \ {q}
  BY <1>6 DEF Panel!Acting, Panel!InFlight
<1> QED BY <1>1, <1>4, <1>5, <1>7

\* What is given up leaves its mark, and a mark stays while it is not executed.
LEMMA LateKept ==
  ASSUME PanelTypes, LateFits, NEW q \in Call, NEW j \in {Panel!Idle} \cup LoadReq \cup ActReq,
         req' = [req EXCEPT ![q] = j], j.phase = "late" => excuse' # {},
         excuse \subseteq excuse' \/ \A x \in Call \ {q} : req[x].phase = "idle"
  PROVE  LateFits'
<1>1. \A x \in Call : req'[x] = IF x = q THEN j ELSE req[x]
  BY OneReq
<1> QED BY <1>1 DEF LateFits

\* Where loading leaves the flag alone: the operation under way ends or goes on, none is, or the
\* first one starts.
LEMMA SoleKept ==
  ASSUME PanelTypes, SoleAct, NEW q \in Call, NEW j \in {Panel!Idle} \cup LoadReq \cup ActReq,
         req' = [req EXCEPT ![q] = j], panel' = panel,
         ~panel.flagged /\ Panel!mail \notin panel.ops =>
            \/ q \in Panel!Acting /\ (q \in Panel!Acting' => flag' = flag)
            \/ q \notin Panel!Acting /\ q \notin Panel!Acting' /\ flag' = flag
            \/ Panel!Acting = {} /\ flag'["panel"] # None
  PROVE  SoleAct'
<1>1. Panel!Acting' \in {Panel!Acting \cup {q}, Panel!Acting \ {q}}
  BY OneMoves
<1>2. SUFFICES ASSUME ~panel.flagged /\ Panel!mail \notin panel.ops, NEW x \in Panel!Acting'
               PROVE  Panel!Acting' = {x} /\ flag'["panel"] # None
  BY DEF SoleAct
<1>3. \A y \in Panel!Acting : Panel!Acting = {y} /\ flag["panel"] # None
  BY <1>2 DEF SoleAct
<1>4. CASE q \in Panel!Acting /\ (q \in Panel!Acting' => flag' = flag)
  BY <1>1, <1>2, <1>3, <1>4
<1>5. CASE q \notin Panel!Acting /\ q \notin Panel!Acting' /\ flag' = flag
  BY <1>1, <1>2, <1>3, <1>5
<1>6. CASE Panel!Acting = {} /\ flag'["panel"] # None
  BY <1>1, <1>2, <1>6
<1> QED BY <1>2, <1>4, <1>5, <1>6

\* A load is asked for.
LEMMA NewLoad ==
  ASSUME PanelsIInv, NEW q \in Call, NEW j \in LoadReq, req' = [req EXCEPT ![q] = j],
         q \notin Panel!Loads, j.phase = "asked", j.n = issued + 1, j.time = clock,
         j.alone => Panel!InFlight \subseteq {q},
         issued' = issued + 1, UNCHANGED <<clock, own, shown, panel, filter>>,
         excuse \subseteq excuse',
         excuse' # {} \/ timer' \/ j.by = Panel!Wanted
  PROVE  NewestFits' /\ AloneFits'
<1>t. PanelTypes /\ NewestFits /\ AloneFits /\ issued \in Nat /\ own <= clock /\ shown.n \in Nat
      /\ own \in Nat /\ clock \in Nat
  BY DEF PanelsIInv, PanelTypes, Panel!TypeOK
<1>j. j \in {Panel!Idle} \cup LoadReq \cup ActReq
  OBVIOUS
<1>1. /\ \A x \in Call : req'[x] = IF x = q THEN j ELSE req[x]
      /\ Panel!Loads' = Panel!Loads \cup {q}
      /\ Panel!InFlight' = Panel!InFlight \cup {q}
  BY <1>t, <1>j, OneMoves
<1>2. \A x \in Panel!Loads : x \in Call /\ req'[x] = req[x] /\ req[x].n <= issued /\ req[x].n \in Nat
  BY <1>t, <1>1, LoadsAre DEF AloneFits
<1>3. Panel!Wanted' = Panel!Wanted
  BY DEF Panel!Wanted
<1>4. LoadFits(q)' \/ excuse' # {}
  BY <1>t, <1>1, <1>3 DEF LoadFits
<1>5. \A x \in Panel!Loads : ~NewestLoad(x)'
  BY <1>t, <1>1, <1>2 DEF NewestLoad
<1>6. ~NewestShown'
  BY <1>t, <1>1 DEF NewestShown, AloneFits
<1>7. NewestFits'
  BY <1>1, <1>4, <1>5, <1>6 DEF NewestFits
<1>8. AloneFits'
  BY <1>t, <1>1, <1>2 DEF AloneFits
<1> QED BY <1>7, <1>8

\* A request that is no load goes on and is none.
LEMMA ActGoesOn ==
  ASSUME PanelsIInv, NEW q \in Call, NEW j \in {Panel!Idle} \cup ActReq, req' = [req EXCEPT ![q] = j],
         q \notin Panel!Loads, UNCHANGED <<shown, panel, filter, timer>>, excuse \subseteq excuse',
         issued' = issued + 1 \/ (issued' = issued /\ q \in Panel!InFlight),
         excuse' # {} \/ Outstanding' \/ (own' = own /\ ~Outstanding)
  PROVE  NewestFits' /\ AloneFits'
<1>t. PanelTypes /\ NewestFits /\ AloneFits /\ issued \in Nat /\ shown.n \in Nat
  BY DEF PanelsIInv, PanelTypes
<1>1. j.phase \notin {"asked", "read"}
  BY DEF ActReq, Panel!Idle
<1>j. j \in {Panel!Idle} \cup LoadReq \cup ActReq
  OBVIOUS
<1>2. /\ \A x \in Call : req'[x] = IF x = q THEN j ELSE req[x]
      /\ Panel!Loads' = Panel!Loads
      /\ q \in Panel!InFlight => Panel!InFlight \subseteq Panel!InFlight' \cup {q}
  <2>1. \A x \in Call : req'[x] = IF x = q THEN j ELSE req[x]
    BY <1>t, <1>j, OneReq
  <2>2. Panel!Loads' = Panel!Loads \ {q}
    BY <1>t, <1>1, <1>j, OneMoves
  <2>3. Panel!InFlight' \in {Panel!InFlight \cup {q}, Panel!InFlight \ {q}}
    BY <1>t, <1>j, OneMoves
  <2> QED BY <2>1, <2>2, <2>3
<1>3. \A x \in Panel!Loads : x \in Call /\ x # q /\ req'[x] = req[x] /\ req[x].n \in Nat /\ req[x].n <= issued
  BY <1>t, <1>2, LoadsAre DEF AloneFits
<1>4. Panel!Wanted' = Panel!Wanted
  BY DEF Panel!Wanted
<1>5. excuse' # {} \/ \A x \in Panel!Loads : LoadFits(x) => LoadFits(x)'
  BY <1>3, <1>4 DEF LoadFits
<1>6. excuse' # {} \/ (ShownFits => ShownFits')
  BY <1>4 DEF ShownFits
<1>7. /\ NewestShown' => NewestShown
      /\ \A x \in Panel!Loads : NewestLoad(x)' => NewestLoad(x)
  BY <1>2, <1>3 DEF NewestShown, NewestLoad
<1>8. NewestFits'
  BY <1>t, <1>2, <1>5, <1>6, <1>7 DEF NewestFits
<1>9. AloneFits'
  <2>1. ASSUME NEW x \in Panel!Loads, req[x].alone, req[x].n = issued'
        PROVE  FALSE
    <3>1. issued' = issued
      BY <1>t, <1>3, <2>1
    <3>2. Panel!InFlight = {x} /\ q \in Panel!InFlight
      BY <1>t, <2>1, <3>1 DEF AloneFits
    <3> QED BY <1>3, <3>2
  <2> QED BY <1>t, <1>2, <1>3, <2>1 DEF AloneFits
<1> QED BY <1>8, <1>9

\* A load ends.
LEMMA LoadEnds ==
  ASSUME PanelsIInv, NEW q \in Panel!Loads, req' = [req EXCEPT ![q] = Panel!Idle],
         UNCHANGED <<panel, filter, timer, own, issued>>,
         \/ shown' = shown /\ excuse' # {}
         \/ shown' = Panel!Answer(q) /\ excuse' = Panel!Excused(q)
  PROVE  NewestFits' /\ AloneFits'
<1>t. PanelTypes /\ NewestFits /\ AloneFits /\ issued \in Nat /\ shown.n \in Nat
  BY DEF PanelsIInv, PanelTypes
<1>1. q \in Call /\ req[q] \in LoadReq /\ req[q].phase \in {"asked", "read"} /\ q \in Panel!InFlight
  BY <1>t, LoadsAre DEF Panel!Loads
<1>2. /\ \A x \in Call : req'[x] = IF x = q THEN Panel!Idle ELSE req[x]
      /\ Panel!Loads' = Panel!Loads \ {q} /\ Panel!InFlight' = Panel!InFlight \ {q}
  BY <1>t, <1>1, OneMoves, ReqPhases
<1>3. \A x \in Panel!Loads : x \in Call /\ req[x].n \in Nat /\ req[x].n <= issued /\ req[x].time \in Nat
  BY <1>t, LoadsAre DEF AloneFits
<1>4. Panel!Wanted' = Panel!Wanted
  BY DEF Panel!Wanted
<1>5. Panel!Idle.phase = "idle"
  BY DEF Panel!Idle
<1>6. Outstanding => Outstanding'
  BY <1>1, <1>2 DEF Outstanding
<1>7. \A x \in Panel!Loads \ {q} : req'[x] = req[x] /\ (LoadFits(x) => LoadFits(x)')
  BY <1>2, <1>3, <1>4, <1>6 DEF LoadFits
<1>8. AloneFits'
  <2>1. shown'.n <= issued
    BY <1>t, <1>3 DEF AloneFits, Panel!Answer
  <2>2. ASSUME NEW x \in Panel!Loads \ {q}, req[x].alone, req[x].n = issued
        PROVE  FALSE
    BY <1>t, <1>1, <2>2 DEF AloneFits
  <2> QED BY <1>2, <1>3, <1>7, <2>1, <2>2 DEF AloneFits
<1>9. NewestFits'
  <2>1. CASE excuse' # {}
    BY <2>1 DEF NewestFits
  <2>2. CASE excuse' = {}
    <3>1. shown' = Panel!Answer(q) /\ Panel!Excused(q) = {}
      BY <2>2
    <3>2. /\ shown'.by = req[q].by /\ shown'.time = req[q].time /\ shown'.n = req[q].n
      BY <3>1 DEF Panel!Answer
    <3>3. CASE req[q].n = issued /\ req[q].by = Panel!Wanted /\ req[q].alone /\ Panel!InFlight = {q} /\ ~timer
      <4>1. Panel!Loads' = {} /\ req[q].time >= own
        BY <1>t, <1>2, <3>1, <3>3 DEF AloneFits, Panel!Loads, Panel!Excused
      <4>2. ShownFits'
        BY <1>4, <3>2, <3>3, <4>1 DEF ShownFits
      <4> QED BY <4>1, <4>2 DEF NewestFits
    <3>4. CASE ~(req[q].n = issued /\ req[q].by = Panel!Wanted /\ req[q].alone /\ Panel!InFlight = {q} /\ ~timer)
      <4>1. excuse = {} /\ ~(req[q].n < shown.n) /\ ~req[q].missed
        BY <3>1, <3>4 DEF Panel!Excused
      <4>2. shown.n <= req[q].n
        BY <1>t, <1>3, <4>1
      <4>3. \A x \in Panel!Loads \ {q} : NewestLoad(x)' => NewestLoad(x)
        BY <1>t, <1>2, <1>3, <1>7, <3>2, <4>2 DEF NewestLoad
      <4>4. NewestShown' => NewestLoad(q)
        BY <1>t, <1>2, <1>3, <1>7, <3>2, <4>2 DEF NewestLoad, NewestShown
      <4>5. NewestShown' => ShownFits'
        BY <1>t, <1>4, <1>6, <3>2, <4>1, <4>4 DEF NewestFits, LoadFits, ShownFits
      <4> QED BY <1>t, <1>2, <1>7, <4>1, <4>3, <4>5 DEF NewestFits
    <3> QED BY <3>3, <3>4
  <2> QED BY <2>1, <2>2
<1> QED BY <1>8, <1>9

\* A load that is under way goes on: the server reads a list, or one of the two of the trash.
LEMMA LoadGoesOn ==
  ASSUME PanelsIInv, NEW q \in Panel!Loads, NEW j \in LoadReq, req' = [req EXCEPT ![q] = j],
         j.n = req[q].n, j.by = req[q].by, j.of = req[q].of, j.alone = req[q].alone,
         \/ j.missed = req[q].missed /\ j.time \in {req[q].time, clock}
         \/ j.missed
         \/ j.time >= own,
         UNCHANGED <<panel, filter, timer, own, issued, shown, excuse, flag, clock>>
  PROVE  NewestFits' /\ AloneFits' /\ SoleAct'
<1>t. /\ PanelTypes /\ NewestFits /\ AloneFits /\ SoleAct /\ issued \in Nat /\ shown.n \in Nat
      /\ own <= clock /\ own \in Nat /\ clock \in Nat
  BY DEF PanelsIInv, PanelTypes, Panel!TypeOK
<1>1. q \in Call /\ req[q] \in LoadReq /\ req[q].phase \in {"asked", "read"} /\ req[q].time \in Nat
  BY <1>t, LoadsAre
<1>j. j \in {Panel!Idle} \cup LoadReq \cup ActReq /\ j.phase \in {"asked", "read"}
  BY DEF LoadReq
<1>2. /\ \A x \in Call : req'[x] = IF x = q THEN j ELSE req[x]
      /\ Panel!Loads' = Panel!Loads
      /\ Panel!InFlight' = Panel!InFlight
  <2>1. Panel!Loads' = Panel!Loads \cup {q} /\ Panel!InFlight' = Panel!InFlight \cup {q}
    <3>1. j.phase # "idle"
      BY <1>j
    <3> QED BY <1>t, <1>1, <1>j, <3>1, OneMoves
  <2>2. q \in Panel!InFlight
    BY DEF Panel!Loads
  <2>3. \A x \in Call : req'[x] = IF x = q THEN j ELSE req[x]
    BY <1>t, <1>1, <1>j, OneReq
  <2> QED BY <2>1, <2>2, <2>3
<1>3. Panel!Acting' = Panel!Acting
  <2>1. Panel!Acting' = IF Acts(j) THEN Panel!Acting \cup {q} ELSE Panel!Acting \ {q}
    BY <1>t, <1>1, <1>j, OneMoves
  <2>2. Acts(j) <=> q \in Panel!Acting
    BY <1>t, <1>1, <1>j, LoadsAre DEF Acts
  <2> QED BY <2>1, <2>2
<1>4. Panel!Wanted' = Panel!Wanted
  BY DEF Panel!Wanted
<1>5. Outstanding' <=> Outstanding
  BY <1>1, <1>2, <1>j DEF Outstanding
<1>6. \A x \in Panel!Loads : /\ x \in Call
                             /\ req'[x].n = req[x].n /\ req'[x].by = req[x].by /\ req'[x].alone = req[x].alone
                             /\ (req[x].missed \/ req[x].time >= own)
                                   => (req'[x].missed \/ req'[x].time >= own)
  BY <1>t, <1>1, <1>2, LoadsAre
<1>7. \A x \in Panel!Loads : LoadFits(x) => LoadFits(x)'
  BY <1>t, <1>4, <1>5, <1>6 DEF LoadFits
<1>8. (ShownFits <=> ShownFits') /\ (NewestShown <=> NewestShown')
      /\ \A x \in Panel!Loads : NewestLoad(x) <=> NewestLoad(x)'
  BY <1>2, <1>4, <1>5, <1>6 DEF ShownFits, NewestShown, NewestLoad
<1>9. NewestFits'
  BY <1>t, <1>2, <1>7, <1>8 DEF NewestFits
<1>10. AloneFits'
  BY <1>t, <1>2, <1>6, <1>7 DEF AloneFits
<1>11. SoleAct'
  BY <1>t, <1>3 DEF SoleAct
<1> QED BY <1>9, <1>10, <1>11

\* The flag after an action.
LEMMA FlagTypes ==
  ASSUME flag \in [Panel!Flag -> Row \cup {"up", None}]
  PROVE  /\ Panel!Raised(flag) \in [Panel!Flag -> Row \cup {"up", None}]
         /\ Panel!Lowered(flag) \in [Panel!Flag -> Row \cup {"up", None}]
         /\ \A f \in Panel!Flag, v \in Row \cup {"up", None} :
               [flag EXCEPT ![f] = v] \in [Panel!Flag -> Row \cup {"up", None}]
         /\ \A f \in Panel!Flag : [Panel!Lowered(flag) EXCEPT ![f] = None] \in [Panel!Flag -> Row \cup {"up", None}]
         /\ ~panel.flagged => Panel!Raised(flag) = flag /\ Panel!Lowered(flag) = flag
<1>1. "panel" \in Panel!Flag
  BY DEF Panel!Flag
<1>2. /\ Panel!Raised(flag) \in [Panel!Flag -> Row \cup {"up", None}]
      /\ Panel!Lowered(flag) \in [Panel!Flag -> Row \cup {"up", None}]
  BY <1>1 DEF Panel!Raised, Panel!Lowered
<1> QED BY <1>1, <1>2 DEF Panel!Raised, Panel!Lowered

LEMMA WantedTypes ==
  ASSUME PanelTypes
  PROVE  Panel!Wanted \in SUBSET Filter /\ Panel!Wanted \subseteq Filter
  BY DEF PanelTypes, Panel!TypeOK, Panel!Wanted

\* A load for the filters fs, asked for by the call q.
LEMMA LoadTypes ==
  ASSUME PanelTypes, NEW q \in Call, NEW fs \in SUBSET Filter, NEW o \in PanelOp \cup {None}
  PROVE  LET j == Panel!Load(q, fs, o)
         IN  /\ j \in LoadReq /\ j.phase = "asked" /\ j.n = issued + 1 /\ j.time = clock
             /\ (j.alone <=> Panel!InFlight \subseteq {q}) /\ j.by = fs /\ j.of = o
<1> DEFINE a == Panel!InFlight \subseteq {q}
<1>1. a \in BOOLEAN
  OBVIOUS
<1>2. PICK b \in BOOLEAN : b = a
  BY <1>1
<1>3. Panel!Load(q, fs, o) = [phase |-> "asked", by |-> fs, left |-> fs, rows |-> {}, time |-> clock,
                              of |-> o, n |-> issued + 1, alone |-> b, missed |-> FALSE]
  BY <1>2 DEF Panel!Load
<1>4. [phase |-> "asked", by |-> fs, left |-> fs, rows |-> {}, time |-> clock,
       of |-> o, n |-> issued + 1, alone |-> b, missed |-> FALSE] \in LoadReq
  BY DEF LoadReq, PanelTypes
<1>5. b <=> Panel!InFlight \subseteq {q}
  BY <1>2
<1> HIDE DEF a
<1> QED BY <1>3, <1>4, <1>5

LEMMA ChooseFilterKeeps ==
  ASSUME PanelsIInv, Panel!ChooseFilter
  PROVE  PanelsIInv'
<1>t. PanelTypes /\ NewestFits /\ AloneFits /\ SoleAct
  BY DEF PanelsIInv
<1>1. /\ UNCHANGED <<panel, place, clock, backup, req, issued, shown, selected, flag, own, excuse, faults>>
      /\ timer' = TRUE /\ filter' \in Filter
  BY DEF Panel!ChooseFilter
<1>2. /\ Panel!InFlight' = Panel!InFlight /\ Panel!Loads' = Panel!Loads /\ Panel!Acting' = Panel!Acting
      /\ (Outstanding' <=> Outstanding)
  BY <1>1 DEF Panel!InFlight, Panel!Loads, Panel!Acting, Outstanding
<1>3. PanelTypes'
  BY <1>t, <1>1 DEF PanelTypes, Panel!TypeOK
<1>4. \A x : LoadFits(x) => LoadFits(x)'
  BY <1>1, <1>2 DEF LoadFits
<1>5. \A x : NewestLoad(x)' => NewestLoad(x)
  BY <1>1, <1>2 DEF NewestLoad
<1>6. (ShownFits => ShownFits') /\ (NewestShown' => NewestShown)
  BY <1>1, <1>2 DEF ShownFits, NewestShown
<1>7. NewestFits'
  BY <1>t, <1>1, <1>2, <1>4, <1>5, <1>6 DEF NewestFits
<1>8. AloneFits' /\ SoleAct' /\ Panel!SelectionShown'
  BY <1>t, <1>1, <1>2 DEF AloneFits, SoleAct, PanelsIInv, Panel!SelectionShown
<1>9. CopyFits' /\ LateFits'
  BY <1>1 DEF CopyFits, LateFits, PanelsIInv
<1> QED BY <1>3, <1>7, <1>8, <1>9 DEF PanelsIInv

LEMMA StartLoadKeeps ==
  ASSUME PanelsIInv, NEW q \in Call, Panel!StartLoad(q)
  PROVE  PanelsIInv'
<1>t. PanelTypes /\ SoleAct /\ req[q] = Panel!Idle /\ Panel!SelectionShown
      /\ flag \in [Panel!Flag -> Row \cup {"up", None}]
  BY DEF PanelsIInv, Panel!StartLoad, PanelTypes, Panel!TypeOK
<1>1. PICK j \in LoadReq : /\ j = Panel!Load(q, Panel!Wanted, None)
                           /\ j.phase = "asked" /\ j.n = issued + 1 /\ j.time = clock
                           /\ (j.alone <=> Panel!InFlight \subseteq {q})
                           /\ j.by = Panel!Wanted /\ j.of = None
  BY <1>t, WantedTypes, LoadTypes
<1>2. /\ req' = [req EXCEPT ![q] = j] /\ timer' = FALSE /\ issued' = issued + 1 /\ flag' = Panel!Raised(flag)
      /\ UNCHANGED <<panel, place, clock, backup, filter, shown, selected, own, excuse, filters, faults>>
  BY <1>1 DEF Panel!StartLoad
<1>3. q \notin Panel!Loads /\ q \notin Panel!Acting
  BY <1>t, LoadsAre, ReqPhases
<1>4. NewestFits' /\ AloneFits'
  BY <1>1, <1>2, <1>3, NewLoad
<1>j. j \in {Panel!Idle} \cup LoadReq \cup ActReq
  OBVIOUS
<1>5. /\ req' \in [Call -> {Panel!Idle} \cup LoadReq \cup ActReq]
      /\ Panel!Acting' = IF Acts(j) THEN Panel!Acting \cup {q} ELSE Panel!Acting \ {q}
  BY <1>t, <1>2, <1>j, OneMoves
<1>6. q \notin Panel!Acting'
  BY <1>1, <1>3, <1>5 DEF Acts
<1>7. /\ flag' \in [Panel!Flag -> Row \cup {"up", None}]
      /\ ~panel.flagged => flag' = flag
  BY <1>t, <1>2, FlagTypes
<1>8. SoleAct'
  BY <1>t, <1>2, <1>3, <1>j, <1>6, <1>7, SoleKept
<1>9. PanelTypes'
  <2>1. Panel!TypeOK'
    BY <1>t, <1>2, <1>7 DEF PanelTypes, Panel!TypeOK
  <2>2. issued' \in Nat
    BY <1>t, <1>2 DEF PanelTypes
  <2> QED BY <1>t, <1>2, <1>5, <2>1, <2>2 DEF PanelTypes
<1>10. CopyFits' /\ LateFits'
  <2>1. CopyFits'
    BY <1>2 DEF CopyFits, PanelsIInv
  <2>2. LateFits'
    BY <1>t, <1>1, <1>2, <1>j, LateKept DEF PanelsIInv
  <2> QED BY <2>1, <2>2
<1> QED BY <1>t, <1>2, <1>4, <1>8, <1>9, <1>10 DEF PanelsIInv, Panel!SelectionShown

LEMMA ToggleKeeps ==
  ASSUME PanelsIInv, NEW r \in Row, Panel!Toggle(r)
  PROVE  PanelsIInv'
<1>t. PanelTypes /\ NewestFits /\ AloneFits /\ SoleAct /\ Panel!SelectionShown
  BY DEF PanelsIInv
<1>1. /\ UNCHANGED <<panel, place, clock, backup, filter, timer, req, issued, shown, flag, own, excuse, filters,
                     faults>>
      /\ r \in shown.rows /\ selected' \in {selected \ {r}, selected \cup {r}}
  BY DEF Panel!Toggle
<1>2. /\ Panel!InFlight' = Panel!InFlight /\ Panel!Loads' = Panel!Loads /\ Panel!Acting' = Panel!Acting
      /\ (Outstanding' <=> Outstanding) /\ Panel!Wanted' = Panel!Wanted
  BY <1>1 DEF Panel!InFlight, Panel!Loads, Panel!Acting, Outstanding, Panel!Wanted
<1>3. PanelTypes' /\ Panel!SelectionShown'
  BY <1>t, <1>1 DEF PanelTypes, Panel!TypeOK, Panel!SelectionShown
<1>4. \A x : (LoadFits(x) <=> LoadFits(x)') /\ (NewestLoad(x) <=> NewestLoad(x)')
  BY <1>1, <1>2 DEF LoadFits, NewestLoad
<1>5. (ShownFits <=> ShownFits') /\ (NewestShown <=> NewestShown')
  BY <1>1, <1>2 DEF ShownFits, NewestShown
<1>6. NewestFits' /\ AloneFits' /\ SoleAct'
  BY <1>t, <1>1, <1>2, <1>4, <1>5 DEF AloneFits, SoleAct, NewestFits
<1>7. CopyFits' /\ LateFits'
  BY <1>1 DEF CopyFits, LateFits, PanelsIInv
<1> QED BY <1>3, <1>6, <1>7 DEF PanelsIInv

\* A handler starts.
LEMMA ActKeeps ==
  ASSUME PanelsIInv, NEW q \in Call, NEW op \in panel.ops, Panel!Act(q, op)
  PROVE  PanelsIInv'
<1>t. /\ PanelTypes /\ SoleAct /\ req[q] = Panel!Idle /\ Panel!SelectionShown /\ panel \in Panel!Panels
      /\ flag \in [Panel!Flag -> Row \cup {"up", None}] /\ shown.rows \subseteq Row /\ selected \subseteq Row
      /\ Panel!TypeOK
  BY DEF PanelsIInv, Panel!Act, PanelTypes, Panel!TypeOK
<1>o. op \in PanelOp
  BY <1>t, PanelTraits
<1>1. PICK rs \in Panel!Targets(op) :
         /\ Panel!Enabled(op, rs)
         /\ req' = [req EXCEPT ![q] = [phase |-> "sent", op |-> op, on |-> rs, by |-> Panel!Wanted, n |-> issued + 1]]
         /\ flag' = [flag EXCEPT ![op.raises] = Panel!Marks(op, rs)]
  BY DEF Panel!Act
<1>2. rs \subseteq Row /\ (op.on = "row" => \E r \in Row : rs = {r})
  BY <1>t, <1>o, <1>1, OpTraits DEF Panel!Targets
<1>3. Panel!Marks(op, rs) \in Row \cup {"up"} /\ (op.raises = "panel" => Panel!Marks(op, rs) = "up")
  BY <1>o, <1>2, OpTraits DEF Panel!Marks
<1>4. [phase |-> "sent", op |-> op, on |-> rs, by |-> Panel!Wanted, n |-> issued + 1] \in ActReq
  BY <1>t, <1>o, <1>2, WantedTypes DEF ActReq, PanelTypes
<1>5. PICK j \in ActReq : j = [phase |-> "sent", op |-> op, on |-> rs, by |-> Panel!Wanted, n |-> issued + 1]
  BY <1>4
<1>6. /\ req' = [req EXCEPT ![q] = j] /\ issued' = issued + 1 /\ j.phase = "sent"
      /\ UNCHANGED <<panel, place, clock, backup, filter, timer, shown, selected, own, excuse, filters, faults>>
  BY <1>1, <1>5 DEF Panel!Act
<1>7. q \notin Panel!Loads /\ q \notin Panel!Acting /\ req[q].phase = "idle"
  BY <1>t, LoadsAre, ReqPhases
<1>j. j \in {Panel!Idle} \cup LoadReq \cup ActReq /\ j \in {Panel!Idle} \cup ActReq
  OBVIOUS
<1>8. \A x \in Call : req'[x] = IF x = q THEN j ELSE req[x]
  BY <1>t, <1>6, <1>j, OneReq
<1>9. Outstanding' \/ ~Outstanding
  BY <1>7, <1>8 DEF Outstanding
<1>10. NewestFits' /\ AloneFits'
  BY <1>6, <1>7, <1>9, <1>j, ActGoesOn
<1>11. /\ req' \in [Call -> {Panel!Idle} \cup LoadReq \cup ActReq]
       /\ Panel!Acting' = IF Acts(j) THEN Panel!Acting \cup {q} ELSE Panel!Acting \ {q}
  BY <1>t, <1>6, <1>j, OneMoves
<1>12. flag' \in [Panel!Flag -> Row \cup {"up", None}]
  BY <1>t, <1>o, <1>1, <1>3, OpTraits
<1>13. ~panel.flagged /\ Panel!mail \notin panel.ops => Panel!Acting = {} /\ flag'["panel"] # None
  <2> SUFFICES ASSUME ~panel.flagged, Panel!mail \notin panel.ops
               PROVE  Panel!Acting = {} /\ flag'["panel"] # None
    OBVIOUS
  <2>1. op.off = {"panel"} /\ op.raises = "panel" /\ "panel" \in Panel!Flag
    BY <1>t, <1>o, PanelTraits, OpTraits DEF Panel!Flag
  <2>2. flag["panel"] = None
    BY <1>1, <2>1 DEF Panel!Enabled
  <2>3. flag'["panel"] = "up"
    BY <1>t, <1>1, <1>3, <2>1
  <2> QED BY <1>t, <2>2, <2>3, PanelsConstants DEF SoleAct
<1>14. SoleAct'
  BY <1>t, <1>6, <1>13, <1>j, SoleKept
<1>15. PanelTypes'
  <2>1. Panel!TypeOK'
    BY <1>t, <1>6, <1>12 DEF Panel!TypeOK
  <2>2. issued' \in Nat
    BY <1>t, <1>6 DEF PanelTypes
  <2> QED BY <1>t, <1>6, <1>11, <2>1, <2>2 DEF PanelTypes
<1>16. CopyFits' /\ LateFits'
  <2>1. CopyFits'
    BY <1>6 DEF CopyFits, PanelsIInv
  <2>2. LateFits'
    BY <1>t, <1>6, <1>j, LateKept DEF PanelsIInv
  <2> QED BY <2>1, <2>2
<1> QED BY <1>t, <1>6, <1>10, <1>14, <1>15, <1>16 DEF PanelsIInv, Panel!SelectionShown

\* The server executes the operation.
LEMMA ExecuteKeeps ==
  ASSUME PanelsIInv, NEW q \in Call, Panel!Execute(q)
  PROVE  PanelsIInv'
<1>t. /\ PanelTypes /\ SoleAct /\ Panel!SelectionShown /\ Panel!TypeOK /\ clock \in Nat /\ own \in Nat /\ own <= clock
      /\ req[q].phase \in {"sent", "late"}
  BY DEF PanelsIInv, Panel!Execute, PanelTypes, Panel!TypeOK
<1>1. PICK i \in ActReq : i = req[q]
  BY <1>t, ReqPhases
<1>2. [i EXCEPT !.phase = "done"] \in ActReq /\ [i EXCEPT !.phase = "done"].phase = "done"
      /\ [i EXCEPT !.phase = "done"].op = i.op
  BY DEF ActReq
<1>3. PICK j \in {Panel!Idle} \cup ActReq :
         /\ req' = [req EXCEPT ![q] = j]
         /\ i.phase = "sent" => j.phase = "done" /\ j.op = i.op
         /\ i.phase = "late" => j = Panel!Idle /\ j.phase = "idle"
  <2>1. CASE i.phase = "sent"
    <3>1. req' = [req EXCEPT ![q] = [i EXCEPT !.phase = "done"]]
      BY <1>1, <2>1 DEF Panel!Execute, PanelTypes
    <3>2. PICK k \in ActReq : k = [i EXCEPT !.phase = "done"]
      BY <1>2
    <3> QED BY <1>2, <2>1, <3>1, <3>2
  <2>2. CASE i.phase = "late"
    <3>1. req' = [req EXCEPT ![q] = Panel!Idle]
      BY <1>1, <2>2 DEF Panel!Execute
    <3>2. Panel!Idle.phase = "idle"
      BY DEF Panel!Idle
    <3> QED BY <2>2, <3>1, <3>2
  <2> QED BY <1>t, <1>1, <2>1, <2>2
<1>4. /\ req' = [req EXCEPT ![q] = j] /\ i.op \in PanelOp
      /\ own' = IF i.op.then = "nothing" THEN own ELSE clock + 1
      /\ clock' = clock + 1 /\ place' \in Panel!Outcomes(i.op, i.on) /\ backup' \in Panel!Survives
      /\ UNCHANGED <<panel, filter, timer, issued, shown, selected, flag, excuse, filters, faults>>
  BY <1>1, <1>3 DEF Panel!Execute, ActReq, PanelTypes
<1>5. q \notin Panel!Loads /\ (i.phase = "sent" <=> q \in Panel!Acting) /\ q \in Panel!InFlight
  BY <1>t, <1>1, LoadsAre
<1>j. j \in {Panel!Idle} \cup LoadReq \cup ActReq /\ j \in {Panel!Idle} \cup ActReq
  OBVIOUS
<1>6. \A x \in Call : req'[x] = IF x = q THEN j ELSE req[x]
  BY <1>t, <1>4, <1>j, OneReq
<1>7. excuse' # {} \/ Outstanding' \/ (own' = own /\ ~Outstanding)
  <2>1. CASE i.phase = "sent"
    BY <1>t, <1>1, <1>3, <1>4, <1>6, <2>1 DEF Outstanding
  <2>2. CASE i.phase = "late"
    BY <1>1, <1>4, <2>2 DEF PanelsIInv, LateFits
  <2> QED BY <1>t, <1>1, <2>1, <2>2
<1>8. NewestFits' /\ AloneFits'
  BY <1>4, <1>5, <1>7, <1>j, ActGoesOn
<1>9. req' \in [Call -> {Panel!Idle} \cup LoadReq \cup ActReq]
  BY <1>t, <1>4, <1>j, OneMoves
<1>10. SoleAct'
  <2>1. Panel!Acting' = IF Acts(j) THEN Panel!Acting \cup {q} ELSE Panel!Acting \ {q}
    BY <1>t, <1>4, <1>j, OneMoves
  <2>2. i.phase = "late" => q \notin Panel!Acting'
    BY <1>3, <2>1 DEF Acts
  <2> QED BY <1>t, <1>1, <1>4, <1>5, <1>j, <2>2, SoleKept
<1>11. place' \in [Row -> Filter \cup {None}]
  BY <1>t, <1>4 DEF Panel!Outcomes, Panel!TypeOK
<1>12. PanelTypes'
  <2>1. Panel!TypeOK'
    BY <1>t, <1>4, <1>11 DEF Panel!TypeOK
  <2>2. clock' \in Nat /\ own' \in Nat
    BY <1>t, <1>4
  <2> QED BY <1>t, <1>4, <1>9, <2>1, <2>2 DEF PanelTypes
<1>13. LateFits'
  BY <1>t, <1>1, <1>3, <1>4, <1>j, LateKept DEF PanelsIInv
<1>14. CopyFits'
  <2>1. CASE backup = None
    BY <1>4, <2>1 DEF Panel!Survives, CopyFits
  <2>2. CASE backup # None
    <3>1. PICK b \in CopyRec : b = backup
      BY <2>2 DEF PanelsIInv, CopyFits
    <3>2. [b EXCEPT !.missed = TRUE] \in CopyRec /\ [b EXCEPT !.missed = TRUE].missed
      BY DEF CopyRec
    <3>3. backup' = None \/ backup' = [b EXCEPT !.missed = TRUE]
      BY <1>4, <2>2, <3>1 DEF Panel!Survives
    <3> QED BY <3>2, <3>3 DEF CopyFits
  <2> QED BY <2>1, <2>2
<1> QED BY <1>t, <1>4, <1>8, <1>10, <1>12, <1>13, <1>14 DEF PanelsIInv, Panel!SelectionShown

\* The answer is lost, or the operation.
LEMMA ActFailsKeeps ==
  ASSUME PanelsIInv, NEW q \in Call, Panel!ActFails(q)
  PROVE  PanelsIInv'
<1>t. /\ PanelTypes /\ SoleAct /\ Panel!SelectionShown /\ Panel!TypeOK
      /\ req[q].phase \in {"sent", "done"} /\ flag \in [Panel!Flag -> Row \cup {"up", None}]
  BY DEF PanelsIInv, Panel!ActFails, PanelTypes, Panel!TypeOK
<1>1. req[q] \in ActReq /\ req[q].op \in PanelOp
  BY <1>t, ReqPhases DEF ActReq
<1>p. PICK j \in {Panel!Idle} \cup ActReq :
         req' = [req EXCEPT ![q] = j] /\ j.phase \in {"idle", "late"}
  <2>1. CASE req' = [req EXCEPT ![q] = Panel!Idle]
    <3>1. Panel!Idle.phase = "idle"
      BY DEF Panel!Idle
    <3> QED BY <2>1, <3>1
  <2>2. CASE req' = [req EXCEPT ![q].phase = "late"]
    <3>1. PICK i \in ActReq : i = req[q]
      BY <1>1
    <3>2. [i EXCEPT !.phase = "late"] \in ActReq /\ [i EXCEPT !.phase = "late"].phase = "late"
      BY DEF ActReq
    <3>3. req' = [req EXCEPT ![q] = [i EXCEPT !.phase = "late"]]
      BY <2>2, <3>1, <1>t DEF PanelTypes
    <3> QED BY <3>2, <3>3
  <2> QED BY <2>1, <2>2 DEF Panel!ActFails
<1>2. /\ req' = [req EXCEPT ![q] = j] /\ excuse' = excuse \cup {"failed"}
      /\ flag' = [flag EXCEPT ![req[q].op.raises] = None]
      /\ UNCHANGED <<panel, place, clock, backup, filter, timer, issued, shown, selected, own, filters>>
  BY <1>p DEF Panel!ActFails
<1>3. q \notin Panel!Loads /\ q \in Panel!Acting /\ q \in Panel!InFlight
  BY <1>t, LoadsAre
<1>j. j \in {Panel!Idle} \cup LoadReq \cup ActReq /\ j \in {Panel!Idle} \cup ActReq
  OBVIOUS
<1>4. NewestFits' /\ AloneFits'
  BY <1>2, <1>3, <1>j, ActGoesOn
<1>5. /\ req' \in [Call -> {Panel!Idle} \cup LoadReq \cup ActReq]
      /\ Panel!Acting' = IF Acts(j) THEN Panel!Acting \cup {q} ELSE Panel!Acting \ {q}
  BY <1>t, <1>2, <1>j, OneMoves
<1>6. q \notin Panel!Acting'
  BY <1>p, <1>5 DEF Acts
<1>7. SoleAct'
  BY <1>t, <1>2, <1>3, <1>6, <1>j, SoleKept
<1>8. flag' \in [Panel!Flag -> Row \cup {"up", None}]
  BY <1>t, <1>1, <1>2, OpTraits
<1>9. PanelTypes'
  <2>1. Panel!TypeOK'
    BY <1>t, <1>2, <1>8 DEF Panel!TypeOK
  <2> QED BY <1>t, <1>2, <1>5, <2>1 DEF PanelTypes
<1>10. CopyFits' /\ LateFits'
  <2>1. CopyFits'
    BY <1>2 DEF CopyFits, PanelsIInv
  <2>2. LateFits'
    BY <1>t, <1>2, <1>j, LateKept DEF PanelsIInv
  <2> QED BY <2>1, <2>2
<1> QED BY <1>t, <1>2, <1>4, <1>7, <1>9, <1>10 DEF PanelsIInv, Panel!SelectionShown

\* The answer arrives.
LEMMA AnswerActKeeps ==
  ASSUME PanelsIInv, NEW q \in Call, Panel!AnswerAct(q)
  PROVE  PanelsIInv'
<1>t. /\ PanelTypes /\ SoleAct /\ Panel!SelectionShown /\ Panel!TypeOK /\ issued \in Nat
      /\ req[q].phase = "done" /\ flag \in [Panel!Flag -> Row \cup {"up", None}] /\ selected \subseteq Row
  BY DEF PanelsIInv, Panel!AnswerAct, PanelTypes, Panel!TypeOK
<1>1. PICK i \in ActReq : i = req[q]
  BY <1>t, ReqPhases
<1>2. i.op \in PanelOp /\ i.by \in SUBSET Filter
  BY DEF ActReq
<1>3. /\ issued' = IF i.op.then = "nothing" THEN issued ELSE issued + 1
      /\ selected' \in {{}, selected}
      /\ flag' = IF i.op.then = "reload" THEN Panel!Raised(flag) ELSE [flag EXCEPT ![i.op.raises] = None]
      /\ excuse' = IF i.op.then # "nothing" /\ i.by # Panel!Wanted THEN excuse \cup {"captured"} ELSE excuse
      /\ UNCHANGED <<panel, place, clock, backup, filter, timer, shown, own, filters, faults>>
  BY <1>1 DEF Panel!AnswerAct
<1>4. q \notin Panel!Loads /\ q \in Panel!Acting /\ q \in Panel!InFlight
  BY <1>t, LoadsAre
<1>5. i.op.raises \in Panel!Flag /\ i.op.then \in {"reload", "nothing", "start"}
  BY <1>2, OpTraits
<1>6. flag' \in [Panel!Flag -> Row \cup {"up", None}]
  BY <1>t, <1>3, <1>5, FlagTypes
<1>c. CopyFits'
  BY <1>3 DEF CopyFits, PanelsIInv
<1>7. ASSUME req' \in [Call -> {Panel!Idle} \cup LoadReq \cup ActReq]
      PROVE  PanelTypes' /\ Panel!SelectionShown'
  <2>1. Panel!TypeOK'
    BY <1>t, <1>3, <1>6 DEF Panel!TypeOK
  <2>2. issued' \in Nat
    BY <1>t, <1>3
  <2>3. Panel!SelectionShown'
    BY <1>t, <1>3 DEF Panel!SelectionShown
  <2> QED BY <1>t, <1>3, <1>7, <2>1, <2>2, <2>3 DEF PanelTypes
<1>8. excuse \subseteq excuse' /\ (i.op.then = "nothing" \/ i.by = Panel!Wanted \/ excuse' # {})
  BY <1>3
<1>9. CASE i.op.then = "nothing"
  <2>1. req' = [req EXCEPT ![q] = Panel!Idle] /\ issued' = issued /\ flag' = [flag EXCEPT ![i.op.raises] = None]
    BY <1>1, <1>3, <1>9 DEF Panel!AnswerAct, Panel!Answered
  <2>j. Panel!Idle \in {Panel!Idle} \cup LoadReq \cup ActReq /\ Panel!Idle \in {Panel!Idle} \cup ActReq
        /\ Panel!Idle.phase = "idle"
    BY DEF Panel!Idle
  <2>2. \A x \in Call : req'[x] = IF x = q THEN Panel!Idle ELSE req[x]
    BY <1>t, <2>1, <2>j, OneReq
  <2>3. Outstanding' \/ (own' = own /\ ~Outstanding)
    BY <1>1, <1>3, <1>9, <2>2 DEF Outstanding
  <2>4. NewestFits' /\ AloneFits'
    BY <1>3, <1>4, <1>8, <2>1, <2>3, <2>j, ActGoesOn
  <2>5. /\ req' \in [Call -> {Panel!Idle} \cup LoadReq \cup ActReq]
        /\ Panel!Acting' = IF Acts(Panel!Idle) THEN Panel!Acting \cup {q} ELSE Panel!Acting \ {q}
    BY <1>t, <2>1, <2>j, OneMoves
  <2>6. q \notin Panel!Acting'
    BY <2>5, <2>j DEF Acts
  <2>7. SoleAct'
    BY <1>t, <1>3, <1>4, <2>1, <2>6, <2>j, SoleKept
  <2>8. LateFits'
    BY <1>t, <1>8, <2>1, <2>j, LateKept DEF PanelsIInv
  <2> QED BY <1>c, <1>7, <2>4, <2>5, <2>7, <2>8 DEF PanelsIInv
<1>10. CASE i.op.then \in {"reload", "start"}
  <2>1. PICK o \in {i.op, None} : /\ req' = [req EXCEPT ![q] = Panel!Load(q, i.by, o)]
                                  /\ i.op.then = "start" => o = None
    BY <1>1, <1>10 DEF Panel!AnswerAct, Panel!Answered
  <2>2. o \in PanelOp \cup {None}
    BY <1>2
  <2>3. PICK j \in LoadReq : /\ j = Panel!Load(q, i.by, o)
                             /\ j.phase = "asked" /\ j.n = issued + 1 /\ j.time = clock
                             /\ (j.alone <=> Panel!InFlight \subseteq {q})
                             /\ j.by = i.by /\ j.of = o
    BY <1>t, <1>2, <2>2, LoadTypes
  <2>4. req' = [req EXCEPT ![q] = j] /\ issued' = issued + 1
    BY <1>3, <1>10, <2>1, <2>3
  <2>5. excuse' # {} \/ timer' \/ j.by = Panel!Wanted
    BY <1>8, <1>10, <2>3
  <2>6. NewestFits' /\ AloneFits'
    BY <1>3, <1>4, <1>8, <2>3, <2>4, <2>5, NewLoad
  <2>j. j \in {Panel!Idle} \cup LoadReq \cup ActReq
    OBVIOUS
  <2>7. /\ req' \in [Call -> {Panel!Idle} \cup LoadReq \cup ActReq]
        /\ Panel!Acting' = IF Acts(j) THEN Panel!Acting \cup {q} ELSE Panel!Acting \ {q}
    BY <1>t, <2>4, <2>j, OneMoves
  <2>8. i.op.then = "start" => q \notin Panel!Acting'
    BY <2>1, <2>3, <2>7 DEF Acts
  <2>9. i.op.then = "reload" /\ ~panel.flagged => flag' = flag
    BY <1>t, <1>3, FlagTypes
  <2>10. SoleAct'
    BY <1>t, <1>3, <1>4, <1>10, <2>4, <2>8, <2>9, <2>j, SoleKept
  <2>11. LateFits'
    BY <1>t, <1>8, <2>3, <2>4, <2>j, LateKept DEF PanelsIInv
  <2> QED BY <1>c, <1>7, <2>6, <2>7, <2>10, <2>11 DEF PanelsIInv
<1> QED BY <1>5, <1>9, <1>10

\* What is cached is what was read.
LEMMA CopiedFits ==
  ASSUME PanelsIInv, Panel!Copied # None, own' = own
  PROVE  Panel!Copied \in CopyRec /\ Panel!Copied.time >= own'
<1>1. clock \in Nat /\ own <= clock /\ own \in Nat
  BY DEF PanelsIInv, PanelTypes, Panel!TypeOK
<1>2. Panel!Copied = [rows |-> Panel!Found(Filter), time |-> clock, missed |-> FALSE]
  BY DEF Panel!Copied
<1>3. Panel!Found(Filter) \in SUBSET Row
  BY DEF Panel!Found
<1> QED BY <1>1, <1>2, <1>3 DEF CopyRec

LEMMA ReadKeeps ==
  ASSUME PanelsIInv, NEW q \in Call, Panel!Read(q)
  PROVE  PanelsIInv'
<1>t. /\ PanelTypes /\ SoleAct /\ Panel!SelectionShown /\ Panel!TypeOK /\ clock \in Nat
      /\ req[q].phase = "asked"
  BY DEF PanelsIInv, Panel!Read, PanelTypes
<1>1. PICK i \in LoadReq : i = req[q]
  BY <1>t, ReqPhases
<1>2. PICK fs : /\ fs \in IF panel.halves THEN {{f} : f \in i.left} ELSE {i.left}
                /\ req' = [req EXCEPT ![q].rows = @ \cup Panel!Found(fs),
                                      ![q].left = @ \ fs,
                                      ![q].time = IF req[q].left = req[q].by THEN clock ELSE @,
                                      ![q].phase = IF req[q].left = fs THEN "read" ELSE @]
  BY <1>1 DEF Panel!Read
<1>3. i.rows \cup Panel!Found(fs) \in SUBSET Row /\ i.left \ fs \in SUBSET Filter /\ i.phase = "asked"
  BY <1>t, <1>1 DEF LoadReq, Panel!Found
<1>4. PICK rs \in SUBSET Row, left \in SUBSET Filter, time \in {i.time, clock}, phase \in {"asked", "read"} :
         req' = [req EXCEPT ![q] = [i EXCEPT !.rows = rs, !.left = left, !.time = time, !.phase = phase]]
  <2>1. (IF req[q].left = req[q].by THEN clock ELSE i.time) \in {i.time, clock}
    OBVIOUS
  <2>2. (IF req[q].left = fs THEN "read" ELSE i.phase) \in {"asked", "read"}
    BY <1>3
  <2>3. req' = [req EXCEPT ![q] = [i EXCEPT !.rows = i.rows \cup Panel!Found(fs), !.left = i.left \ fs,
                                            !.time = IF req[q].left = req[q].by THEN clock ELSE i.time,
                                            !.phase = IF req[q].left = fs THEN "read" ELSE i.phase]]
    BY <1>1, <1>2 DEF PanelTypes, LoadReq
  <2> QED BY <1>3, <2>1, <2>2, <2>3
<1>5. \A b \in LoadReq :
         LET c == [b EXCEPT !.rows = rs, !.left = left, !.time = time, !.phase = phase]
         IN  time \in Nat => c \in LoadReq /\ c.n = b.n /\ c.by = b.by /\ c.of = b.of /\ c.alone = b.alone
                             /\ c.time = time /\ c.missed = b.missed
  BY DEF LoadReq
<1>6. time \in Nat
  BY <1>t DEF LoadReq
<1>7. PICK j \in LoadReq : /\ req' = [req EXCEPT ![q] = j]
                           /\ j.n = i.n /\ j.by = i.by /\ j.of = i.of /\ j.alone = i.alone /\ j.time = time
                           /\ j.missed = i.missed
  BY <1>4, <1>5, <1>6
<1>8. /\ j.n = req[q].n /\ j.by = req[q].by /\ j.of = req[q].of /\ j.alone = req[q].alone
      /\ j.missed = req[q].missed /\ j.time \in {req[q].time, clock}
  BY <1>1, <1>7
<1>9. /\ UNCHANGED <<panel, place, clock, filter, timer, issued, shown, selected, flag, own, excuse, filters, faults>>
      /\ backup' \in {backup, Panel!Copied}
  BY DEF Panel!Read
<1>10. q \in Panel!Loads
  BY <1>t, LoadsAre
<1>11. NewestFits' /\ AloneFits' /\ SoleAct'
  BY <1>7, <1>8, <1>9, <1>10, LoadGoesOn
<1>12. req' \in [Call -> {Panel!Idle} \cup LoadReq \cup ActReq]
  <2>1. j \in {Panel!Idle} \cup LoadReq \cup ActReq
    OBVIOUS
  <2> QED BY <1>t, <1>7, <2>1, OneReq
<1>13. PanelTypes'
  <2>1. Panel!TypeOK'
    BY <1>t, <1>9 DEF Panel!TypeOK
  <2> QED BY <1>t, <1>9, <1>12, <2>1 DEF PanelTypes
<1>14. CopyFits'
  BY <1>9, CopiedFits DEF PanelsIInv, CopyFits
<1>15. LateFits'
  <2>1. j \in {Panel!Idle} \cup LoadReq \cup ActReq /\ j.phase # "late"
    BY DEF LoadReq
  <2> QED BY <1>t, <1>7, <1>9, <2>1, LateKept DEF PanelsIInv
<1> QED BY <1>t, <1>9, <1>11, <1>13, <1>14, <1>15 DEF PanelsIInv, Panel!SelectionShown

\* A list that is answered from the cache.
LEMMA ReadCopyKeeps ==
  ASSUME PanelsIInv, NEW q \in Call, Panel!ReadCopy(q)
  PROVE  PanelsIInv'
<1>t. /\ PanelTypes /\ SoleAct /\ Panel!SelectionShown /\ Panel!TypeOK /\ clock \in Nat
      /\ req[q].phase = "asked"
  BY DEF PanelsIInv, Panel!ReadCopy, PanelTypes
<1>1. PICK i \in LoadReq : i = req[q]
  BY <1>t, ReqPhases
<1>2. PICK b \in CopyRec : b = backup /\ (b.missed \/ b.time >= own)
  BY DEF PanelsIInv, CopyFits, Panel!ReadCopy
<1>3. [i EXCEPT !.rows = b.rows, !.left = {}, !.time = b.time, !.missed = b.missed, !.phase = "read"] \in LoadReq
  BY DEF LoadReq, CopyRec
<1>4. req' = [req EXCEPT ![q] = [i EXCEPT !.rows = b.rows, !.left = {}, !.time = b.time, !.missed = b.missed,
                                          !.phase = "read"]]
  BY <1>1, <1>2 DEF Panel!ReadCopy, PanelTypes, LoadReq
<1>5. PICK j \in LoadReq : /\ req' = [req EXCEPT ![q] = j]
                           /\ j.n = i.n /\ j.by = i.by /\ j.of = i.of /\ j.alone = i.alone /\ j.time = b.time
                           /\ j.missed = b.missed
  BY <1>3, <1>4 DEF LoadReq
<1>6. UNCHANGED <<panel, place, clock, backup, filter, timer, issued, shown, selected, flag, own, excuse,
                  filters, faults>>
  BY DEF Panel!ReadCopy
<1>7. q \in Panel!Loads
  BY <1>t, LoadsAre
<1>8. j.missed \/ j.time >= own
  BY <1>2, <1>5
<1>9. /\ j.n = req[q].n /\ j.by = req[q].by /\ j.of = req[q].of /\ j.alone = req[q].alone
  BY <1>1, <1>5
<1>10. NewestFits' /\ AloneFits' /\ SoleAct'
  BY <1>5, <1>6, <1>7, <1>8, <1>9, LoadGoesOn
<1>j. j \in {Panel!Idle} \cup LoadReq \cup ActReq /\ j.phase # "late"
  BY DEF LoadReq
<1>11. req' \in [Call -> {Panel!Idle} \cup LoadReq \cup ActReq]
  BY <1>t, <1>5, <1>j, OneReq
<1>12. PanelTypes'
  <2>1. Panel!TypeOK'
    BY <1>t, <1>6 DEF Panel!TypeOK
  <2> QED BY <1>t, <1>6, <1>11, <2>1 DEF PanelTypes
<1>13. CopyFits' /\ LateFits'
  <2>1. CopyFits'
    BY <1>6 DEF CopyFits, PanelsIInv
  <2>2. LateFits'
    BY <1>t, <1>5, <1>6, <1>j, LateKept DEF PanelsIInv
  <2> QED BY <2>1, <2>2
<1> QED BY <1>t, <1>6, <1>10, <1>12, <1>13 DEF PanelsIInv, Panel!SelectionShown

LEMMA VisitKeeps ==
  ASSUME PanelsIInv, Panel!Visit
  PROVE  PanelsIInv'
<1>t. PanelTypes /\ NewestFits /\ AloneFits /\ SoleAct /\ Panel!SelectionShown
  BY DEF PanelsIInv
<1>1. /\ UNCHANGED <<panel, place, clock, filter, timer, req, issued, shown, selected, flag, own, excuse,
                     filters, faults>>
      /\ backup' = Panel!Copied
  BY DEF Panel!Visit
<1>2. /\ Panel!InFlight' = Panel!InFlight /\ Panel!Loads' = Panel!Loads /\ Panel!Acting' = Panel!Acting
      /\ (Outstanding' <=> Outstanding) /\ Panel!Wanted' = Panel!Wanted
  BY <1>1 DEF Panel!InFlight, Panel!Loads, Panel!Acting, Outstanding, Panel!Wanted
<1>3. PanelTypes' /\ Panel!SelectionShown'
  BY <1>t, <1>1 DEF PanelTypes, Panel!TypeOK, Panel!SelectionShown
<1>4. \A x : (LoadFits(x) <=> LoadFits(x)') /\ (NewestLoad(x) <=> NewestLoad(x)')
  BY <1>1, <1>2 DEF LoadFits, NewestLoad
<1>5. (ShownFits <=> ShownFits') /\ (NewestShown <=> NewestShown')
  BY <1>1, <1>2 DEF ShownFits, NewestShown
<1>6. NewestFits' /\ AloneFits' /\ SoleAct' /\ LateFits'
  BY <1>t, <1>1, <1>2, <1>4, <1>5 DEF PanelsIInv, AloneFits, SoleAct, NewestFits, LateFits
<1>7. CopyFits'
  BY <1>1, CopiedFits DEF CopyFits
<1> QED BY <1>3, <1>6, <1>7 DEF PanelsIInv

LEMMA LoadIsOver ==
  ASSUME PanelsIInv, NEW q \in Call, req[q].phase \in {"asked", "read"},
         req' = [req EXCEPT ![q] = Panel!Idle], flag' = Panel!Finally(q, flag),
         UNCHANGED <<panel, place, clock, backup, filter, timer, issued, own, filters>>,
         \/ shown' = shown /\ selected' = selected /\ excuse' = excuse \cup {"failed"}
         \/ shown' = Panel!Answer(q) /\ selected' = {} /\ excuse' = Panel!Excused(q)
  PROVE  PanelsIInv'
<1>t. /\ PanelTypes /\ SoleAct /\ Panel!SelectionShown /\ Panel!TypeOK
      /\ flag \in [Panel!Flag -> Row \cup {"up", None}] /\ selected \subseteq Row
      /\ shown \in [by : SUBSET Filter, rows : SUBSET Row, time : Nat, n : Nat]
      /\ excuse \subseteq {"captured", "overtaken", "failed", "cached"}
  BY DEF PanelsIInv, PanelTypes, Panel!TypeOK
<1>1. req[q] \in LoadReq /\ req[q].of \in PanelOp \cup {None}
  BY <1>t, ReqPhases DEF LoadReq
<1>2. q \in Panel!Loads
  BY <1>t, LoadsAre
<1>3. NewestFits' /\ AloneFits'
  <2>1. \/ shown' = shown /\ excuse' # {}
        \/ shown' = Panel!Answer(q) /\ excuse' = Panel!Excused(q)
    OBVIOUS
  <2> QED BY <1>2, <2>1, LoadEnds
<1>j. Panel!Idle \in {Panel!Idle} \cup LoadReq \cup ActReq /\ Panel!Idle.phase = "idle"
  BY DEF Panel!Idle
<1>4. /\ req' \in [Call -> {Panel!Idle} \cup LoadReq \cup ActReq]
      /\ Panel!Acting' = IF Acts(Panel!Idle) THEN Panel!Acting \cup {q} ELSE Panel!Acting \ {q}
  BY <1>t, <1>j, OneMoves
<1>5. q \notin Panel!Acting'
  BY <1>4, <1>j DEF Acts
<1>6. q \in Panel!Acting \/ req[q].of = None
  BY <1>t, LoadsAre
<1>7. /\ flag' \in [Panel!Flag -> Row \cup {"up", None}]
      /\ ~panel.flagged /\ req[q].of = None => flag' = flag
  BY <1>t, <1>1, OpTraits, FlagTypes DEF Panel!Finally
<1>8. SoleAct'
  BY <1>t, <1>5, <1>6, <1>7, <1>j, SoleKept
<1>9. Panel!Answer(q) \in [by : SUBSET Filter, rows : SUBSET Row, time : Nat, n : Nat]
  BY <1>1 DEF Panel!Answer, LoadReq
<1>10. shown' \in [by : SUBSET Filter, rows : SUBSET Row, time : Nat, n : Nat] /\ selected' \subseteq Row
       /\ excuse' \subseteq {"captured", "overtaken", "failed", "cached"}
  BY <1>t, <1>9 DEF Panel!Excused
<1>11. shown'.rows \subseteq Row /\ shown'.by \subseteq Filter /\ selected' \subseteq shown'.rows
  BY <1>t, <1>10 DEF Panel!SelectionShown
<1>12. PanelTypes'
  <2>1. Panel!TypeOK'
    BY <1>t, <1>7, <1>10, <1>11 DEF Panel!TypeOK
  <2> QED BY <1>t, <1>4, <1>10, <2>1 DEF PanelTypes
<1>13. CopyFits' /\ LateFits'
  <2>1. CopyFits'
    BY DEF CopyFits, PanelsIInv
  <2>2. excuse \subseteq excuse' \/ Panel!InFlight = {q}
    BY DEF Panel!Excused
  <2>3. excuse \subseteq excuse' \/ \A x \in Call \ {q} : req[x].phase = "idle"
    BY <1>t, <2>2, LoadsAre
  <2>4. LateFits'
    BY <1>t, <1>j, <2>3, LateKept DEF PanelsIInv
  <2> QED BY <2>1, <2>4
<1> QED BY <1>3, <1>8, <1>11, <1>12, <1>13 DEF PanelsIInv, Panel!SelectionShown

LEMMA PanelsStep ==
  ASSUME PanelsIInv, [Panel!Next]_(Panel!vars)
  PROVE  PanelsIInv'
<1>1. CASE UNCHANGED Panel!vars
  <2>1. UNCHANGED <<panel, place, clock, backup, filter, timer, req, issued, shown, selected, flag, own,
                    excuse, filters, faults>>
    BY <1>1 DEF Panel!vars
  <2>2. /\ Panel!InFlight' = Panel!InFlight /\ Panel!Loads' = Panel!Loads /\ Panel!Acting' = Panel!Acting
        /\ (Outstanding' <=> Outstanding) /\ Panel!Wanted' = Panel!Wanted
    BY <2>1 DEF Panel!InFlight, Panel!Loads, Panel!Acting, Outstanding, Panel!Wanted
  <2>3. PanelTypes' /\ Panel!SelectionShown'
    BY <2>1 DEF PanelsIInv, PanelTypes, Panel!TypeOK, Panel!SelectionShown
  <2>4. \A x : (LoadFits(x) <=> LoadFits(x)') /\ (NewestLoad(x) <=> NewestLoad(x)')
    BY <2>1, <2>2 DEF LoadFits, NewestLoad
  <2>5. (ShownFits <=> ShownFits') /\ (NewestShown <=> NewestShown')
    BY <2>1, <2>2 DEF ShownFits, NewestShown
  <2>6. NewestFits' /\ AloneFits' /\ SoleAct'
    BY <2>1, <2>2, <2>4, <2>5 DEF PanelsIInv, AloneFits, SoleAct, NewestFits
  <2>7. CopyFits' /\ LateFits'
    BY <2>1 DEF PanelsIInv, CopyFits, LateFits
  <2> QED BY <2>3, <2>6, <2>7 DEF PanelsIInv
<1>2. CASE Panel!ChooseFilter
  BY <1>2, ChooseFilterKeeps
<1>3. ASSUME NEW r \in Row, Panel!Toggle(r)
      PROVE  PanelsIInv'
  BY <1>3, ToggleKeeps
<1>4. ASSUME NEW q \in Call, Panel!StartLoad(q)
      PROVE  PanelsIInv'
  BY <1>4, StartLoadKeeps
<1>5. ASSUME NEW q \in Call, NEW op \in panel.ops, Panel!Act(q, op)
      PROVE  PanelsIInv'
  BY <1>5, ActKeeps
<1>6. ASSUME NEW q \in Call, Panel!Execute(q) \/ Panel!AnswerAct(q) \/ Panel!ActFails(q) \/ Panel!Read(q)
                              \/ Panel!ReadCopy(q)
      PROVE  PanelsIInv'
  BY <1>6, ExecuteKeeps, AnswerActKeeps, ActFailsKeeps, ReadKeeps, ReadCopyKeeps
<1>7. ASSUME NEW q \in Call, Panel!ApplyLoad(q)
      PROVE  PanelsIInv'
  <2>1. /\ req[q].phase \in {"asked", "read"} /\ req' = [req EXCEPT ![q] = Panel!Idle]
        /\ flag' = Panel!Finally(q, flag)
        /\ UNCHANGED <<panel, place, clock, backup, filter, timer, issued, own, filters>>
        /\ shown' = Panel!Answer(q) /\ selected' = {} /\ excuse' = Panel!Excused(q)
    BY <1>7 DEF Panel!ApplyLoad, Panel!Cleared
  <2> QED BY <2>1, LoadIsOver
<1>8. ASSUME NEW q \in Call, Panel!LoadFails(q)
      PROVE  PanelsIInv'
  <2>1. /\ req[q].phase \in {"asked", "read"} /\ req' = [req EXCEPT ![q] = Panel!Idle]
        /\ flag' = Panel!Finally(q, flag)
        /\ UNCHANGED <<panel, place, clock, backup, filter, timer, issued, own, filters>>
        /\ shown' = shown /\ selected' = selected /\ excuse' = excuse \cup {"failed"}
    BY <1>8 DEF Panel!LoadFails
  <2> QED BY <2>1, LoadIsOver
<1>9. CASE Panel!Visit
  BY <1>9, VisitKeeps
<1> QED BY <1>1, <1>2, <1>3, <1>4, <1>5, <1>6, <1>7, <1>8, <1>9 DEF Panel!Next

\* What is kept is what is claimed.
LEMMA PanelsGoal ==
  ASSUME PanelsIInv
  PROVE  Panel!TypeOK /\ Panel!ListExplained /\ Panel!SelectionShown /\ Panel!OneAtATime
<1>t. PanelTypes /\ NewestFits /\ SoleAct /\ Panel!TypeOK /\ Panel!SelectionShown
  BY DEF PanelsIInv, PanelTypes
<1>1. Panel!ListExplained
  <2> SUFFICES ASSUME Panel!Settled, excuse = {} PROVE shown.by = Panel!Wanted /\ shown.time >= own
    BY DEF Panel!ListExplained
  <2>1. Panel!Loads = {} /\ ~timer /\ \A q \in Call : req[q].phase = "idle"
    BY <1>t, LoadsAre, ReqPhases DEF Panel!Settled, Panel!Loads
  <2>2. ~Outstanding /\ NewestShown
    BY <2>1 DEF Outstanding, NewestShown
  <2> QED BY <1>t, <2>1, <2>2 DEF NewestFits, ShownFits
<1>2. Panel!OneAtATime
  BY <1>t DEF Panel!OneAtATime, SoleAct
<1> QED BY <1>t, <1>1, <1>2

\* With any number of panels' rows, filters, requests, sub-admins, changes and failures, a settled list is
\* the one its filter asks for after the panel's own last operation, a selection is on screen, operations
\* overlap only where loading lowers the flag, and a settled switch shows the stored right, but for the
\* overlaps and losses the model names (components/admin, sub-admins/page.tsx).
THEOREM PanelsHold == AdminSpec => []PanelsCorrect
<1>1. AdminInit => PanelsInductive /\ SwitchesInductive
  BY PanelsStarts, PanelsInit, SwitchesStarts, SwitchesInit DEF PanelsInductive, SwitchesInductive
<1>2. PanelsInductive /\ [AdminNext]_administration => PanelsInductive'
  BY PanelsMoves, PanelsStep DEF PanelsInductive
<1>3. SwitchesInductive /\ [AdminNext]_administration => SwitchesInductive'
  BY SwitchesMoves, SwitchesStep DEF SwitchesInductive
<1>4. PanelsInductive /\ SwitchesInductive => PanelsCorrect
  BY PanelsGoal, SwitchesGoal DEF PanelsInductive, SwitchesInductive, PanelsCorrect
<1> QED BY <1>1, <1>2, <1>3, <1>4, PTL DEF AdminSpec

-----------------------------------------------------------------------------
(***************************************************************************)
(* The realtime layer (socket, lib/bus.ts, lib/realtime.ts).               *)
(***************************************************************************)
BusEvents == {bus[i] : i \in DOMAIN bus}
MailOf(s) == {conn[s].mail[i] : i \in DOMAIN conn[s].mail}

ConnRec == [state : {"unused", "off", "checking", "open", "closed"}, admin : BOOLEAN, checked : BOOLEAN,
            mail : Seq(Realtime!Event)]
ViewRec == [on : Socket \cup {None}, asked : {"no", "sent", "read"}, snap : Nat, shown : SUBSET (1..MaxLogs)]

RealTypes == /\ Realtime!TypeOK
             /\ bus \in Seq(Realtime!Event) /\ conn \in [Socket -> ConnRec] /\ view \in ViewRec

\* Nothing comes from the future: an event's entry is in the log, what a load read was granted.
FromThePast == /\ \A e \in BusEvents : e.kind = "log" => e.entry \in 1..logs
               /\ \A s \in Socket : \A e \in MailOf(s) : e.kind = "log" => e.entry \in 1..logs
               /\ view.snap <= logs /\ view.shown \subseteq 1..logs
               /\ \A l \in MenuLoad : load[l].at <= rights

\* Every socket but the shared one is unused or closed, and the live log listens on that one.
OneSocket == \A s \in Socket : s # shared => conn[s].state \in {"unused", "closed"}
Listening == page = "logs" /\ Realtime!Mounted => view.on = shared

\* A ban is still to be handed out, or has closed every connection.
BanReaches ==
    banned /\ excuse \cap {"slipped", "unchecked", "unpublished"} = {} =>
        \/ \E e \in BusEvents : e.kind = "ban"
        \/ \A s \in Socket : conn[s].state # "open" /\ ~conn[s].checked

\* The menus show the permissions, or a change of them, or an answer with them, is under way.
MenusFollow ==
    excuse \cap {"cut", "unheard", "offline", "unpublished", "unloaded", "overtaken"} = {} =>
        /\ shared = shell
        /\ \/ session = rights
           \/ \E e \in BusEvents : e.kind = "perm"
           \/ \E s \in Socket : s = shell /\ \E e \in MailOf(s) : e.kind = "perm"
           \/ \E l \in MenuLoad : load[l].pc = "sent" \/ (load[l].pc = "read" /\ load[l].at = rights)

\* An entry is on the live log, or on its way: as an event, or in the snapshot that was asked for.
EntryComes(n) == \/ n \in view.shown \/ view.asked = "sent" \/ (view.asked = "read" /\ n <= view.snap)
                 \/ \E e \in BusEvents : e.kind = "log" /\ e.entry = n
                 \/ \E s \in Socket : s = shared /\ \E e \in MailOf(s) : e.kind = "log" /\ e.entry = n
LogFollows ==
    (page = "logs" /\ Realtime!Mounted
       /\ excuse \cap {"replaced", "unheard", "offline", "unpublished", "unloaded"} = {}) =>
        \A n \in 1..logs : EntryComes(n)

RealIInv == /\ RealTypes /\ FromThePast /\ OneSocket /\ Listening
            /\ BanReaches /\ MenusFollow /\ LogFollows

RealInductive == part = "realtime" => RealIInv

LEMMA RealtimeStarts == AdminInit /\ part = "realtime" => Realtime!Init
  BY DEF AdminInit

LEMMA RealtimeMoves ==
  ASSUME [AdminNext]_administration, part' = "realtime"
  PROVE  part = "realtime" /\ [Realtime!Next]_(Realtime!vars)
<1>1. CASE UNCHANGED administration
  BY <1>1 DEF administration, Realtime!vars
<1>2. CASE AdminNext
  BY <1>2 DEF AdminNext
<1> QED BY <1>1, <1>2

LEMMA RealConstants == MaxChanges \in Nat /\ MaxLogs \in Nat /\ None \notin Nat /\ None \notin Socket
  BY RealAssumption DEF Realtime!RealtimeAssumption

LEMMA EventTypes ==
  /\ Realtime!Of("perm") \in Realtime!Event /\ Realtime!Of("perm").kind = "perm"
  /\ Realtime!Of("ban") \in Realtime!Event /\ Realtime!Of("ban").kind = "ban"
  /\ Realtime!Of("unban") \in Realtime!Event /\ Realtime!Of("unban").kind = "unban"
  /\ \A n \in 0..MaxLogs : [kind |-> "log", entry |-> n] \in Realtime!Event
<1>1. 0 \in 0..MaxLogs
  BY RealConstants
<1> QED BY <1>1 DEF Realtime!Event, Realtime!Of

\* What a queue holds after an event is added, or taken.
LEMMA Queued ==
  ASSUME NEW b \in Seq(Realtime!Event), NEW e \in Realtime!Event
  PROVE  /\ Append(b, e) \in Seq(Realtime!Event)
         /\ \A x : (\E i \in DOMAIN Append(b, e) : x = Append(b, e)[i]) <=> (x = e \/ \E i \in DOMAIN b : x = b[i])
<1>1. /\ Append(b, e) \in Seq(Realtime!Event) /\ Len(Append(b, e)) = Len(b) + 1
      /\ \A i \in 1..Len(b) : Append(b, e)[i] = b[i]
      /\ Append(b, e)[Len(b) + 1] = e
      /\ DOMAIN b = 1..Len(b) /\ Len(b) \in Nat
      /\ DOMAIN Append(b, e) = 1..(Len(b) + 1)
  OBVIOUS
<1>2. ASSUME NEW x, NEW i \in DOMAIN Append(b, e), x = Append(b, e)[i]
      PROVE  x = e \/ \E k \in DOMAIN b : x = b[k]
  BY <1>1, <1>2
<1>3. \E i \in DOMAIN Append(b, e) : e = Append(b, e)[i]
  BY <1>1
<1>4. ASSUME NEW i \in DOMAIN b
      PROVE  \E k \in DOMAIN Append(b, e) : b[i] = Append(b, e)[k]
  BY <1>1
<1> HIDE <1>1
<1> QED BY <1>1, <1>2, <1>3, <1>4

LEMMA Taken ==
  ASSUME NEW b \in Seq(Realtime!Event), b # <<>>
  PROVE  /\ Tail(b) \in Seq(Realtime!Event) /\ Head(b) \in Realtime!Event
         /\ \A x : (\E i \in DOMAIN b : x = b[i]) <=> (x = Head(b) \/ \E i \in DOMAIN Tail(b) : x = Tail(b)[i])
<1>1. /\ Tail(b) \in Seq(Realtime!Event) /\ Len(b) \in Nat \ {0} /\ Len(Tail(b)) = Len(b) - 1
      /\ \A i \in 1..(Len(b) - 1) : Tail(b)[i] = b[i + 1]
      /\ Head(b) = b[1] /\ Head(b) \in Realtime!Event
      /\ DOMAIN b = 1..Len(b) /\ DOMAIN Tail(b) = 1..(Len(b) - 1)
  OBVIOUS
<1>2. ASSUME NEW i \in DOMAIN b
      PROVE  b[i] = Head(b) \/ \E k \in DOMAIN Tail(b) : b[i] = Tail(b)[k]
  <2>1. CASE i = 1
    BY <1>1, <2>1
  <2>2. CASE i # 1
    <3>1. i - 1 \in DOMAIN Tail(b) /\ Tail(b)[i - 1] = b[i]
      BY <1>1, <2>2
    <3> QED BY <3>1
  <2> QED BY <2>1, <2>2
<1>3. \E i \in DOMAIN b : Head(b) = b[i]
  BY <1>1
<1>4. ASSUME NEW i \in DOMAIN Tail(b)
      PROVE  \E k \in DOMAIN b : Tail(b)[i] = b[k]
  <2>1. i + 1 \in DOMAIN b /\ Tail(b)[i] = b[i + 1]
    BY <1>1
  <2> QED BY <2>1
<1> QED BY <1>1, <1>2, <1>3, <1>4

\* An event is published, or the oldest one is taken off the bus.
LEMMA BusGrows ==
  ASSUME RealTypes, NEW e \in Realtime!Event, bus' = Append(bus, e)
  PROVE  bus' \in Seq(Realtime!Event) /\ BusEvents' = BusEvents \cup {e}
<1>1. \A x : x \in BusEvents' <=> x \in BusEvents \cup {e}
  BY Queued DEF BusEvents, RealTypes
<1> QED BY <1>1, Queued DEF RealTypes

LEMMA BusShrinks ==
  ASSUME RealTypes, bus # <<>>, bus' = Tail(bus)
  PROVE  /\ bus' \in Seq(Realtime!Event) /\ Head(bus) \in Realtime!Event
         /\ BusEvents = BusEvents' \cup {Head(bus)}
<1>1. \A x : x \in BusEvents <=> x \in BusEvents' \cup {Head(bus)}
  BY Taken DEF BusEvents, RealTypes
<1> QED BY <1>1, Taken DEF RealTypes

\* A connection's queue is read off its record.
LEMMA MailIs ==
  ASSUME NEW s, conn'[s].mail = conn[s].mail
  PROVE  MailOf(s)' = MailOf(s)
  BY DEF MailOf

\* A connection that is not there.
LEMMA DeadTypes ==
  /\ Realtime!Dead \in ConnRec /\ Realtime!Dead.mail = <<>> /\ Realtime!Dead.state = "unused"
  /\ ~Realtime!Dead.checked
  /\ \A st \in {"off", "closed"} : LET c == [Realtime!Dead EXCEPT !.state = st]
                                    IN  c \in ConnRec /\ c.mail = <<>> /\ c.state = st /\ ~c.checked
<1>1. <<>> \in Seq(Realtime!Event)
  OBVIOUS
<1>2. LET c == [state |-> "unused", admin |-> FALSE, checked |-> FALSE, mail |-> <<>>]
      IN  c \in ConnRec /\ c.mail = <<>> /\ c.state = "unused" /\ ~c.checked
  BY <1>1 DEF ConnRec
<1>3. Realtime!Dead \in ConnRec /\ Realtime!Dead.mail = <<>> /\ Realtime!Dead.state = "unused" /\ ~Realtime!Dead.checked
  BY <1>2 DEF Realtime!Dead
<1>4. \A j \in ConnRec, st \in {"off", "closed"} :
         LET c == [j EXCEPT !.state = st]
         IN  c \in ConnRec /\ c.mail = j.mail /\ c.state = st /\ (c.checked <=> j.checked)
  BY DEF ConnRec
<1> QED BY <1>3, <1>4

LEMMA RealtimeInit == Realtime!Init => RealIInv
<1> SUFFICES ASSUME Realtime!Init PROVE RealIInv
  OBVIOUS
<1>1. PICK s \in Socket : /\ conn = [c \in Socket |-> IF c = s THEN [Realtime!Dead EXCEPT !.state = "off"]
                                                      ELSE Realtime!Dead]
                          /\ shared = s /\ shell = s
  BY DEF Realtime!Init
<1>2. PICK l \in MenuLoad :
         load = [x \in MenuLoad |-> IF x = l THEN [Realtime!NoLoad EXCEPT !.pc = "sent"] ELSE Realtime!NoLoad]
  BY DEF Realtime!Init
<1>3. /\ rights = 0 /\ logs = 0 /\ banned = FALSE /\ bus = <<>> /\ page \in Realtime!Pages
      /\ view = Realtime!NoView /\ session = None /\ excuse = {}
  BY DEF Realtime!Init
<1>4. /\ Realtime!Dead \in ConnRec /\ [Realtime!Dead EXCEPT !.state = "off"] \in ConnRec
      /\ Realtime!Dead.mail = <<>> /\ [Realtime!Dead EXCEPT !.state = "off"].mail = <<>>
      /\ Realtime!Dead.state = "unused" /\ [Realtime!Dead EXCEPT !.state = "off"].state = "off"
  BY DeadTypes
<1>5. conn \in [Socket -> ConnRec] /\ \A c \in Socket : conn[c].mail = <<>> /\ conn[c].state \in {"off", "unused"}
                                                   /\ (c # s => conn[c].state = "unused")
  BY <1>1, <1>4
<1>6. view \in ViewRec /\ view.shown = {} /\ view.snap = 0
  BY <1>3 DEF ViewRec, Realtime!NoView
<1>7. /\ load \in [MenuLoad -> [pc : {"idle", "sent", "read"}, at : 0..MaxChanges]]
      /\ load[l].pc = "sent" /\ \A x \in MenuLoad : load[x].at = 0
  <2>1. 0 \in 0..MaxChanges
    BY RealConstants
  <2>2. /\ Realtime!NoLoad \in [pc : {"idle", "sent", "read"}, at : 0..MaxChanges]
        /\ [Realtime!NoLoad EXCEPT !.pc = "sent"] \in [pc : {"idle", "sent", "read"}, at : 0..MaxChanges]
        /\ [Realtime!NoLoad EXCEPT !.pc = "sent"].pc = "sent" /\ Realtime!NoLoad.at = 0
        /\ [Realtime!NoLoad EXCEPT !.pc = "sent"].at = 0
    BY <2>1 DEF Realtime!NoLoad
  <2> QED BY <1>2, <2>2
<1>8. BusEvents = {} /\ \A c \in Socket : MailOf(c) = {}
  BY <1>3, <1>5 DEF BusEvents, MailOf
<1>9. bus \in Seq(Realtime!Event)
  BY <1>3
<1>10. Realtime!TypeOK
  <2>1. rights \in 0..MaxChanges /\ logs \in 0..MaxLogs
    BY <1>3, RealConstants
  <2>2. \A c \in Socket :
         /\ conn[c].state \in {"unused", "off", "checking", "open", "closed"}
         /\ conn[c].admin \in BOOLEAN /\ conn[c].checked \in BOOLEAN
    BY <1>5 DEF ConnRec
  <2>3. /\ \A i \in DOMAIN bus : bus[i] \in Realtime!Event
        /\ \A c \in Socket : \A i \in DOMAIN conn[c].mail : conn[c].mail[i] \in Realtime!Event
    BY <1>3, <1>5
  <2>4. view.on \in Socket \cup {None} /\ view.asked \in {"no", "sent", "read"} /\ view.shown \subseteq 1..MaxLogs
    BY <1>6 DEF ViewRec
  <2> QED BY <1>1, <1>3, <1>7, <2>1, <2>2, <2>3, <2>4 DEF Realtime!TypeOK
<1>11. FromThePast /\ OneSocket
  <2>1. \A x \in MenuLoad : load[x].at <= rights
    BY <1>3, <1>7
  <2> QED BY <1>1, <1>3, <1>5, <1>6, <1>8, <2>1 DEF FromThePast, OneSocket
<1>12. ~Realtime!Mounted /\ ~banned
  BY <1>3 DEF Realtime!Mounted
<1>13. MenusFollow
  BY <1>1, <1>7 DEF MenusFollow
<1> QED BY <1>5, <1>6, <1>9, <1>10, <1>11, <1>12, <1>13 DEF RealIInv, RealTypes, Listening, BanReaches, LogFollows

\* One connection moves on; it keeps its queue, or loses it and events with it.
LEMMA ConnMoves ==
  ASSUME RealIInv, NEW s \in Socket, NEW c \in ConnRec, conn' = [conn EXCEPT ![s] = c],
         UNCHANGED <<rights, logs, banned, bus, page, shared, shell, session, load, view>>,
         conn[s].state \notin {"unused", "closed"},
         c.mail = conn[s].mail \/ "unheard" \in excuse', excuse \subseteq excuse', c.mail \in {conn[s].mail, <<>>},
         banned /\ excuse' \cap {"unchecked"} = {} /\ (c.state = "open" \/ c.checked) =>
            conn[s].state = "open" \/ conn[s].checked
  PROVE  RealIInv'
<1>t. /\ RealTypes /\ FromThePast /\ OneSocket /\ Listening /\ BanReaches /\ MenusFollow /\ LogFollows
      /\ Realtime!TypeOK /\ conn \in [Socket -> ConnRec]
  BY DEF RealIInv, RealTypes
<1>1. /\ conn' \in [Socket -> ConnRec] /\ conn'[s] = c
      /\ \A x \in Socket \ {s} : conn'[x] = conn[x]
  BY <1>t
<1>2. BusEvents' = BusEvents /\ (Realtime!Mounted' <=> Realtime!Mounted)
  BY DEF BusEvents, Realtime!Mounted
<1>3. /\ \A x \in Socket : MailOf(x)' \subseteq MailOf(x)
      /\ "unheard" \in excuse' \/ \A x \in Socket : MailOf(x)' = MailOf(x)
  <2>1. \A x \in Socket \ {s} : MailOf(x)' = MailOf(x)
    BY <1>1, MailIs
  <2>2. MailOf(s)' \subseteq MailOf(s)
    BY <1>1 DEF MailOf
  <2>3. c.mail = conn[s].mail => MailOf(s)' = MailOf(s)
    BY <1>1, MailIs
  <2> QED BY <2>1, <2>2, <2>3
<1>4. s = shared
  BY <1>t DEF OneSocket
<1>5. RealTypes'
  <2>1. \A x \in Socket : /\ conn'[x].state \in {"unused", "off", "checking", "open", "closed"}
                          /\ conn'[x].admin \in BOOLEAN /\ conn'[x].checked \in BOOLEAN
                          /\ \A i \in DOMAIN conn'[x].mail : conn'[x].mail[i] \in Realtime!Event
    BY <1>1 DEF ConnRec
  <2>2. Realtime!TypeOK'
    BY <1>t, <2>1 DEF Realtime!TypeOK
  <2> QED BY <1>t, <1>1, <2>2 DEF RealTypes
<1>6. FromThePast'
  BY <1>t, <1>2, <1>3 DEF FromThePast
<1>7. OneSocket' /\ Listening'
  BY <1>t, <1>1, <1>2, <1>4 DEF OneSocket, Listening
<1>8. BanReaches'
  BY <1>t, <1>1, <1>2 DEF BanReaches
<1>9. MenusFollow'
  BY <1>t, <1>2, <1>3 DEF MenusFollow
<1>10. LogFollows'
  <2>1. "unheard" \in excuse' \/ \A n \in 1..logs : EntryComes(n) => EntryComes(n)'
    BY <1>2, <1>3 DEF EntryComes
  <2> QED BY <1>t, <1>2, <2>1 DEF LogFollows
<1> QED BY <1>5, <1>6, <1>7, <1>8, <1>9, <1>10 DEF RealIInv

LEMMA ConnSteps ==
  ASSUME RealIInv, NEW s \in Socket,
         \/ Realtime!Connect(s) \/ Realtime!BanCheck(s) \/ Realtime!BanCheckFails(s)
         \/ Realtime!Open(s) \/ Realtime!Flag(s) \/ Realtime!Drop(s)
  PROVE  RealIInv'
<1>t. conn \in [Socket -> ConnRec] /\ conn[s] \in ConnRec
  BY DEF RealIInv, RealTypes
<1>1. PICK i \in ConnRec : i = conn[s]
  BY <1>t
<1>2. UNCHANGED <<rights, logs, banned, bus, page, shared, shell, session, load, view>> /\ excuse \subseteq excuse'
  BY DEF Realtime!Connect, Realtime!BanCheck, Realtime!BanCheckFails, Realtime!Open, Realtime!Flag, Realtime!Drop,
         Realtime!server, Realtime!browser
<1>3. /\ \A j \in ConnRec, st \in {"checking", "open", "closed"} : LET c == [j EXCEPT !.state = st] IN
            c \in ConnRec /\ c.mail = j.mail /\ c.state = st /\ (c.checked <=> j.checked)
      /\ \A j \in ConnRec : LET c == [j EXCEPT !.checked = TRUE] IN
            c \in ConnRec /\ c.mail = j.mail
      /\ \A j \in ConnRec : LET c == [j EXCEPT !.admin = TRUE] IN
            c \in ConnRec /\ c.mail = j.mail
      /\ \A j \in ConnRec : LET c == [j EXCEPT !.state = "open", !.checked = FALSE] IN
            c \in ConnRec /\ c.mail = j.mail
  BY DEF ConnRec
<1>4. CASE Realtime!Connect(s)
  <2>1. conn' = [conn EXCEPT ![s] = [i EXCEPT !.state = "checking"]] /\ i.state = "off"
    BY <1>1, <1>4 DEF Realtime!Connect
  <2>2. PICK c \in ConnRec : /\ conn' = [conn EXCEPT ![s] = c]
                             /\ c.mail = i.mail /\ c.state = "checking" /\ (c.checked <=> i.checked)
    BY <1>3, <2>1
  <2> QED BY <1>1, <1>2, <2>1, <2>2, ConnMoves
<1>5. CASE Realtime!BanCheck(s)
  <2>1. i.state = "checking" /\ ~i.checked
    BY <1>1, <1>5 DEF Realtime!BanCheck
  <2>2. CASE banned
    <3>1. conn' = [conn EXCEPT ![s] = [i EXCEPT !.state = "closed"]]
      BY <1>1, <1>5, <2>2 DEF Realtime!BanCheck
    <3>2. PICK c \in ConnRec : /\ conn' = [conn EXCEPT ![s] = c]
                               /\ c.mail = i.mail /\ c.state = "closed" /\ (c.checked <=> i.checked)
      BY <1>3, <3>1
    <3> QED BY <1>1, <1>2, <2>1, <3>2, ConnMoves
  <2>3. CASE ~banned
    <3>1. conn' = [conn EXCEPT ![s] = [i EXCEPT !.checked = TRUE]]
      BY <1>1, <1>5, <2>3 DEF Realtime!BanCheck
    <3>2. PICK c \in ConnRec : conn' = [conn EXCEPT ![s] = c] /\ c.mail = i.mail
      BY <1>3, <3>1
    <3> QED BY <1>1, <1>2, <2>1, <2>3, <3>2, ConnMoves
  <2> QED BY <2>2, <2>3
<1>6. CASE Realtime!BanCheckFails(s)
  <2>1. /\ conn' = [conn EXCEPT ![s] = [i EXCEPT !.checked = TRUE]] /\ i.state = "checking"
        /\ excuse' \cap {"unchecked"} # {}
    BY <1>1, <1>6 DEF Realtime!BanCheckFails
  <2>2. PICK c \in ConnRec : conn' = [conn EXCEPT ![s] = c] /\ c.mail = i.mail
    BY <1>3, <2>1
  <2> QED BY <1>1, <1>2, <2>1, <2>2, ConnMoves
<1>7. CASE Realtime!Open(s)
  <2>1. conn' = [conn EXCEPT ![s] = [i EXCEPT !.state = "open", !.checked = FALSE]] /\ i.state = "checking" /\ i.checked
    BY <1>t, <1>1, <1>7 DEF Realtime!Open
  <2>2. PICK c \in ConnRec : conn' = [conn EXCEPT ![s] = c] /\ c.mail = i.mail
    BY <1>3, <2>1
  <2> QED BY <1>1, <1>2, <2>1, <2>2, ConnMoves
<1>8. CASE Realtime!Flag(s)
  <2>1. conn' = [conn EXCEPT ![s] = [i EXCEPT !.admin = TRUE]] /\ i.state = "open"
    BY <1>1, <1>8 DEF Realtime!Flag
  <2>2. PICK c \in ConnRec : conn' = [conn EXCEPT ![s] = c] /\ c.mail = i.mail
    BY <1>3, <2>1
  <2> QED BY <1>1, <1>2, <2>1, <2>2, ConnMoves
<1>9. CASE Realtime!Drop(s)
  <2>1. /\ conn' = [conn EXCEPT ![s] = [Realtime!Dead EXCEPT !.state = "off"]] /\ i.state \in {"checking", "open"}
        /\ "unheard" \in excuse'
    BY <1>1, <1>9 DEF Realtime!Drop
  <2>2. PICK c \in ConnRec : conn' = [conn EXCEPT ![s] = c] /\ c.mail = <<>> /\ c.state = "off" /\ ~c.checked
    BY <2>1, DeadTypes
  <2> QED BY <1>1, <1>2, <2>1, <2>2, ConnMoves
<1> QED BY <1>4, <1>5, <1>6, <1>7, <1>8, <1>9

\* An event is published, with what it tells of.
LEMMA PublishSteps ==
  ASSUME RealIInv, Realtime!ChangePermissions \/ Realtime!AddLog \/ Realtime!Ban \/ Realtime!Unban
  PROVE  RealIInv'
<1>t. /\ RealTypes /\ FromThePast /\ OneSocket /\ Listening /\ BanReaches /\ MenusFollow /\ LogFollows
      /\ Realtime!TypeOK /\ rights \in 0..MaxChanges /\ logs \in 0..MaxLogs /\ MaxLogs \in Nat /\ MaxChanges \in Nat
  BY RealConstants DEF RealIInv, RealTypes, Realtime!TypeOK
<1>1. UNCHANGED <<conn, page, shared, shell, session, load, view, excuse>>
  BY DEF Realtime!ChangePermissions, Realtime!AddLog, Realtime!Ban, Realtime!Unban, Realtime!browser
<1>2. PICK e \in Realtime!Event :
         /\ bus' = Append(bus, e)
         /\ \/ e.kind = "perm" /\ rights' = rights + 1 /\ rights' \in 0..MaxChanges /\ UNCHANGED <<logs, banned>>
            \/ e.kind = "log" /\ e.entry = logs + 1 /\ logs' = logs + 1 /\ logs' \in 0..MaxLogs
               /\ UNCHANGED <<rights, banned>>
            \/ e.kind = "ban" /\ banned' = TRUE /\ UNCHANGED <<rights, logs>>
            \/ e.kind = "unban" /\ banned' = FALSE /\ UNCHANGED <<rights, logs>>
  <2>1. CASE Realtime!ChangePermissions
    BY <1>t, <2>1, EventTypes DEF Realtime!ChangePermissions, Realtime!Publish
  <2>2. CASE Realtime!AddLog
    <3>1. logs + 1 \in 0..MaxLogs
      BY <1>t, <2>2 DEF Realtime!AddLog
    <3>2. [kind |-> "log", entry |-> logs + 1] \in Realtime!Event
      BY <3>1, EventTypes
    <3> QED BY <2>2, <3>1, <3>2 DEF Realtime!AddLog, Realtime!Publish
  <2>3. CASE Realtime!Ban
    BY <2>3, EventTypes DEF Realtime!Ban, Realtime!Publish
  <2>4. CASE Realtime!Unban
    BY <2>4, EventTypes DEF Realtime!Unban, Realtime!Publish
  <2> QED BY <2>1, <2>2, <2>3, <2>4
<1>3. bus' \in Seq(Realtime!Event) /\ BusEvents' = BusEvents \cup {e}
  BY <1>t, <1>2, BusGrows
<1>4. /\ \A s : MailOf(s)' = MailOf(s)
      /\ Realtime!Mounted' <=> Realtime!Mounted
      /\ rights' \in 0..MaxChanges /\ rights <= rights' /\ logs' \in 0..MaxLogs /\ logs <= logs' /\ banned' \in BOOLEAN
  <2>1. (\A s : MailOf(s)' = MailOf(s)) /\ (Realtime!Mounted' <=> Realtime!Mounted)
    BY <1>1 DEF MailOf, Realtime!Mounted
  <2>2. rights' \in 0..MaxChanges /\ rights <= rights' /\ logs' \in 0..MaxLogs /\ logs <= logs'
    BY <1>t, <1>2
  <2>3. banned' \in BOOLEAN
    BY <1>t, <1>2 DEF Realtime!TypeOK
  <2> QED BY <2>1, <2>2, <2>3
<1>5. RealTypes'
  <2>1. \A i \in DOMAIN bus' : bus'[i] \in Realtime!Event
    BY <1>3
  <2>2. Realtime!TypeOK'
    BY <1>t, <1>1, <1>4, <2>1 DEF Realtime!TypeOK
  <2> QED BY <1>t, <1>1, <1>3, <2>2 DEF RealTypes
<1>6. FromThePast'
  <2>1. \A l \in MenuLoad : load[l].at <= rights'
    BY <1>t, <1>4 DEF FromThePast, Realtime!TypeOK
  <2>2. \A n \in 1..logs : n \in 1..logs'
    BY <1>t, <1>4
  <2>3. e.kind = "log" => e.entry \in 1..logs'
    BY <1>t, <1>2
  <2>4. view.snap <= logs'
    BY <1>t, <1>4 DEF FromThePast, RealTypes, ViewRec
  <2>5. view.shown \subseteq 1..logs'
    BY <1>t, <2>2 DEF FromThePast
  <2> QED BY <1>t, <1>1, <1>3, <1>4, <2>1, <2>2, <2>3, <2>4, <2>5 DEF FromThePast
<1>7. OneSocket' /\ Listening'
  BY <1>t, <1>1, <1>4 DEF OneSocket, Listening
<1>8. BanReaches'
  BY <1>t, <1>1, <1>2, <1>3 DEF BanReaches
<1>9. MenusFollow'
  BY <1>t, <1>1, <1>2, <1>3, <1>4 DEF MenusFollow
<1>10. LogFollows'
  <2>1. \A n \in 1..logs : EntryComes(n) => EntryComes(n)'
    BY <1>1, <1>3, <1>4 DEF EntryComes
  <2>2. \A n \in 1..logs' : n \in 1..logs \/ EntryComes(n)'
    BY <1>t, <1>2, <1>3 DEF EntryComes
  <2> QED BY <1>t, <1>1, <1>4, <2>1, <2>2 DEF LogFollows
<1> QED BY <1>5, <1>6, <1>7, <1>8, <1>9, <1>10 DEF RealIInv

\* What the listeners of an event do to a connection.
LEMMA HandedTypes ==
  ASSUME NEW c \in ConnRec, NEW e \in Realtime!Event
  PROVE  LET d == Realtime!Handed(c, e) IN
         /\ d \in ConnRec
         /\ e.kind # "ban" /\ ~Realtime!ReachedAdmin(c) => d = c
         /\ e.kind # "ban" /\ Realtime!ReachedAdmin(c) =>
               d.state = c.state /\ (d.checked <=> c.checked) /\ d.mail = Append(c.mail, e)
         /\ e.kind = "ban" /\ Realtime!Reached(c) => d.state = "closed"
         /\ e.kind = "ban" /\ ~Realtime!Reached(c) => d = c
<1>1. c.mail \in Seq(Realtime!Event) /\ Append(c.mail, e) \in Seq(Realtime!Event) /\ <<>> \in Seq(Realtime!Event)
  <2>1. c.mail \in Seq(Realtime!Event)
    BY DEF ConnRec
  <2> QED BY <2>1
<1>2. \A j \in ConnRec, m \in Seq(Realtime!Event) :
         LET d == [j EXCEPT !.mail = m]
         IN  d \in ConnRec /\ d.state = j.state /\ (d.checked <=> j.checked) /\ d.mail = m
  BY DEF ConnRec
<1>3. \A j \in ConnRec :
         LET d == [j EXCEPT !.state = "closed", !.admin = FALSE, !.mail = <<>>] IN d \in ConnRec /\ d.state = "closed"
  BY <1>1 DEF ConnRec
<1>4. CASE e.kind = "ban" /\ Realtime!Reached(c)
  <2>1. Realtime!Handed(c, e) = [c EXCEPT !.state = "closed", !.admin = FALSE, !.mail = <<>>]
    BY <1>4 DEF Realtime!Handed
  <2> QED BY <1>3, <1>4, <2>1
<1>5. CASE ~(e.kind = "ban" /\ Realtime!Reached(c)) /\ Realtime!ReachedAdmin(c)
  <2>1. Realtime!Handed(c, e) = [c EXCEPT !.mail = Append(c.mail, e)]
    BY <1>5 DEF Realtime!Handed, Realtime!Forwarded, Realtime!ReachedAdmin
  <2>2. e.kind # "ban"
    BY <1>5 DEF Realtime!Reached, Realtime!ReachedAdmin
  <2>m. PICK m \in Seq(Realtime!Event) : m = Append(c.mail, e)
    BY <1>1
  <2>3. PICK d \in ConnRec : /\ d = [c EXCEPT !.mail = m]
                             /\ d.state = c.state /\ (d.checked <=> c.checked) /\ d.mail = m
    BY <1>2
  <2>4. d = Realtime!Handed(c, e)
    BY <2>1, <2>3, <2>m
  <2> QED BY <1>5, <2>2, <2>3, <2>4, <2>m
<1>6. CASE ~(e.kind = "ban" /\ Realtime!Reached(c)) /\ ~Realtime!ReachedAdmin(c)
  <2>1. Realtime!Handed(c, e) = c
    BY <1>6 DEF Realtime!Handed, Realtime!Forwarded, Realtime!ReachedAdmin
  <2> QED BY <1>6, <2>1
<1> QED BY <1>4, <1>5, <1>6

LEMMA ForwardKeeps ==
  ASSUME RealIInv, Realtime!Forward
  PROVE  RealIInv'
<1>t. /\ RealTypes /\ FromThePast /\ OneSocket /\ Listening /\ BanReaches /\ MenusFollow /\ LogFollows
      /\ Realtime!TypeOK /\ conn \in [Socket -> ConnRec]
  BY DEF RealIInv, RealTypes
<1>1. PICK e \in Realtime!Event : e = Head(bus)
  BY <1>t, BusShrinks DEF Realtime!Forward
<1>2. /\ bus # <<>> /\ bus' = Tail(bus)
      /\ conn' = [s \in Socket |-> Realtime!Handed(conn[s], e)]
      /\ UNCHANGED <<rights, logs, banned, page, shared, shell, session, load, view>>
  BY <1>1 DEF Realtime!Forward, Realtime!server, Realtime!browser
<1>3. /\ excuse \subseteq excuse'
      /\ e.kind \in {"perm", "log"} => "unheard" \in excuse' \/ \E s \in Socket : Realtime!ReachedAdmin(conn[s])
      /\ e.kind = "ban" => "slipped" \in excuse' \/ \A s \in Socket : ~conn[s].checked
      /\ e.kind = "ban" => "offline" \in excuse' \/ \A s \in Socket : ~Realtime!Reached(conn[s])
  BY <1>1 DEF Realtime!Forward
<1>4. bus' \in Seq(Realtime!Event) /\ BusEvents = BusEvents' \cup {e}
  BY <1>t, <1>1, <1>2, BusShrinks
<1>5. conn' \in [Socket -> ConnRec] /\ \A s \in Socket : conn'[s] = Realtime!Handed(conn[s], e)
  BY <1>t, <1>2, HandedTypes
<1>6. \A s \in Socket :
         /\ e.kind # "ban" => conn'[s].state = conn[s].state /\ (conn'[s].checked <=> conn[s].checked)
         /\ e.kind = "ban" /\ Realtime!Reached(conn[s]) => conn'[s].state = "closed"
         /\ e.kind = "ban" /\ ~Realtime!Reached(conn[s]) => conn'[s] = conn[s]
  BY <1>t, <1>5, HandedTypes
<1>7. \A s \in Socket : e.kind # "ban" =>
         MailOf(s)' = IF Realtime!ReachedAdmin(conn[s]) THEN MailOf(s) \cup {e} ELSE MailOf(s)
  <2> SUFFICES ASSUME NEW s \in Socket, e.kind # "ban"
               PROVE  MailOf(s)' = IF Realtime!ReachedAdmin(conn[s]) THEN MailOf(s) \cup {e} ELSE MailOf(s)
    OBVIOUS
  <2>1. CASE ~Realtime!ReachedAdmin(conn[s])
    <3>1. conn'[s] = conn[s]
      BY <1>t, <1>5, <2>1, HandedTypes
    <3> QED BY <2>1, <3>1 DEF MailOf
  <2>2. CASE Realtime!ReachedAdmin(conn[s])
    <3>1. conn'[s].mail = Append(conn[s].mail, e) /\ conn[s].mail \in Seq(Realtime!Event)
      <4>1. conn[s].mail \in Seq(Realtime!Event)
        BY <1>t DEF ConnRec
      <4> QED BY <1>t, <1>5, <2>2, <4>1, HandedTypes
    <3>2. PICK m \in Seq(Realtime!Event) : m = conn[s].mail
      BY <3>1
    <3>3. /\ MailOf(s)' = {Append(m, e)[i] : i \in DOMAIN Append(m, e)}
          /\ MailOf(s) = {m[i] : i \in DOMAIN m}
      BY <3>1, <3>2 DEF MailOf
    <3>4. \A x : x \in MailOf(s)' <=> x \in MailOf(s) \cup {e}
      <4>1. /\ \A x : x \in MailOf(s)' <=> \E i \in DOMAIN Append(m, e) : x = Append(m, e)[i]
            /\ \A x : x \in MailOf(s) <=> \E i \in DOMAIN m : x = m[i]
        BY <3>3, Zenon
      <4>2. \A x : (\E i \in DOMAIN Append(m, e) : x = Append(m, e)[i]) <=> (x = e \/ \E i \in DOMAIN m : x = m[i])
        BY Queued
      <4> QED BY <4>1, <4>2, Zenon
    <3> QED BY <2>2, <3>4
  <2> QED BY <2>1, <2>2
<1>8. \A s \in Socket : e.kind = "ban" /\ ~Realtime!Reached(conn[s]) => MailOf(s)' = MailOf(s)
  BY <1>6, MailIs
<1>9. \A s \in Socket : e.kind = "ban" => MailOf(s)' \subseteq MailOf(s)
  <2> SUFFICES ASSUME NEW s \in Socket, e.kind = "ban", Realtime!Reached(conn[s])
               PROVE  MailOf(s)' = {}
    BY <1>8
  <2>1. conn'[s].mail = <<>>
    BY <1>5 DEF Realtime!Handed, ConnRec
  <2> QED BY <2>1 DEF MailOf
<1>10. \A s \in Socket : Realtime!ReachedAdmin(conn[s]) => s = shared
  BY <1>t DEF OneSocket, Realtime!ReachedAdmin
<1>11. RealTypes'
  <2>1. \A x \in Socket : /\ conn'[x].state \in {"unused", "off", "checking", "open", "closed"}
                          /\ conn'[x].admin \in BOOLEAN /\ conn'[x].checked \in BOOLEAN
                          /\ \A i \in DOMAIN conn'[x].mail : conn'[x].mail[i] \in Realtime!Event
    BY <1>5 DEF ConnRec
  <2>2. \A i \in DOMAIN bus' : bus'[i] \in Realtime!Event
    BY <1>4
  <2>3. Realtime!TypeOK'
    BY <1>t, <1>2, <2>1, <2>2 DEF Realtime!TypeOK
  <2> QED BY <1>t, <1>2, <1>4, <1>5, <2>3 DEF RealTypes
<1>12. FromThePast'
  <2>1. \A s \in Socket : \A x \in MailOf(s)' : x \in MailOf(s) \/ x = e
    BY <1>7, <1>9
  <2> QED BY <1>t, <1>2, <1>4, <2>1 DEF FromThePast
<1>13. OneSocket' /\ Listening'
  BY <1>t, <1>2, <1>6 DEF OneSocket, Listening, Realtime!Mounted
<1>14. BanReaches'
  <2>1. CASE e.kind = "ban"
    <3>1. "slipped" \in excuse' \/ \A s \in Socket : conn'[s].state # "open" /\ ~conn'[s].checked
      <4> SUFFICES ASSUME "slipped" \notin excuse', NEW s \in Socket
                   PROVE  conn'[s].state # "open" /\ ~conn'[s].checked
        OBVIOUS
      <4>1. ~conn[s].checked
        BY <1>3, <2>1
      <4>2. CASE Realtime!Reached(conn[s])
        <5>1. conn'[s].state = "closed"
          BY <1>6, <2>1, <4>2
        <5>2. conn'[s].checked <=> conn[s].checked
          <6>1. \A j \in ConnRec : [j EXCEPT !.state = "closed", !.admin = FALSE, !.mail = <<>>].checked <=> j.checked
            BY DEF ConnRec
          <6>2. conn'[s] = [conn[s] EXCEPT !.state = "closed", !.admin = FALSE, !.mail = <<>>]
            BY <1>5, <2>1, <4>2 DEF Realtime!Handed
          <6>3. conn[s] \in ConnRec
            BY <1>t
          <6> QED BY <6>1, <6>2, <6>3
        <5> QED BY <4>1, <5>1, <5>2
      <4>3. CASE ~Realtime!Reached(conn[s])
        BY <1>6, <2>1, <4>1, <4>3 DEF Realtime!Reached
      <4> QED BY <4>2, <4>3
    <3> QED BY <3>1 DEF BanReaches
  <2>2. CASE e.kind # "ban"
    BY <1>t, <1>2, <1>3, <1>4, <1>6, <2>2 DEF BanReaches
  <2> QED BY <2>1, <2>2
<1>15. e.kind = "ban" => "offline" \in excuse' \/ \A s \in Socket : MailOf(s)' = MailOf(s)
  BY <1>3, <1>8
<1>16. MenusFollow'
  <2> SUFFICES ASSUME excuse' \cap {"cut", "unheard", "offline", "unpublished", "unloaded", "overtaken"} = {}
               PROVE  (/\ shared = shell
                       /\ \/ session = rights
                          \/ \E x \in BusEvents : x.kind = "perm"
                          \/ \E s \in Socket : s = shell /\ \E x \in MailOf(s) : x.kind = "perm"
                          \/ \E l \in MenuLoad : load[l].pc = "sent" \/ (load[l].pc = "read" /\ load[l].at = rights))'
    BY DEF MenusFollow
  <2>1. /\ shared = shell
        /\ \/ session = rights
           \/ \E x \in BusEvents : x.kind = "perm"
           \/ \E s \in Socket : s = shell /\ \E x \in MailOf(s) : x.kind = "perm"
           \/ \E l \in MenuLoad : load[l].pc = "sent" \/ (load[l].pc = "read" /\ load[l].at = rights)
    BY <1>t, <1>3 DEF MenusFollow
  <2>2. \A s \in Socket : MailOf(s) \subseteq MailOf(s)'
    BY <1>7, <1>15
  <2>3. CASE e.kind = "perm"
    <3>1. PICK s \in Socket : Realtime!ReachedAdmin(conn[s])
      BY <1>3, <2>3
    <3>2. s = shell /\ e \in MailOf(s)'
      BY <1>7, <1>10, <2>1, <2>3, <3>1
    <3> QED BY <1>2, <2>1, <2>3, <3>2
  <2>4. CASE e.kind # "perm"
    BY <1>2, <1>4, <2>1, <2>2, <2>4
  <2> QED BY <2>3, <2>4
<1>17. LogFollows'
  <2> SUFFICES ASSUME excuse' \cap {"replaced", "unheard", "offline", "unpublished", "unloaded"} = {},
                      NEW n \in 1..logs, EntryComes(n)
               PROVE  EntryComes(n)'
    BY <1>t, <1>2, <1>3 DEF LogFollows, Realtime!Mounted
  <2>1. \A s \in Socket : MailOf(s) \subseteq MailOf(s)'
    BY <1>7, <1>15
  <2>2. CASE e.kind = "log"
    <3>1. PICK s \in Socket : Realtime!ReachedAdmin(conn[s])
      BY <1>3, <2>2
    <3>2. s = shared /\ e \in MailOf(s)'
      BY <1>7, <1>10, <2>2, <3>1
    <3> QED BY <1>2, <1>4, <2>1, <2>2, <3>2 DEF EntryComes
  <2>3. CASE e.kind # "log"
    BY <1>2, <1>4, <2>1, <2>3 DEF EntryComes
  <2> QED BY <2>2, <2>3
<1> QED BY <1>11, <1>12, <1>13, <1>14, <1>16, <1>17 DEF RealIInv

LEMMA ForwardFailsKeeps ==
  ASSUME RealIInv, Realtime!ForwardFails
  PROVE  RealIInv'
<1>t. /\ RealTypes /\ FromThePast /\ OneSocket /\ Listening /\ Realtime!TypeOK
  BY DEF RealIInv, RealTypes
<1>1. /\ bus # <<>> /\ bus' = Tail(bus) /\ "unpublished" \in excuse'
      /\ UNCHANGED <<rights, logs, banned, conn, page, shared, shell, session, load, view>>
  BY DEF Realtime!ForwardFails, Realtime!server, Realtime!browser
<1>2. bus' \in Seq(Realtime!Event) /\ BusEvents' \subseteq BusEvents
  BY <1>t, <1>1, BusShrinks
<1>3. \A s : MailOf(s)' = MailOf(s)
  BY <1>1 DEF MailOf
<1>4. RealTypes'
  <2>1. \A i \in DOMAIN bus' : bus'[i] \in Realtime!Event
    BY <1>2
  <2>2. Realtime!TypeOK'
    BY <1>t, <1>1, <2>1 DEF Realtime!TypeOK
  <2> QED BY <1>t, <1>1, <1>2, <2>2 DEF RealTypes
<1>5. FromThePast' /\ OneSocket' /\ Listening'
  BY <1>t, <1>1, <1>2, <1>3 DEF FromThePast, OneSocket, Listening, Realtime!Mounted
<1>6. BanReaches' /\ MenusFollow' /\ LogFollows'
  BY <1>1 DEF BanReaches, MenusFollow, LogFollows
<1> QED BY <1>4, <1>5, <1>6 DEF RealIInv

\* Only the requests and the view change, or nothing but them.
LEMMA LoadReadsKeeps ==
  ASSUME RealIInv, NEW l \in MenuLoad, Realtime!LoadReads(l)
  PROVE  RealIInv'
<1>t. /\ RealTypes /\ FromThePast /\ OneSocket /\ Listening /\ BanReaches /\ MenusFollow /\ LogFollows
      /\ Realtime!TypeOK /\ rights \in 0..MaxChanges /\ MaxChanges \in Nat
  BY RealConstants DEF RealIInv, RealTypes, Realtime!TypeOK
<1>1. /\ load' = [load EXCEPT ![l] = [pc |-> "read", at |-> rights]]
      /\ UNCHANGED <<rights, logs, banned, bus, conn, page, shared, shell, session, view, used, excuse>>
  BY DEF Realtime!LoadReads, Realtime!server
<1>2. /\ load' \in [MenuLoad -> [pc : {"idle", "sent", "read"}, at : 0..MaxChanges]]
      /\ load'[l].pc = "read" /\ load'[l].at = rights
      /\ \A x \in MenuLoad \ {l} : load'[x] = load[x]
  BY <1>t, <1>1 DEF Realtime!TypeOK
<1>3. BusEvents' = BusEvents /\ (\A s : MailOf(s)' = MailOf(s)) /\ (Realtime!Mounted' <=> Realtime!Mounted)
  BY <1>1 DEF BusEvents, MailOf, Realtime!Mounted
<1>4. RealTypes'
  <2>1. Realtime!TypeOK'
    BY <1>t, <1>1, <1>2 DEF Realtime!TypeOK
  <2> QED BY <1>t, <1>1, <2>1 DEF RealTypes
<1>5. FromThePast'
  <2>1. \A x \in MenuLoad : load'[x].at <= rights
    BY <1>t, <1>2 DEF FromThePast
  <2> QED BY <1>t, <1>1, <1>3, <2>1 DEF FromThePast
<1>6. OneSocket' /\ Listening' /\ BanReaches'
  BY <1>t, <1>1, <1>3 DEF OneSocket, Listening, BanReaches
<1>7. MenusFollow'
  BY <1>t, <1>1, <1>2, <1>3 DEF MenusFollow
<1>8. \A n : EntryComes(n) => EntryComes(n)'
  BY <1>1, <1>3 DEF EntryComes
<1>9. LogFollows'
  BY <1>t, <1>1, <1>3, <1>8 DEF LogFollows
<1> QED BY <1>4, <1>5, <1>6, <1>7, <1>9 DEF RealIInv

\* The live log's request goes on.
LEMMA SnapshotSteps ==
  ASSUME RealIInv, Realtime!SnapshotReads \/ Realtime!SnapshotAnswers \/ Realtime!SnapshotFails
  PROVE  RealIInv'
<1>t. /\ RealTypes /\ FromThePast /\ OneSocket /\ Listening /\ BanReaches /\ MenusFollow /\ LogFollows
      /\ Realtime!TypeOK /\ view \in ViewRec /\ logs \in 0..MaxLogs /\ MaxLogs \in Nat
  BY RealConstants DEF RealIInv, RealTypes, Realtime!TypeOK
<1>1. UNCHANGED <<rights, logs, banned, bus, conn, page, shared, shell, session, load>> /\ excuse \subseteq excuse'
  BY DEF Realtime!SnapshotReads, Realtime!SnapshotAnswers, Realtime!SnapshotFails, Realtime!server
<1>2. /\ view'.on = view.on /\ view' \in ViewRec /\ view'.snap <= logs /\ view'.shown \subseteq 1..logs
      /\ "unloaded" \in excuse' \/ "replaced" \in excuse'
            \/ \A n \in 1..logs : (\/ n \in view.shown \/ view.asked = "sent"
                                   \/ (view.asked = "read" /\ n <= view.snap)) =>
                                  (\/ n \in view'.shown \/ view'.asked = "sent"
                                   \/ (view'.asked = "read" /\ n <= view'.snap))
  <2>t. /\ view.snap <= logs /\ view.shown \subseteq 1..logs /\ logs \in Nat /\ logs <= MaxLogs
        /\ view.snap \in Nat /\ view.shown \subseteq 1..MaxLogs
    BY <1>t DEF FromThePast, ViewRec
  <2>1. CASE Realtime!SnapshotReads
    <3>1. view' = [view EXCEPT !.asked = "read", !.snap = logs] /\ view.asked = "sent"
      BY <2>1 DEF Realtime!SnapshotReads
    <3>2. /\ view' \in ViewRec /\ view'.on = view.on /\ view'.snap = logs /\ view'.asked = "read"
          /\ view'.shown = view.shown
      BY <1>t, <2>t, <3>1 DEF ViewRec
    <3>3. \A n \in 1..logs : n <= logs
      BY <2>t
    <3> QED BY <2>t, <3>2, <3>3
  <2>2. CASE Realtime!SnapshotAnswers
    <3>1. /\ view' = [view EXCEPT !.asked = "no", !.shown = 1..view.snap] /\ view.asked = "read"
          /\ "replaced" \in excuse' \/ view.shown \subseteq 1..view.snap
      BY <2>2 DEF Realtime!SnapshotAnswers, Realtime!Snapshot
    <3>2. 1..view.snap \subseteq 1..logs /\ 1..view.snap \subseteq 1..MaxLogs
      <4>1. PICK sn \in Nat : sn = view.snap
        BY <2>t
      <4>2. sn <= logs /\ logs \in Nat /\ logs <= MaxLogs
        BY <2>t, <4>1
      <4>3. 1..sn \subseteq 1..logs /\ 1..sn \subseteq 1..MaxLogs
        BY <1>t, <4>2
      <4> QED BY <4>1, <4>3
    <3>3. /\ view' \in ViewRec /\ view'.on = view.on /\ view'.snap = view.snap /\ view'.asked = "no"
          /\ view'.shown = 1..view.snap
      BY <1>t, <3>1, <3>2 DEF ViewRec
    <3>4. \A n \in 1..logs : n <= view.snap => n \in 1..view.snap
      BY <2>t
    <3> QED BY <2>t, <3>1, <3>2, <3>3, <3>4
  <2>3. CASE Realtime!SnapshotFails
    <3>1. view' = [view EXCEPT !.asked = "no"] /\ "unloaded" \in excuse'
      BY <2>3 DEF Realtime!SnapshotFails
    <3> QED BY <1>t, <2>t, <3>1 DEF ViewRec
  <2> QED BY <2>1, <2>2, <2>3
<1>3. BusEvents' = BusEvents /\ (\A s : MailOf(s)' = MailOf(s)) /\ (Realtime!Mounted' <=> Realtime!Mounted)
  BY <1>1 DEF BusEvents, MailOf, Realtime!Mounted
<1>4. RealTypes'
  <2>1. view'.on \in Socket \cup {None} /\ view'.asked \in {"no", "sent", "read"} /\ view'.shown \subseteq 1..MaxLogs
    BY <1>2 DEF ViewRec
  <2>2. Realtime!TypeOK'
    BY <1>t, <1>1, <2>1 DEF Realtime!TypeOK
  <2> QED BY <1>t, <1>1, <1>2, <2>2 DEF RealTypes
<1>5. FromThePast'
  BY <1>t, <1>1, <1>2, <1>3 DEF FromThePast
<1>6. OneSocket' /\ Listening' /\ BanReaches'
  BY <1>t, <1>1, <1>2, <1>3 DEF OneSocket, Listening, BanReaches
<1>7. MenusFollow'
  BY <1>t, <1>1, <1>3 DEF MenusFollow
<1>8. LogFollows'
  <2> SUFFICES ASSUME excuse' \cap {"replaced", "unheard", "offline", "unpublished", "unloaded"} = {},
                      NEW n \in 1..logs, EntryComes(n)
               PROVE  EntryComes(n)'
    BY <1>t, <1>1, <1>3 DEF LogFollows
  <2> QED BY <1>1, <1>2, <1>3 DEF EntryComes
<1> QED BY <1>4, <1>5, <1>6, <1>7, <1>8 DEF RealIInv

\* An event is delivered.
LEMMA DeliverKeeps ==
  ASSUME RealIInv, NEW s \in Socket, Realtime!Deliver(s)
  PROVE  RealIInv'
<1>t. /\ RealTypes /\ FromThePast /\ OneSocket /\ Listening /\ BanReaches /\ MenusFollow /\ LogFollows
      /\ Realtime!TypeOK /\ conn \in [Socket -> ConnRec] /\ view \in ViewRec
      /\ logs \in 0..MaxLogs /\ MaxLogs \in Nat
  BY RealConstants DEF RealIInv, RealTypes, Realtime!TypeOK
<1>1. PICK i \in ConnRec : i = conn[s]
  BY <1>t
<1>2. i.mail \in Seq(Realtime!Event) /\ i.mail # <<>> /\ i.state = "open"
  BY <1>1 DEF Realtime!Deliver, ConnRec
<1>3. PICK m \in Seq(Realtime!Event), e \in Realtime!Event : m = Tail(i.mail) /\ e = Head(i.mail)
  BY <1>2, Taken
<1>4. \A j \in ConnRec, ms \in Seq(Realtime!Event) :
         LET d == [j EXCEPT !.mail = ms]
         IN  d \in ConnRec /\ d.state = j.state /\ (d.checked <=> j.checked) /\ d.mail = ms
  BY DEF ConnRec
<1>5. PICK c \in ConnRec : /\ conn' = [conn EXCEPT ![s] = c]
                           /\ c.state = i.state /\ (c.checked <=> i.checked) /\ c.mail = m
  <2>1. conn' = [conn EXCEPT ![s] = [i EXCEPT !.mail = m]]
    BY <1>t, <1>1, <1>3 DEF Realtime!Deliver
  <2> QED BY <1>4, <2>1
<1>6. /\ conn' \in [Socket -> ConnRec] /\ conn'[s] = c
      /\ \A x \in Socket \ {s} : conn'[x] = conn[x]
  BY <1>t, <1>5
<1>7. /\ MailOf(s) = MailOf(s)' \cup {e}
      /\ \A x \in Socket \ {s} : MailOf(x)' = MailOf(x)
  <2>1. \A x : x \in MailOf(s) <=> x \in MailOf(s)' \cup {e}
    <3>1. /\ MailOf(s)' = {m[k] : k \in DOMAIN m}
          /\ MailOf(s) = {i.mail[k] : k \in DOMAIN i.mail}
      BY <1>1, <1>5, <1>6 DEF MailOf
    <3>2. /\ \A x : x \in MailOf(s)' <=> \E k \in DOMAIN m : x = m[k]
          /\ \A x : x \in MailOf(s) <=> \E k \in DOMAIN i.mail : x = i.mail[k]
      BY <3>1, Zenon
    <3>3. \A x : (\E k \in DOMAIN i.mail : x = i.mail[k]) <=> (x = e \/ \E k \in DOMAIN m : x = m[k])
      <4>1. \A x : (\E k \in DOMAIN i.mail : x = i.mail[k])
                     <=> (x = Head(i.mail) \/ \E k \in DOMAIN Tail(i.mail) : x = Tail(i.mail)[k])
        BY <1>2, Taken
      <4> QED BY <1>3, <4>1, Zenon
    <3> QED BY <3>2, <3>3, Zenon
  <2> QED BY <1>6, <2>1, MailIs
<1>8. s = shared
  BY <1>t, <1>1, <1>2 DEF OneSocket
<1>9. UNCHANGED <<rights, logs, banned, bus, page, shared, shell, session, used, excuse>>
  BY DEF Realtime!Deliver, Realtime!server
<1>10. /\ load' \in [MenuLoad -> [pc : {"idle", "sent", "read"}, at : 0..MaxChanges]]
       /\ \A l \in MenuLoad : load'[l].at = load[l].at
       /\ \A l \in MenuLoad : load[l].pc # "idle" => load'[l] = load[l]
       /\ e.kind = "perm" /\ s = shell => \E l \in MenuLoad : load'[l].pc = "sent"
  <2>1. CASE e.kind = "perm" /\ s = shell
    <3>1. PICK l \in MenuLoad : load[l].pc = "idle" /\ load' = [load EXCEPT ![l].pc = "sent"]
      BY <1>1, <1>3, <2>1 DEF Realtime!Deliver
    <3>2. load \in [MenuLoad -> [pc : {"idle", "sent", "read"}, at : 0..MaxChanges]]
      BY <1>t DEF Realtime!TypeOK
    <3> QED BY <3>1, <3>2
  <2>2. CASE ~(e.kind = "perm" /\ s = shell)
    <3>1. load' = load
      BY <1>1, <1>3, <2>2 DEF Realtime!Deliver
    <3> QED BY <1>t, <2>2, <3>1 DEF Realtime!TypeOK
  <2> QED BY <2>1, <2>2
<1>11. /\ view' \in ViewRec /\ view'.on = view.on /\ view'.asked = view.asked /\ view'.snap = view.snap
       /\ view.shown \subseteq view'.shown /\ view'.shown \subseteq 1..logs
       /\ e.kind = "log" /\ s = view.on => e.entry \in view'.shown
  <2>1. CASE e.kind = "log" /\ s = view.on
    <3>1. view' = [view EXCEPT !.shown = view.shown \cup {e.entry}]
      BY <1>1, <1>3, <2>1 DEF Realtime!Deliver
    <3>2. e.entry \in 1..logs
      BY <1>t, <1>7, <2>1 DEF FromThePast
    <3>3. view.shown \cup {e.entry} \subseteq 1..logs /\ view.shown \cup {e.entry} \subseteq 1..MaxLogs
      <4>1. view.shown \subseteq 1..logs
        BY <1>t DEF FromThePast
      <4> QED BY <1>t, <3>2, <4>1
    <3> QED BY <1>t, <3>1, <3>3 DEF ViewRec
  <2>2. CASE ~(e.kind = "log" /\ s = view.on)
    <3>1. view' = view
      BY <1>1, <1>3, <2>2 DEF Realtime!Deliver
    <3> QED BY <1>t, <2>2, <3>1 DEF FromThePast
  <2> QED BY <2>1, <2>2
<1>12. BusEvents' = BusEvents /\ (Realtime!Mounted' <=> Realtime!Mounted)
  BY <1>9 DEF BusEvents, Realtime!Mounted
<1>13. RealTypes'
  <2>1. \A x \in Socket : /\ conn'[x].state \in {"unused", "off", "checking", "open", "closed"}
                          /\ conn'[x].admin \in BOOLEAN /\ conn'[x].checked \in BOOLEAN
                          /\ \A k \in DOMAIN conn'[x].mail : conn'[x].mail[k] \in Realtime!Event
    BY <1>6 DEF ConnRec
  <2>2. view'.on \in Socket \cup {None} /\ view'.asked \in {"no", "sent", "read"} /\ view'.shown \subseteq 1..MaxLogs
    BY <1>11 DEF ViewRec
  <2>3. Realtime!TypeOK'
    BY <1>t, <1>9, <1>10, <2>1, <2>2 DEF Realtime!TypeOK
  <2> QED BY <1>t, <1>6, <1>9, <1>11, <2>3 DEF RealTypes
<1>14. FromThePast'
  BY <1>t, <1>7, <1>9, <1>10, <1>11, <1>12 DEF FromThePast
<1>15. OneSocket' /\ Listening'
  BY <1>t, <1>8, <1>6, <1>9, <1>11, <1>12 DEF OneSocket, Listening
<1>16. BanReaches'
  BY <1>t, <1>1, <1>5, <1>6, <1>9, <1>12 DEF BanReaches
<1>17. MenusFollow'
  BY <1>t, <1>7, <1>8, <1>9, <1>10, <1>12 DEF MenusFollow
<1>18. LogFollows'
  <2> SUFFICES ASSUME page = "logs", Realtime!Mounted, NEW n \in 1..logs, EntryComes(n)
               PROVE  EntryComes(n)'
    BY <1>t, <1>9, <1>12 DEF LogFollows
  <2>1. s = view.on
    BY <1>t, <1>8 DEF Listening
  <2> QED BY <1>7, <1>8, <1>9, <1>11, <1>12, <2>1 DEF EntryComes
<1> QED BY <1>13, <1>14, <1>15, <1>16, <1>17, <1>18 DEF RealIInv

\* An answer for the menus is under way.
Answers == \E l \in MenuLoad : load[l].pc = "sent" \/ (load[l].pc = "read" /\ load[l].at = rights)

\* The pages run again: connections close or one is made, the view starts anew or stays.
LEMMA PagesRunAgain ==
  ASSUME RealIInv, conn' \in [Socket -> ConnRec],
         \A s \in Socket : /\ conn'[s].mail \in {conn[s].mail, <<>>}
                           /\ conn'[s].state = "open" => conn[s].state = "open"
                           /\ conn'[s].checked => conn[s].checked,
         OneSocket', shared' \in Socket \cup {None}, view' \in ViewRec,
         view' = view \/ (view'.snap = 0 /\ view'.shown = {}),
         page' \in Realtime!Pages, session' \in 0..MaxChanges \cup {None},
         load' \in [MenuLoad -> [pc : {"idle", "sent", "read"}, at : 0..MaxChanges]],
         \A l \in MenuLoad : load'[l].at <= rights,
         \/ page' = "logs" /\ Realtime!Mounted' => view'.on = shared' /\ view'.asked = "sent"
         \/ page' = page /\ Realtime!Mounted /\ UNCHANGED <<conn, shared, view>>,
         shared \in Socket => "cut" \in excuse' \/ UNCHANGED <<conn, shared>>,
         UNCHANGED <<rights, logs, banned, bus, shell>>, excuse \subseteq excuse',
         "unloaded" \in excuse' \/ "overtaken" \in excuse'
            \/ (session = rights \/ Answers => session' = rights \/ Answers')
  PROVE  RealIInv'
<1>t. /\ RealTypes /\ FromThePast /\ OneSocket /\ Listening /\ BanReaches /\ MenusFollow /\ LogFollows
      /\ Realtime!TypeOK /\ logs \in Nat
  <2>1. logs \in Nat
    BY RealConstants DEF RealIInv, RealTypes, Realtime!TypeOK
  <2> QED BY <2>1 DEF RealIInv, RealTypes
<1>1. BusEvents' = BusEvents
  BY DEF BusEvents
<1>2. \A s \in Socket : MailOf(s)' \subseteq MailOf(s)
  BY DEF MailOf
<1>3. UNCHANGED conn => \A s : MailOf(s)' = MailOf(s)
  BY DEF MailOf
<1>4. RealTypes'
  <2>1. \A x \in Socket : /\ conn'[x].state \in {"unused", "off", "checking", "open", "closed"}
                          /\ conn'[x].admin \in BOOLEAN /\ conn'[x].checked \in BOOLEAN
                          /\ \A k \in DOMAIN conn'[x].mail : conn'[x].mail[k] \in Realtime!Event
    BY DEF ConnRec
  <2>2. view'.on \in Socket \cup {None} /\ view'.asked \in {"no", "sent", "read"} /\ view'.shown \subseteq 1..MaxLogs
    BY DEF ViewRec
  <2>3. Realtime!TypeOK'
    BY <1>t, <2>1, <2>2 DEF Realtime!TypeOK
  <2> QED BY <1>t, <2>3 DEF RealTypes
<1>5. FromThePast'
  <2>1. view'.snap <= logs /\ view'.shown \subseteq 1..logs
    BY <1>t DEF FromThePast
  <2> QED BY <1>t, <1>1, <1>2, <2>1 DEF FromThePast
<1>6. Listening'
  <2>1. CASE page' = "logs" /\ Realtime!Mounted' => view'.on = shared' /\ view'.asked = "sent"
    BY <2>1 DEF Listening
  <2>2. CASE page' = page /\ Realtime!Mounted /\ UNCHANGED <<conn, shared, view>>
    BY <1>t, <2>2 DEF Listening
  <2> QED BY <2>1, <2>2
<1>7. BanReaches'
  BY <1>t, <1>1 DEF BanReaches
<1>8. MenusFollow'
  <2> SUFFICES ASSUME excuse' \cap {"cut", "unheard", "offline", "unpublished", "unloaded", "overtaken"} = {}
               PROVE  (/\ shared = shell
                       /\ \/ session = rights
                          \/ \E x \in BusEvents : x.kind = "perm"
                          \/ \E s \in Socket : s = shell /\ \E x \in MailOf(s) : x.kind = "perm"
                          \/ Answers)'
    BY DEF MenusFollow, Answers
  <2>1. /\ shared = shell
        /\ \/ session = rights
           \/ \E x \in BusEvents : x.kind = "perm"
           \/ \E s \in Socket : s = shell /\ \E x \in MailOf(s) : x.kind = "perm"
           \/ Answers
    BY <1>t DEF MenusFollow, Answers
  <2>2. UNCHANGED <<conn, shared>>
    BY <1>t, <2>1 DEF Realtime!TypeOK
  <2> QED BY <1>1, <1>3, <2>1, <2>2
<1>9. LogFollows'
  <2>1. CASE page' = "logs" /\ Realtime!Mounted' => view'.on = shared' /\ view'.asked = "sent"
    BY <2>1 DEF LogFollows, EntryComes
  <2>2. CASE page' = page /\ Realtime!Mounted /\ UNCHANGED <<conn, shared, view>>
    <3>1. \A n : EntryComes(n) => EntryComes(n)'
      BY <1>1, <1>3, <2>2 DEF EntryComes
    <3> QED BY <1>t, <2>2, <3>1 DEF LogFollows
  <2> QED BY <2>1, <2>2
<1> QED BY <1>4, <1>5, <1>6, <1>7, <1>8, <1>9 DEF RealIInv

\* The shared socket is torn down with the dashboard, or stays.
LEMMA TornDown ==
  ASSUME RealIInv
  PROVE  /\ Realtime!Torn \in [Socket -> ConnRec]
         /\ Realtime!SharedTorn \in Socket \cup {None}
         /\ \A s \in Socket : /\ Realtime!Torn[s].mail \in {conn[s].mail, <<>>}
                              /\ Realtime!Torn[s].state = "open" => conn[s].state = "open"
                              /\ Realtime!Torn[s].checked => conn[s].checked
                              /\ s # Realtime!SharedTorn => Realtime!Torn[s].state \in {"unused", "closed"}
         /\ "cut" \in Realtime!Cut \/ (Realtime!Torn = conn /\ Realtime!SharedTorn = shared)
<1>t. conn \in [Socket -> ConnRec] /\ shared \in Socket \cup {None} /\ OneSocket
  BY DEF RealIInv, RealTypes, Realtime!TypeOK
<1>1. CASE ~Realtime!OnDashboard
  BY <1>t, <1>1 DEF Realtime!Torn, Realtime!SharedTorn, OneSocket
<1>2. CASE Realtime!OnDashboard
  <2>1. PICK d \in ConnRec : /\ d = [Realtime!Dead EXCEPT !.state = "closed"]
                             /\ d.mail = <<>> /\ d.state = "closed" /\ ~d.checked
    BY DeadTypes
  <2>2. Realtime!Torn = [conn EXCEPT ![shared] = d] /\ Realtime!SharedTorn = None /\ "cut" \in Realtime!Cut
    BY <1>2, <2>1 DEF Realtime!Torn, Realtime!SharedTorn, Realtime!Cut, Realtime!Closed
  <2>3. \A s \in Socket : Realtime!Torn[s] = IF s = shared THEN d ELSE conn[s]
    BY <1>t, <2>2
  <2>4. Realtime!Torn \in [Socket -> ConnRec]
    BY <1>t, <2>1, <2>2
  <2>5. \A s \in Socket : /\ Realtime!Torn[s].mail \in {conn[s].mail, <<>>}
                          /\ Realtime!Torn[s].state = "open" => conn[s].state = "open"
                          /\ Realtime!Torn[s].checked => conn[s].checked
                          /\ Realtime!Torn[s].state \in {"unused", "closed"}
    BY <1>t, <2>1, <2>3 DEF OneSocket
  <2> QED BY <2>2, <2>4, <2>5
<1> QED BY <1>1, <1>2

\* The effects of a page, with the connections c of which at most the socket sh is alive.
LEMMA MountDoes ==
  ASSUME NEW c \in [Socket -> ConnRec], NEW sh \in Socket \cup {None}, NEW to,
         \A s \in Socket : s # sh => c[s].state \in {"unused", "closed"},
         Realtime!Mount(c, sh, to)
  PROVE  /\ conn' \in [Socket -> ConnRec] /\ shared' \in Socket \cup {None} /\ OneSocket'
         /\ \A s \in Socket : /\ conn'[s].mail = c[s].mail
                              /\ conn'[s].state = "open" => c[s].state = "open"
                              /\ conn'[s].checked => c[s].checked
         /\ view' \in ViewRec /\ view'.snap = 0 /\ view'.shown = {}
         /\ to = "logs" => view'.on = shared' /\ view'.asked = "sent"
         /\ sh # None => conn' = c /\ shared' = sh
<1>1. /\ Realtime!NoView \in ViewRec /\ Realtime!NoView.snap = 0 /\ Realtime!NoView.shown = {}
      /\ \A s \in Socket : LET v == [Realtime!NoView EXCEPT !.on = s, !.asked = "sent"]
                           IN  v \in ViewRec /\ v.snap = 0 /\ v.shown = {} /\ v.on = s /\ v.asked = "sent"
  BY DEF ViewRec, Realtime!NoView
<1>2. CASE to = "users" /\ conn' = c /\ shared' = sh /\ view' = Realtime!NoView
  BY <1>1, <1>2 DEF OneSocket
<1>3. ASSUME NEW s \in Socket,
             to # "users",
             IF sh = None THEN c[s].state = "unused" ELSE s = sh,
             shared' = s,
             conn' = IF sh = None THEN [c EXCEPT ![s].state = "off"] ELSE c,
             view' = IF to = "logs" THEN [Realtime!NoView EXCEPT !.on = s, !.asked = "sent"] ELSE Realtime!NoView
      PROVE  /\ conn' \in [Socket -> ConnRec] /\ shared' \in Socket \cup {None} /\ OneSocket'
             /\ \A x \in Socket : /\ conn'[x].mail = c[x].mail
                                  /\ conn'[x].state = "open" => c[x].state = "open"
                                  /\ conn'[x].checked => c[x].checked
             /\ view' \in ViewRec /\ view'.snap = 0 /\ view'.shown = {}
             /\ to = "logs" => view'.on = shared' /\ view'.asked = "sent"
             /\ sh # None => conn' = c /\ shared' = sh
  <2>1. /\ view' \in ViewRec /\ view'.snap = 0 /\ view'.shown = {}
        /\ to = "logs" => view'.on = shared' /\ view'.asked = "sent"
    BY <1>1, <1>3
  <2>2. CASE sh # None
    BY <1>3, <2>1, <2>2 DEF OneSocket
  <2>3. CASE sh = None
    <3>1. PICK j \in ConnRec : j = c[s]
      OBVIOUS
    <3>2. \A i \in ConnRec : LET d == [i EXCEPT !.state = "off"]
                             IN  d \in ConnRec /\ d.mail = i.mail /\ d.state = "off" /\ (d.checked <=> i.checked)
      BY DEF ConnRec
    <3>3. PICK d \in ConnRec : /\ d = [j EXCEPT !.state = "off"]
                               /\ d.mail = j.mail /\ d.state = "off" /\ (d.checked <=> j.checked)
      BY <3>2
    <3>4. conn' = [c EXCEPT ![s] = d]
      BY <1>3, <2>3, <3>1, <3>3
    <3>5. conn' \in [Socket -> ConnRec] /\ \A x \in Socket : conn'[x] = IF x = s THEN d ELSE c[x]
      BY <3>4
    <3>6. \A x \in Socket : x # s => conn'[x].state \in {"unused", "closed"}
      BY <2>3, <3>5, RealConstants
    <3>7. OneSocket' /\ shared' \in Socket \cup {None}
      BY <1>3, <3>6 DEF OneSocket
    <3>8. \A x \in Socket : /\ conn'[x].mail = c[x].mail
                            /\ conn'[x].state = "open" => c[x].state = "open"
                            /\ conn'[x].checked => c[x].checked
      BY <3>1, <3>3, <3>5
    <3> QED BY <2>1, <2>3, <3>5, <3>7, <3>8
  <2> QED BY <2>2, <2>3
<1> QED BY <1>2, <1>3 DEF Realtime!Mount

LEMMA MoveKeeps ==
  ASSUME RealIInv, NEW to \in Realtime!Pages, Realtime!Move(to)
  PROVE  RealIInv'
<1>t. /\ Realtime!TypeOK /\ conn \in [Socket -> ConnRec] /\ view \in ViewRec /\ OneSocket
      /\ shared \in Socket \cup {None} /\ session \in 0..MaxChanges \cup {None}
      /\ load \in [MenuLoad -> [pc : {"idle", "sent", "read"}, at : 0..MaxChanges]]
      /\ \A l \in MenuLoad : load[l].at <= rights
  BY DEF RealIInv, RealTypes, FromThePast, Realtime!TypeOK
<1>1. /\ page' = to /\ excuse' = excuse \cup Realtime!Cut
      /\ UNCHANGED <<rights, logs, banned, bus, shell, session, load>>
      /\ IF Realtime!Mounted THEN Realtime!Mount(Realtime!Torn, Realtime!SharedTorn, to)
         ELSE UNCHANGED <<conn, shared, view>>
  BY DEF Realtime!Move, Realtime!server
<1>2. session = rights \/ Answers => session' = rights \/ Answers'
  BY <1>1 DEF Answers
<1>3. Realtime!Mounted' <=> Realtime!Mounted
  BY <1>1 DEF Realtime!Mounted
<1>4. CASE ~Realtime!Mounted
  <2>1. UNCHANGED <<conn, shared, view>> /\ OneSocket' /\ ~Realtime!Mounted'
    BY <1>t, <1>1, <1>3, <1>4 DEF OneSocket
  <2> QED BY <1>t, <1>1, <1>2, <2>1, PagesRunAgain
<1>5. CASE Realtime!Mounted
  <2>1. Realtime!Mount(Realtime!Torn, Realtime!SharedTorn, to)
    BY <1>1, <1>5
  <2>2. /\ conn' \in [Socket -> ConnRec] /\ shared' \in Socket \cup {None} /\ OneSocket'
        /\ \A s \in Socket : /\ conn'[s].mail = Realtime!Torn[s].mail
                             /\ conn'[s].state = "open" => Realtime!Torn[s].state = "open"
                             /\ conn'[s].checked => Realtime!Torn[s].checked
        /\ view' \in ViewRec /\ view'.snap = 0 /\ view'.shown = {}
        /\ to = "logs" => view'.on = shared' /\ view'.asked = "sent"
        /\ Realtime!SharedTorn # None => conn' = Realtime!Torn /\ shared' = Realtime!SharedTorn
    BY <2>1, TornDown, MountDoes
  <2>3. /\ \A s \in Socket : /\ conn'[s].mail \in {conn[s].mail, <<>>}
                             /\ conn'[s].state = "open" => conn[s].state = "open"
                             /\ conn'[s].checked => conn[s].checked
        /\ shared \in Socket => "cut" \in excuse' \/ UNCHANGED <<conn, shared>>
    BY <1>1, <2>2, TornDown, RealConstants
  <2> QED BY <1>t, <1>1, <1>2, <2>2, <2>3, PagesRunAgain
<1> QED BY <1>4, <1>5

LEMMA LoadAnswersKeeps ==
  ASSUME RealIInv, NEW l \in MenuLoad, Realtime!LoadAnswers(l)
  PROVE  RealIInv'
<1>t. /\ Realtime!TypeOK /\ conn \in [Socket -> ConnRec] /\ view \in ViewRec /\ OneSocket
      /\ shared \in Socket \cup {None} /\ session \in 0..MaxChanges \cup {None} /\ page \in Realtime!Pages
      /\ load \in [MenuLoad -> [pc : {"idle", "sent", "read"}, at : 0..MaxChanges]] /\ rights \in 0..MaxChanges
      /\ \A x \in MenuLoad : load[x].at <= rights
      /\ MaxChanges \in Nat /\ None \notin Nat /\ None \notin Socket
  BY RealConstants DEF RealIInv, RealTypes, FromThePast, Realtime!TypeOK
<1>1. /\ load[l].pc = "read" /\ load' = [load EXCEPT ![l] = Realtime!NoLoad] /\ session' = load[l].at
      /\ IF Realtime!Mounted THEN UNCHANGED <<conn, shared, view>> ELSE Realtime!Mount(conn, shared, page)
      /\ UNCHANGED <<rights, logs, banned, bus, page, shell>> /\ excuse \subseteq excuse'
      /\ Realtime!Mounted /\ session > load[l].at => "overtaken" \in excuse'
  BY DEF Realtime!LoadAnswers, Realtime!server
<1>2. /\ load' \in [MenuLoad -> [pc : {"idle", "sent", "read"}, at : 0..MaxChanges]]
      /\ \A x \in MenuLoad : load'[x].at <= rights
      /\ \A x \in MenuLoad \ {l} : load'[x] = load[x]
  <2>1. /\ Realtime!NoLoad \in [pc : {"idle", "sent", "read"}, at : 0..MaxChanges] /\ Realtime!NoLoad.at = 0
        /\ 0 <= rights
    <3>1. 0 \in 0..MaxChanges
      BY <1>t
    <3> QED BY <1>t, <3>1 DEF Realtime!NoLoad
  <2> QED BY <1>t, <1>1, <2>1
<1>3. session' \in 0..MaxChanges
  BY <1>t, <1>1
<1>4. "overtaken" \in excuse' \/ (session = rights \/ Answers => session' = rights \/ Answers')
  <2>1. ASSUME session = rights, "overtaken" \notin excuse' PROVE session' = rights
    <3>1. load[l].at \in 0..MaxChanges /\ load[l].at <= rights /\ Realtime!Mounted
      BY <1>t, <2>1 DEF Realtime!Mounted
    <3> QED BY <1>t, <1>1, <2>1, <3>1
  <2>2. ASSUME Answers PROVE session' = rights \/ Answers'
    <3>1. PICK x \in MenuLoad : load[x].pc = "sent" \/ (load[x].pc = "read" /\ load[x].at = rights)
      BY <2>2 DEF Answers
    <3>2. CASE x = l
      BY <1>1, <3>1, <3>2
    <3>3. CASE x # l
      BY <1>1, <1>2, <3>1, <3>3 DEF Answers
    <3> QED BY <3>2, <3>3
  <2> QED BY <2>1, <2>2
<1>5. CASE Realtime!Mounted
  <2>1. UNCHANGED <<conn, shared, view>> /\ OneSocket'
    BY <1>t, <1>1, <1>5 DEF OneSocket
  <2> QED BY <1>t, <1>1, <1>2, <1>3, <1>4, <1>5, <2>1, PagesRunAgain
<1>6. CASE ~Realtime!Mounted
  <2>1. Realtime!Mount(conn, shared, page) /\ \A s \in Socket : s # shared => conn[s].state \in {"unused", "closed"}
    BY <1>t, <1>1, <1>6 DEF OneSocket
  <2>2. /\ conn' \in [Socket -> ConnRec] /\ shared' \in Socket \cup {None} /\ OneSocket'
        /\ \A s \in Socket : /\ conn'[s].mail = conn[s].mail
                             /\ conn'[s].state = "open" => conn[s].state = "open"
                             /\ conn'[s].checked => conn[s].checked
        /\ view' \in ViewRec /\ view'.snap = 0 /\ view'.shown = {}
        /\ page = "logs" => view'.on = shared' /\ view'.asked = "sent"
        /\ shared # None => conn' = conn /\ shared' = shared
    BY <1>t, <2>1, MountDoes
  <2>3. shared \in Socket => "cut" \in excuse' \/ UNCHANGED <<conn, shared>>
    BY <1>t, <2>2
  <2> QED BY <1>t, <1>1, <1>2, <1>3, <1>4, <2>2, <2>3, PagesRunAgain
<1> QED BY <1>5, <1>6

LEMMA LoadFailsKeeps ==
  ASSUME RealIInv, NEW l \in MenuLoad, Realtime!LoadFails(l)
  PROVE  RealIInv'
<1>t. /\ Realtime!TypeOK /\ page \in Realtime!Pages
      /\ load \in [MenuLoad -> [pc : {"idle", "sent", "read"}, at : 0..MaxChanges]] /\ rights \in 0..MaxChanges
      /\ \A x \in MenuLoad : load[x].at <= rights
      /\ MaxChanges \in Nat
  BY RealConstants DEF RealIInv, RealTypes, FromThePast, Realtime!TypeOK
<1>1. /\ load' = [load EXCEPT ![l] = Realtime!NoLoad] /\ session' = None
      /\ conn' = Realtime!Torn /\ shared' = Realtime!SharedTorn /\ view' = Realtime!NoView
      /\ excuse' = excuse \cup {"unloaded"} \cup Realtime!Cut
      /\ UNCHANGED <<rights, logs, banned, bus, page, shell>>
  BY DEF Realtime!LoadFails, Realtime!server
<1>2. /\ load' \in [MenuLoad -> [pc : {"idle", "sent", "read"}, at : 0..MaxChanges]]
      /\ \A x \in MenuLoad : load'[x].at <= rights
  <2>1. /\ Realtime!NoLoad \in [pc : {"idle", "sent", "read"}, at : 0..MaxChanges] /\ Realtime!NoLoad.at = 0
        /\ 0 <= rights
    <3>1. 0 \in 0..MaxChanges
      BY <1>t
    <3> QED BY <1>t, <3>1 DEF Realtime!NoLoad
  <2> QED BY <1>t, <1>1, <2>1
<1>3. view' \in ViewRec /\ view'.snap = 0 /\ view'.shown = {} /\ ~Realtime!Mounted'
  BY <1>1 DEF Realtime!NoView, ViewRec, Realtime!Mounted
<1>4. /\ conn' \in [Socket -> ConnRec] /\ shared' \in Socket \cup {None} /\ OneSocket'
      /\ \A s \in Socket : /\ conn'[s].mail \in {conn[s].mail, <<>>}
                           /\ conn'[s].state = "open" => conn[s].state = "open"
                           /\ conn'[s].checked => conn[s].checked
      /\ shared \in Socket => "cut" \in excuse' \/ UNCHANGED <<conn, shared>>
  BY <1>1, TornDown DEF OneSocket
<1> QED BY <1>t, <1>1, <1>2, <1>3, <1>4, PagesRunAgain

LEMMA RealtimeStep ==
  ASSUME RealIInv, [Realtime!Next]_(Realtime!vars)
  PROVE  RealIInv'
<1>1. CASE UNCHANGED Realtime!vars
  <2>1. UNCHANGED <<rights, logs, banned, bus, conn, page, shared, shell, session, load, view, excuse>>
    BY <1>1 DEF Realtime!vars
  <2>2. BusEvents' = BusEvents /\ (\A s : MailOf(s)' = MailOf(s)) /\ (Realtime!Mounted' <=> Realtime!Mounted)
    BY <2>1 DEF BusEvents, MailOf, Realtime!Mounted
  <2>3. RealTypes'
    BY <2>1 DEF RealIInv, RealTypes, Realtime!TypeOK
  <2>4. FromThePast' /\ OneSocket' /\ Listening' /\ BanReaches' /\ MenusFollow'
    BY <2>1, <2>2 DEF RealIInv, FromThePast, OneSocket, Listening, BanReaches, MenusFollow
  <2>5. \A n : EntryComes(n) => EntryComes(n)'
    BY <2>1, <2>2 DEF EntryComes
  <2>6. LogFollows'
    BY <2>1, <2>2, <2>5 DEF RealIInv, LogFollows
  <2> QED BY <2>3, <2>4, <2>6 DEF RealIInv
<1> QED BY <1>1, PublishSteps, ForwardKeeps, ForwardFailsKeeps, ConnSteps, DeliverKeeps, LoadReadsKeeps,
           LoadAnswersKeeps, LoadFailsKeeps, MoveKeeps, SnapshotSteps DEF Realtime!Next

\* What is kept is what is claimed.
LEMMA RealtimeGoal == RealInductive => RealtimeCorrect
<1> SUFFICES ASSUME RealIInv
             PROVE  Realtime!TypeOK /\ Realtime!MenusExplained /\ Realtime!BannedIsOut /\ Realtime!LogComplete
  BY DEF RealInductive, RealtimeCorrect
<1>1. bus = <<>> => BusEvents = {}
  BY DEF BusEvents
<1>2. Realtime!Quiet => BusEvents = {} /\ (\A s \in Socket : MailOf(s) = {})
                        /\ (\A l \in MenuLoad : load[l].pc = "idle") /\ view.asked = "no"
  BY <1>1 DEF Realtime!Quiet, MailOf
<1>3. Realtime!MenusExplained
  BY <1>2 DEF RealIInv, MenusFollow, Realtime!MenusExplained
<1>4. Realtime!BannedIsOut
  BY <1>1 DEF RealIInv, BanReaches, Realtime!BannedIsOut
<1>5. Realtime!LogComplete
  <2>1. ASSUME Realtime!Quiet, page = "logs", Realtime!Mounted,
               excuse \cap {"replaced", "unheard", "offline", "unpublished", "unloaded"} = {}
        PROVE  view.shown = 1..logs
    <3>1. \A n \in 1..logs : n \in view.shown
      BY <1>2, <2>1 DEF RealIInv, LogFollows, EntryComes
    <3> QED BY <3>1 DEF RealIInv, FromThePast
  <2> QED BY <2>1 DEF Realtime!LogComplete
<1> QED BY <1>3, <1>4, <1>5 DEF RealIInv, RealTypes

\* With any number of sockets, requests, entries, bans, page changes and failures, settled menus show
\* the account's permissions, a ban that was handed out leaves no connection of its address open, and
\* the live log misses no entry, unless the model names the loss or the overlap that explains it
\* (socket/index.ts, lib/bus.ts, lib/realtime.ts, AdminShell.tsx).
THEOREM RealtimeHolds == AdminSpec => []RealtimeCorrect
<1>1. AdminInit => RealInductive
  BY RealtimeStarts, RealtimeInit DEF RealInductive
<1>2. RealInductive /\ [AdminNext]_administration => RealInductive'
  BY RealtimeMoves, RealtimeStep DEF RealInductive
<1> QED BY <1>1, <1>2, RealtimeGoal, PTL DEF AdminSpec

-----------------------------------------------------------------------------
(***************************************************************************)
(* The roles, for any accounts, requests, lists and number of restarts.    *)
(***************************************************************************)
USE ListingsAssumption DEF Role

-----------------------------------------------------------------------------
\* The inductive invariant

\* What a handler has read when it comes to its write.
LocalsSound ==
    \A r \in Request :
        /\ job[r].op = "role" => job[r].want \in Role
        /\ job[r].op \in {"login", "upgrade"} => job[r].saw \in Role
        /\ job[r].op = "make-admin" /\ at[r] = "write" => job[r].saw = "USER"
        /\ job[r].as = Master => job[r].by \notin User

IInv == RolesHold /\ LocalsSound

-----------------------------------------------------------------------------
\* Jobs

\* What an operation names and asks for.
LEMMA Asked ==
    ASSUME NEW o \in PanelOps, NEW on \in Targets(o), NEW w \in Wants(o)
    PROVE  /\ on \in SUBSET User
           /\ w \in Role \cup {"on", "off", Null}
           /\ o = "role" => w \in Role
<1>1. on \in SUBSET User
  BY DEF Targets
<1>2. CASE o = "role"
  BY <1>1, <1>2 DEF Wants, TopOps
<1>3. CASE o # "role" /\ o \in TopOps
  BY <1>1, <1>3 DEF Wants, TopOps
<1>4. CASE o # "role" /\ o \notin TopOps
  BY <1>1, <1>4 DEF Wants
<1> QED BY <1>2, <1>3, <1>4

\* The role that an address list or a pin gives is a role; a pin is given back as it is.
LEMMA RoleForEmailIsRole ==
    ASSUME NEW u, NEW current \in Role, NEW override \in Role \cup {Null}
    PROVE  /\ RoleForEmail(u, current, override) \in Role
           /\ override # Null => RoleForEmail(u, current, override) = override
           /\ override = Null /\ current = "SUPER_ADMIN"
                => RoleForEmail(u, current, override) = "SUPER_ADMIN"
BY DEF RoleForEmail

-----------------------------------------------------------------------------
\* Types and locals

LEMMA InitHolds == Init => IInv
<1> SUFFICES ASSUME Init PROVE IInv
  OBVIOUS
<1>1. TypeOK
  BY DEF Init, TypeOK, NoJob, Job
<1>2. LocalsSound /\ PinnedRoleHolds /\ RevokedOnlyAdmitted
  BY DEF Init, LocalsSound, NoJob, PinnedRoleHolds, RevokedOnlyAdmitted, Pending, PanelOps,
         TopOps, SingleOps, BulkOps, OwnOps
<1> QED BY <1>1, <1>2 DEF IInv, RolesHold

\* A request that enters, whichever way, has a well-typed job.
LEMMA EnterType ==
    ASSUME TypeOK, LocalsSound, NEW r \in Request,
           \/ \E a \in Actor, o \in PanelOps : \E on \in Targets(o), w \in Wants(o) :
                 Admit(r, a, o, on, w)
           \/ \E t \in User, o \in {"block", "unblock"} : Command(r, o, t)
           \/ \E u \in User, o \in OwnOps : Enter(r, u, o)
    PROVE  TypeOK' /\ LocalsSound'
<1>1. ASSUME NEW a \in Actor, NEW o \in PanelOps, NEW on \in Targets(o), NEW w \in Wants(o),
             Admit(r, a, o, on, w)
      PROVE  TypeOK' /\ LocalsSound'
  <2> DEFINE s == IF a = Master THEN Master ELSE role[a]
  <2>1. s \in Role \cup {Master} /\ on \in SUBSET User /\ w \in Role \cup {"on", "off", Null}
    BY Asked DEF Actor, TypeOK
  <2>2. /\ job' \in [Request -> Job] /\ \A q \in Request \ {r} : job'[q] = job[q]
        /\ job'[r].op = o /\ job'[r].by = a /\ job'[r].want = w /\ job'[r].as = s
    BY <1>1, <2>1 DEF Admit, NoJob, Job, TypeOK
  <2>3. at' = [at EXCEPT ![r] = "permit"]
    BY <1>1 DEF Admit, Goto
  <2>4. TypeOK'
    BY <2>2, <2>3, <1>1 DEF TypeOK, Admit, account, history
  <2>5. s = Master => a \notin User
    BY DEF TypeOK
  <2>6. o \notin {"login", "upgrade"}
    BY DEF PanelOps, TopOps, SingleOps, BulkOps
  <2>7. LocalsSound'
    BY <2>2, <2>3, <2>5, <2>6, Asked DEF TypeOK, LocalsSound
  <2> QED BY <2>4, <2>7
<1>2. ASSUME NEW t \in User, NEW o \in {"block", "unblock"}, Command(r, o, t)
      PROVE  TypeOK' /\ LocalsSound'
  <2>1. o \in PanelOps /\ {t} \in SUBSET User /\ role[t] \in Role
    BY DEF TypeOK, PanelOps, SingleOps
  <2>2. /\ job' \in [Request -> Job] /\ \A q \in Request \ {r} : job'[q] = job[q]
        /\ job'[r].op = o /\ job'[r].by = Null /\ job'[r].as = Null
    BY <1>2, <2>1 DEF Command, NoJob, Job, TypeOK
  <2>3. at' \in [Request -> {"idle", "permit", "grants", "read", "write", "done"}]
        /\ \A q \in Request \ {r} : at'[q] = at[q]
    BY <1>2 DEF Command, Goto, TypeOK
  <2>4. TypeOK'
    BY <2>2, <2>3, <1>2 DEF TypeOK, Command, account, history
  <2>5. LocalsSound'
    BY <2>1, <2>2, <2>3 DEF LocalsSound, PanelOps, SingleOps
  <2> QED BY <2>4, <2>5
<1>3. ASSUME NEW u \in User, NEW o \in OwnOps, Enter(r, u, o)
      PROVE  TypeOK' /\ LocalsSound'
  <2>1. role[u] \in Role /\ pin[u] \in Role \cup {Null} /\ u \in Actor /\ {u} \in SUBSET User
    BY DEF TypeOK, Actor
  <2> DEFINE j == [NoJob EXCEPT !.by = u, !.op = o, !.on = {u}, !.saw = role[u], !.mark = pin[u]]
  <2>2. job' = [job EXCEPT ![r] = j]
    BY <1>3 DEF Enter
  <2>3a. j \in Job /\ j.op = o /\ j.saw = role[u] /\ j.as = Null
    BY <2>1 DEF NoJob, Job
  <2> HIDE DEF j
  <2>0. /\ job' \in [Request -> Job] /\ \A q \in Request \ {r} : job'[q] = job[q]
        /\ job'[r].op = o /\ job'[r].saw = role[u] /\ job'[r].as = Null
    BY <2>2, <2>3a DEF TypeOK
  <2>3. at' = [at EXCEPT ![r] = "write"]
    BY <1>3 DEF Enter, Goto
  <2>4. TypeOK'
    BY <2>0, <2>3, <1>3 DEF TypeOK, Enter, account, history
  <2>5. LocalsSound'
    BY <2>0, <2>1, <2>3 DEF TypeOK, LocalsSound, OwnOps
  <2> QED BY <2>4, <2>5
<1> QED BY <1>1, <1>2, <1>3

\* The fields of a job that a read leaves alone.
LEMMA JobFields ==
    ASSUME NEW j \in Job
    PROVE  /\ j.op \in PanelOps \cup OwnOps \cup {Null} /\ j.by \in Actor \cup {Null}
           /\ j.as \in Role \cup {Master, Null} /\ j.on \in SUBSET User
           /\ j.want \in Role \cup {"on", "off", Null}
           /\ j.saw \in Role \cup {Null} /\ j.mark \in Role \cup {Null}
<1> HIDE DEF Role
<1> QED BY DEF Job

\* The checks of a request and the reads of its target.
LEMMA CheckType ==
    ASSUME TypeOK, LocalsSound, NEW r \in Request,
           \/ Permit(r) \/ ReadGrants(r) \/ PermitTop(r) \/ ReadTarget(r)
           \/ ReadBulk(r) \/ Fail(r)
    PROVE  TypeOK' /\ LocalsSound'
<1>1. CASE Permit(r) \/ ReadGrants(r) \/ PermitTop(r) \/ Fail(r)
  <2>1. TypeOK'
    BY <1>1 DEF TypeOK, Permit, ReadGrants, PermitTop, Fail, Goto, Onward, account, history
  <2>2. job' = job /\ \A q \in Request : at'[q] = "write" /\ at[q] # "write" =>
                                             job[q].op \in {"ban", "unban"}
    BY <1>1 DEF TypeOK, Permit, ReadGrants, PermitTop, Fail, Goto, Onward
  <2>3. LocalsSound'
    BY <2>2 DEF LocalsSound
  <2> QED BY <2>1, <2>3
<1>2. CASE ReadTarget(r)
  <2> PICK t \in job[r].on :
          /\ at' = [at EXCEPT ![r] = IF Allowed(job[r], t) THEN "write" ELSE "done"]
          /\ job' = [job EXCEPT ![r].saw = role[t], ![r].mark = pin[t]]
    BY <1>2 DEF ReadTarget, Goto
  <2>1. t \in User /\ job[r] \in Job /\ role[t] \in Role /\ pin[t] \in Role \cup {Null}
    BY DEF TypeOK, Job
  <2>2. job'[r] \in Job /\ job'[r].saw = role[t] /\ job'[r].op = job[r].op
        /\ job'[r].want = job[r].want /\ job'[r].as = job[r].as /\ job'[r].by = job[r].by
    <3> HIDE DEF Role
    <3> QED BY <2>1, ZenonT(30) DEF TypeOK, Job
  <2>3. TypeOK'
    BY <1>2, <2>2 DEF TypeOK, ReadTarget, account, history
  <2>4. job[r].op = "make-admin" /\ at'[r] = "write" => job'[r].saw = "USER"
    <3>1. CASE job[r].op = "make-admin" /\ at'[r] = "write"
      <4>1. Allowed(job[r], t)
        BY <3>1 DEF TypeOK
      <4>2. job[r].op # "role"
          BY <3>1
        <4> QED BY <3>1, <4>1, <4>2, <2>1, <2>2 DEF Allowed, SparesAdmins, BulkOps
    <3> QED BY <3>1
  <2>5. LocalsSound'
    BY <2>1, <2>2, <2>4 DEF TypeOK, LocalsSound
  <2> QED BY <2>3, <2>5
<1>3. CASE ReadBulk(r)
  <2>1. job[r] \in Job /\ job' = [job EXCEPT ![r].on = {u \in @ : role[u] \notin Admins}]
        /\ at' = [at EXCEPT ![r] = "write"] /\ job[r].op \in BulkOps
    BY <1>3 DEF ReadBulk, Goto, TypeOK
  <2>2. job'[r] \in Job /\ job'[r].saw = job[r].saw /\ job'[r].op = job[r].op
        /\ job'[r].want = job[r].want /\ job'[r].as = job[r].as /\ job'[r].by = job[r].by
    <3>1. PICK us \in SUBSET User : job'[r] = [job[r] EXCEPT !.on = us]
      BY <2>1 DEF TypeOK, Job
    <3> HIDE DEF Role
    <3>2. job'[r] = [op |-> job[r].op, by |-> job[r].by, as |-> job[r].as, on |-> us,
                     want |-> job[r].want, saw |-> job[r].saw, mark |-> job[r].mark]
      BY <2>1, <3>1 DEF Job
    <3> QED BY <2>1, <3>2, JobFields DEF Job
  <2>3. TypeOK'
    BY <1>3, <2>1, <2>2 DEF TypeOK, ReadBulk, account, history
  <2>4. LocalsSound'
    BY <2>1, <2>2 DEF TypeOK, LocalsSound, BulkOps
  <2> QED BY <2>3, <2>4
<1> QED BY <1>1, <1>2, <1>3
\* Every write ends its request and leaves the others where they are.
LEMMA Finished ==
    ASSUME TypeOK, LocalsSound, NEW r \in Request, Finish(r)
    PROVE  /\ at' = [at EXCEPT ![r] = "done"] /\ job' = job /\ listed' = listed
           /\ restarts' = restarts /\ admitted' \subseteq Request
           /\ LocalsSound'
<1>1. /\ at' = [at EXCEPT ![r] = "done"] /\ job' = job /\ listed' = listed
      /\ restarts' = restarts /\ admitted' \subseteq Request
  BY DEF Finish, Goto, Watch, Pending, TypeOK
<1>2. LocalsSound'
  BY <1>1 DEF TypeOK, LocalsSound
<1> QED BY <1>1, <1>2

\* The writes that leave role and pin alone.
LEMMA MarkType ==
    ASSUME TypeOK, LocalsSound, PinnedRoleHolds, NEW r \in Request,
           SetPermissions(r) \/ Block(r) \/ Unblock(r) \/ Trash(r) \/ Restore(r)
    PROVE  TypeOK' /\ LocalsSound' /\ PinnedRoleHolds' /\ Finish(r)
<1>1. Finish(r)
  BY DEF SetPermissions, Block, Unblock, Trash, Restore
<1>2. /\ role' = role /\ pin' = pin /\ email' = email /\ overtaken' = overtaken
  BY DEF SetPermissions, Block, Unblock, Trash, Restore
<1>3. job[r].on \subseteq User
  BY DEF TypeOK, Job
<1>4. blocked' \subseteq User /\ trashed' \subseteq User /\ withheld' \subseteq User
  BY <1>3 DEF SetPermissions, Grant, Block, Unblock, Trash, Restore, TypeOK
<1>5. TypeOK'
  BY <1>1, <1>2, <1>4, Finished DEF TypeOK
<1> QED BY <1>1, <1>2, <1>5, Finished DEF PinnedRoleHolds

\* The writes of a role by the panel, and the erasure.
LEMMA PinType ==
    ASSUME TypeOK, LocalsSound, PinnedRoleHolds, NEW r \in Request,
           DemoteSuper(r) \/ SetRole(r) \/ MakeAdmin(r) \/ Erase(r)
    PROVE  TypeOK' /\ LocalsSound' /\ PinnedRoleHolds' /\ Finish(r)
<1>1. Finish(r)
  BY DEF DemoteSuper, SetRole, MakeAdmin, Erase
<1>2. job[r].on \subseteq User
  BY DEF TypeOK, Job
<1>3. \/ role' = role /\ pin' = pin /\ overtaken' = overtaken
      \/ \E t \in User, x \in Role : Pin(t, x)
      \/ \E t \in User : /\ role' = [role EXCEPT ![t] = "USER"] /\ pin' = [pin EXCEPT ![t] = Null]
                         /\ overtaken' = overtaken \ {t}
  <2>1. CASE DemoteSuper(r)
    BY <1>2, <2>1 DEF DemoteSuper, LocalsSound
  <2>2. CASE SetRole(r)
    BY <1>2, <2>2 DEF SetRole, LocalsSound
  <2>3. CASE MakeAdmin(r)
    BY <1>2, <2>3 DEF MakeAdmin
  <2>4. CASE Erase(r)
    BY <1>2, <2>4 DEF Erase
  <2> QED BY <2>1, <2>2, <2>3, <2>4
<1>4. /\ role' \in [User -> Role] /\ pin' \in [User -> Role \cup {Null}] /\ overtaken' \subseteq User
      /\ PinnedRoleHolds'
  <2>1. CASE role' = role /\ pin' = pin /\ overtaken' = overtaken
    BY <2>1 DEF TypeOK, PinnedRoleHolds
  <2>2. CASE \E t \in User, x \in Role : Pin(t, x)
    BY <2>2 DEF TypeOK, PinnedRoleHolds, Pin
  <2>3. CASE \E t \in User : /\ role' = [role EXCEPT ![t] = "USER"]
                             /\ pin' = [pin EXCEPT ![t] = Null]
                             /\ overtaken' = overtaken \ {t}
    BY <2>3 DEF TypeOK, PinnedRoleHolds
  <2> QED BY <1>3, <2>1, <2>2, <2>3
<1>5. /\ blocked' \subseteq User /\ trashed' \subseteq User /\ withheld' \subseteq User
      /\ email' \in [User -> {"none", "real", "marker"}]
  <2>1. CASE DemoteSuper(r) \/ SetRole(r)
    BY <2>1 DEF DemoteSuper, SetRole, TypeOK
  <2>2. CASE MakeAdmin(r)
    BY <1>2, <2>2 DEF MakeAdmin, Grant, TypeOK
  <2>3. CASE Erase(r)
    BY <1>2, <2>3 DEF Erase, TypeOK
  <2> QED BY <2>1, <2>2, <2>3
<1>6. TypeOK'
  BY <1>1, <1>4, <1>5, Finished DEF TypeOK
<1> QED BY <1>1, <1>4, <1>6, Finished

\* A login or an upgrade writes the pin it has read, or, if it has changed since, says so.
LEMMA PromoteType ==
    ASSUME TypeOK, LocalsSound, PinnedRoleHolds, NEW r \in Request, Promote(r)
    PROVE  TypeOK' /\ LocalsSound' /\ PinnedRoleHolds' /\ Finish(r)
<1>1. Finish(r) /\ pin' = pin /\ blocked' = blocked /\ trashed' = trashed
      /\ withheld' = withheld
  BY DEF Promote
<1>2. job[r].on \subseteq User /\ job[r].saw \in Role /\ job[r].mark \in Role \cup {Null}
  BY DEF Promote, TypeOK, Job, LocalsSound
<1>3. PICK u \in job[r].on :
          /\ role' = [role EXCEPT ![u] = RoleForEmail(u, job[r].saw, job[r].mark)]
          /\ overtaken' = overtaken \cup IF pin[u] # job[r].mark THEN {u} ELSE {}
          /\ email' = IF job[r].op = "upgrade" THEN [email EXCEPT ![u] = "real"] ELSE email
  BY DEF Promote
<1>4. RoleForEmail(u, job[r].saw, job[r].mark) \in Role
  BY <1>2, RoleForEmailIsRole
<1>5. job[r].mark # Null => RoleForEmail(u, job[r].saw, job[r].mark) = job[r].mark
  BY <1>2, RoleForEmailIsRole
<1>6. TypeOK'
  BY <1>1, <1>2, <1>3, <1>4, Finished DEF TypeOK
<1>7. PinnedRoleHolds'
  BY <1>1, <1>2, <1>3, <1>5 DEF TypeOK, PinnedRoleHolds
<1> QED BY <1>1, <1>6, <1>7, Finished

\* A restart promotes unpinned rows only and ends every request.
LEMMA RestartType ==
    ASSUME TypeOK, LocalsSound, PinnedRoleHolds, NEW l \in Listings, NEW both \in BOOLEAN,
           Restart(l, both)
    PROVE  TypeOK' /\ LocalsSound' /\ PinnedRoleHolds'
<1>1. /\ role' \in [User -> Role]
      /\ \A u \in User : pin[u] # Null => role'[u] = role[u]
  BY DEF Restart, Unpinned, TypeOK
<1>2. /\ at' \in [Request -> {"idle", "done"}] /\ job' = job /\ pin' = pin /\ overtaken' = overtaken
      /\ admitted' \subseteq Request
  BY DEF Restart, Watch, Pending, TypeOK
<1>3. TypeOK'
  BY <1>1, <1>2 DEF Restart, TypeOK
<1>4. LocalsSound'
  BY <1>2 DEF LocalsSound
<1>5. PinnedRoleHolds'
  BY <1>1, <1>2 DEF PinnedRoleHolds
<1> QED BY <1>3, <1>4, <1>5

-----------------------------------------------------------------------------
\* Rights

\* A write tells who lost the right to a pending operation.
LEMMA WatchKeeps ==
    ASSUME RevokedOnlyAdmitted, Watch, job' = job,
           \A q \in Request : at'[q] = at[q] \/ at'[q] \in {"idle", "done"}
    PROVE  RevokedOnlyAdmitted'
<1> SUFFICES ASSUME NEW q \in Pending' PROVE Entitled(q)' \/ q \in admitted'
  BY DEF RevokedOnlyAdmitted
<1>1. q \in Pending /\ at'[q] = at[q]
  BY DEF Pending, Passed
<1>2. CASE q \in admitted
  BY <1>2 DEF Watch
<1>3. CASE q \notin admitted
  <2>1. Entitled(q)
    BY <1>1, <1>3 DEF RevokedOnlyAdmitted
  <2> QED BY <1>1, <2>1 DEF Watch
<1> QED BY <1>2, <1>3

\* A request enters: requireAdmin has just seen an administrator who is not blocked.
LEMMA EnterRights ==
    ASSUME TypeOK, RevokedOnlyAdmitted, NEW r \in Request,
           \/ \E a \in Actor, o \in PanelOps : \E on \in Targets(o), w \in Wants(o) :
                 Admit(r, a, o, on, w)
           \/ \E t \in User, o \in {"block", "unblock"} : Command(r, o, t)
           \/ \E u \in User, o \in OwnOps : Enter(r, u, o)
    PROVE  RevokedOnlyAdmitted'
<1>1. /\ role' = role /\ blocked' = blocked /\ withheld' = withheld /\ admitted' = admitted
      /\ \A q \in Request \ {r} : at'[q] = at[q] /\ job'[q] = job[q]
  <2>1. /\ role' = role /\ blocked' = blocked /\ withheld' = withheld /\ admitted' = admitted
        /\ \E J : job' = [job EXCEPT ![r] = J]
        /\ \E s : at' = [at EXCEPT ![r] = s]
    BY DEF Admit, Command, Enter, Goto, account, history
  <2> QED BY <2>1 DEF TypeOK
<1>2. r \in Pending' => Entitled(r)'
  <2>1. ASSUME NEW a \in Actor, NEW o \in PanelOps, NEW on \in Targets(o), NEW w \in Wants(o),
               Admit(r, a, o, on, w)
        PROVE  r \in Pending' => Entitled(r)'
    <3>1. /\ at'[r] = "permit" /\ job'[r].op = o /\ job'[r].by = a
          /\ job'[r].as = IF a = Master THEN Master ELSE role[a]
      BY <2>1 DEF Admit, Goto, TypeOK, NoJob
    <3>2. a \in User => IsAdmin(a)
      BY <2>1 DEF Admit
    <3> QED BY <1>1, <3>1, <3>2 DEF Pending, Passed, Entitled, MayManage, IsAdmin
  <2>2. ASSUME NEW t \in User, NEW o \in {"block", "unblock"}, Command(r, o, t)
        PROVE  r \notin Pending'
    <3>1. job'[r].by = Null
      BY <2>2 DEF Command, TypeOK, NoJob
    <3> QED BY <3>1 DEF Pending
  <2>3. ASSUME NEW u \in User, NEW o \in OwnOps, Enter(r, u, o)
        PROVE  r \notin Pending'
    <3>1. job'[r].op = o
      BY <2>3 DEF Enter, TypeOK, NoJob
    <3> QED BY <3>1 DEF Pending, PanelOps, TopOps, SingleOps, BulkOps, OwnOps
  <2> QED BY <2>1, <2>2, <2>3
<1>3. ASSUME NEW q \in Pending', q # r
      PROVE  Entitled(q)' \/ q \in admitted'
  <2>1. q \in Pending
    BY <1>1, <1>3 DEF Pending, Passed
  <2>2. Entitled(q) \/ q \in admitted
    BY <2>1 DEF RevokedOnlyAdmitted
  <2> QED BY <1>1, <1>3, <2>1, <2>2 DEF Entitled, MaySuper, MayManage, IsAdmin, Pending
<1> QED BY <1>2, <1>3 DEF RevokedOnlyAdmitted

\* The checks read the right again, except for the snapshot that Passed admits; the reads of
\* the target change neither the operation nor its actor.
LEMMA CheckRights ==
    ASSUME TypeOK, LocalsSound, RevokedOnlyAdmitted, NEW r \in Request,
           \/ Permit(r) \/ ReadGrants(r) \/ PermitTop(r) \/ ReadTarget(r)
           \/ ReadBulk(r) \/ Fail(r)
    PROVE  RevokedOnlyAdmitted'
<1>1. /\ role' = role /\ blocked' = blocked /\ withheld' = withheld /\ admitted' = admitted
  BY DEF Permit, ReadGrants, PermitTop, ReadTarget, ReadBulk, Fail, account, history
<1>2. \A q \in Request : job'[q].op = job[q].op /\ job'[q].by = job[q].by /\ job'[q].as = job[q].as
  <2>1. CASE Permit(r) \/ ReadGrants(r) \/ PermitTop(r) \/ Fail(r)
    BY <2>1 DEF Permit, ReadGrants, PermitTop, Fail
  <2>2. CASE ReadTarget(r)
    <3>1. PICK t : job' = [job EXCEPT ![r].saw = role[t], ![r].mark = pin[t]]
      BY <2>2 DEF ReadTarget
    <3> QED BY <3>1 DEF TypeOK, Job
  <2>3. CASE ReadBulk(r)
    BY <2>3 DEF ReadBulk, TypeOK, Job
  <2> QED BY <2>1, <2>2, <2>3
<1>3. \A q \in Request \ {r} : at'[q] = at[q]
  <2>1. at \in [Request -> {"idle", "permit", "grants", "read", "write", "done"}]
    BY DEF TypeOK
  <2>2. \E next : at' = [at EXCEPT ![r] = next]
    BY DEF Permit, ReadGrants, PermitTop, ReadTarget, ReadBulk, Fail, Goto
  <2> QED BY <2>1, <2>2
<1>4. r \in Pending' => Entitled(r)' \/ r \in admitted
  <2> SUFFICES ASSUME r \in Pending' PROVE Entitled(r)' \/ r \in admitted
    OBVIOUS
  <2>1. job[r].op \in PanelOps /\ job[r].by \in User /\ at'[r] # "done"
    BY <1>2 DEF Pending, Passed
  <2>2. CASE Permit(r) /\ job[r].as # "SUPER_ADMIN"
    <3>1. StillAdmin(job[r]) /\ at'[r] = "grants" /\ job[r].op \notin TopOps
      BY <2>1, <2>2 DEF Permit, Goto, TypeOK, LocalsSound
    <3> QED BY <1>1, <1>2, <2>1, <3>1 DEF StillAdmin, Entitled, IsAdmin, Admins
  <2>3. CASE PermitTop(r)
    <3>1. job[r].op \in TopOps /\ MaySuper(job[r].by)
      BY <2>1, <2>3 DEF PermitTop, Goto, TypeOK, LocalsSound
    <3> QED BY <1>1, <1>2, <2>1, <3>1 DEF Entitled, MaySuper
  <2>4. CASE ReadGrants(r)
    <3>1. at[r] = "grants" /\ job[r].by \notin withheld
      BY <2>1, <2>4 DEF ReadGrants, Goto, TypeOK
    <3>2. Entitled(r) \/ r \in admitted
      BY <2>1, <3>1 DEF RevokedOnlyAdmitted, Pending, Passed
    <3> QED BY <1>1, <1>2, <2>1, <3>1, <3>2 DEF Entitled, MaySuper, MayManage, IsAdmin
  <2>5. CASE ReadTarget(r) \/ ReadBulk(r) \/ Fail(r) \/ (Permit(r) /\ job[r].as = "SUPER_ADMIN")
    <3>1. Passed(r) /\ at[r] # "grants" /\ at'[r] # "grants"
      <4>1. CASE Permit(r) /\ job[r].as = "SUPER_ADMIN"
        <5>1. at[r] = "permit" /\ job[r].op \notin TopOps /\ at' = [at EXCEPT ![r] = Onward(job[r])]
          BY <4>1 DEF Permit, Goto, StillAdmin
        <5> QED BY <4>1, <5>1 DEF Onward, Passed, TypeOK
      <4>2. CASE ReadTarget(r) \/ ReadBulk(r) \/ Fail(r)
        BY <2>1, <4>2 DEF ReadTarget, ReadBulk, Fail, Goto, Passed, TypeOK
      <4> QED BY <2>5, <4>1, <4>2
    <3>2. Entitled(r) \/ r \in admitted
      BY <2>1, <3>1 DEF RevokedOnlyAdmitted, Pending
    <3> QED BY <1>1, <1>2, <3>1, <3>2 DEF Entitled, MaySuper, MayManage, IsAdmin
  <2> QED BY <2>2, <2>3, <2>4, <2>5
<1>5. ASSUME NEW q \in Pending', q # r
      PROVE  Entitled(q)' \/ q \in admitted'
  <2>1. q \in Pending
    BY <1>2, <1>3, <1>5 DEF Pending, Passed
  <2>2. Entitled(q) \/ q \in admitted
    BY <2>1 DEF RevokedOnlyAdmitted
  <2> QED BY <1>1, <1>2, <1>3, <1>5, <2>2 DEF Entitled, MaySuper, MayManage, IsAdmin, Pending
<1> QED BY <1>1, <1>4, <1>5 DEF RevokedOnlyAdmitted

-----------------------------------------------------------------------------
\* The theorems

LEMMA StepHolds == IInv /\ [Next]_vars => IInv'
<1> SUFFICES ASSUME IInv, [Next]_vars PROVE IInv'
  OBVIOUS
<1> USE DEF IInv, RolesHold
<1>1. ASSUME NEW r \in Request,
             \/ \E a \in Actor, o \in PanelOps : \E on \in Targets(o), w \in Wants(o) :
                   Admit(r, a, o, on, w)
             \/ \E t \in User, o \in {"block", "unblock"} : Command(r, o, t)
             \/ \E u \in User, o \in OwnOps : Enter(r, u, o)
      PROVE  IInv'
  <2>1. role' = role /\ pin' = pin /\ overtaken' = overtaken
    BY <1>1 DEF Admit, Command, Enter, account, history
  <2>2. PinnedRoleHolds'
    BY <2>1 DEF PinnedRoleHolds
  <2> QED BY <1>1, <2>2, EnterType, EnterRights
<1>2. ASSUME NEW r \in Request,
             \/ Permit(r) \/ ReadGrants(r) \/ PermitTop(r) \/ ReadTarget(r)
             \/ ReadBulk(r) \/ Fail(r)
      PROVE  IInv'
  <2>1. role' = role /\ pin' = pin /\ overtaken' = overtaken
    BY <1>2 DEF Permit, ReadGrants, PermitTop, ReadTarget, ReadBulk, Fail, account, history
  <2>2. PinnedRoleHolds'
    BY <2>1 DEF PinnedRoleHolds
  <2> QED BY <1>2, <2>2, CheckType, CheckRights
<1>3. ASSUME NEW r \in Request,
             \/ SetPermissions(r) \/ Block(r) \/ Unblock(r) \/ Trash(r) \/ Restore(r)
             \/ DemoteSuper(r) \/ SetRole(r) \/ MakeAdmin(r) \/ Erase(r) \/ Promote(r)
      PROVE  IInv'
  <2>1. TypeOK' /\ LocalsSound' /\ PinnedRoleHolds' /\ Finish(r)
    BY <1>3, MarkType, PinType, PromoteType
  <2>2. Watch /\ job' = job /\ \A q \in Request : at'[q] = at[q] \/ at'[q] \in {"idle", "done"}
    BY <2>1 DEF Finish, Goto, TypeOK
  <2> QED BY <2>1, <2>2, WatchKeeps
<1>4. ASSUME NEW l \in Listings, NEW both \in BOOLEAN, Restart(l, both)
      PROVE  IInv'
  <2>1. Watch /\ job' = job /\ \A q \in Request : at'[q] = at[q] \/ at'[q] \in {"idle", "done"}
    BY <1>4 DEF Restart
  <2> QED BY <1>4, <2>1, RestartType, WatchKeeps
<1>5. CASE UNCHANGED vars
  <2>1. TypeOK' /\ LocalsSound' /\ PinnedRoleHolds'
    BY <1>5 DEF vars, account, history, TypeOK, LocalsSound, PinnedRoleHolds
  <2>2. RevokedOnlyAdmitted'
    BY <1>5 DEF vars, account, history, RevokedOnlyAdmitted, Pending, Passed, Entitled, MaySuper,
       MayManage, IsAdmin
  <2> QED BY <2>1, <2>2
<1> QED BY <1>1, <1>2, <1>3, <1>4, <1>5 DEF Next, Handle

\* In every reachable state the strengthened invariant of roles, pins and rights holds.
THEOREM Inductive == Spec => []IInv
BY InitHolds, StepHolds, PTL DEF Spec

\* The state is well typed, a role set in the panel is overwritten only by a login or upgrade
\* that had read the row before, and no operation takes effect for somebody who had lost the
\* right to it before its last check, for any number of accounts, requests and restarts.
THEOREM RolesAndRightsHold == Spec => []RolesHold
<1>1. IInv => RolesHold
  BY DEF IInv
<1> QED BY <1>1, Inductive, PTL

\* The last super administrator is lost only by his own erasure, a write decided on an older
\* role, a login that meets a role and a pin driven apart, or a restart: for any number of
\* concurrent demotions (PATCH /users/:id/role).
THEOREM ASuperAdminRemains == Spec => SuperAdminRemains
<1> DEFINE Kept == \/ Supers' # {}
                   \/ \E r \in Request : Outdated(r) \/ Realigned(r) \/ (Wrote(r) /\ job[r].op = "erase")
                   \/ restarts' # restarts
<1>1. ASSUME IInv, [Next]_vars, Supers # {} PROVE Kept
  <2> USE <1>1 DEF IInv, RolesHold
  <2> HIDE DEF Kept
  <2>1. CASE role' = role
    BY <2>1 DEF Supers, Kept
  <2>2. ASSUME NEW r \in Request, DemoteSuper(r), role' # role
        PROVE  Kept
    <3>1. PICK t \in User : Others(t) # {} /\ Pin(t, job[r].want)
      BY <2>2 DEF DemoteSuper, TypeOK, Job
    <3>2. PICK v \in User : v # t /\ role[v] = "SUPER_ADMIN"
      BY <3>1 DEF Others, Supers
    <3>3. v \in Supers'
      BY <3>1, <3>2 DEF Pin, Supers, TypeOK
    <3> QED BY <3>3 DEF Kept
  <2>3. ASSUME NEW r \in Request, SetRole(r) \/ MakeAdmin(r)
        PROVE  Kept
    <3>1. PICK t \in User, x \in Role : Pin(t, x) /\ t \in job[r].on
                                   /\ (job[r].saw = "SUPER_ADMIN" => x = "SUPER_ADMIN")
      BY <2>3 DEF SetRole, MakeAdmin, Demotes, TypeOK, Job, LocalsSound
    <3>2. at[r] = "write" /\ at'[r] = "done"
      BY <2>3 DEF SetRole, MakeAdmin, Finish, Goto, TypeOK
    <3>3. CASE role[t] # job[r].saw
      BY <3>1, <3>2, <3>3 DEF Outdated, Wrote, Kept
    <3>4. CASE x = "SUPER_ADMIN"
      <4>1. t \in Supers'
        BY <3>1, <3>4 DEF Pin, Supers, TypeOK
      <4> QED BY <4>1 DEF Kept
    <3>5. CASE role[t] # "SUPER_ADMIN"
      <4>1. Supers \subseteq Supers'
        BY <3>1, <3>5 DEF Pin, Supers, TypeOK
      <4> QED BY <4>1 DEF Kept
    <3> QED BY <3>1, <3>3, <3>4, <3>5
  <2>4. ASSUME NEW r \in Request, Promote(r)
        PROVE  Kept
    <3> DEFINE new(u) == RoleForEmail(u, job[r].saw, job[r].mark)
    <3>1. PICK u \in User :
             /\ u \in job[r].on /\ role' = [role EXCEPT ![u] = new(u)]
             /\ overtaken' = overtaken \cup IF pin[u] # job[r].mark THEN {u} ELSE {}
      BY <2>4 DEF Promote, TypeOK, Job
    <3>2. /\ at[r] = "write" /\ at'[r] = "done" /\ job[r].op \in {"login", "upgrade"}
          /\ job[r].saw \in Role /\ job[r].mark \in Role \cup {Null}
      BY <2>4 DEF Promote, Finish, Goto, TypeOK, Job, LocalsSound
    <3>3. CASE role[u] # job[r].saw
      BY <3>1, <3>2, <3>3 DEF Outdated, Wrote, Kept
    <3>4. CASE u \in overtaken \cup overtaken'
      BY <3>1, <3>2, <3>4 DEF Realigned, Wrote, Kept
    <3>5. CASE role[u] # "SUPER_ADMIN"
      <4>1. Supers \subseteq Supers'
        BY <3>1, <3>5 DEF Supers, TypeOK
      <4> QED BY <4>1 DEF Kept
    <3>6. CASE role[u] = job[r].saw /\ u \notin overtaken \cup overtaken' /\ role[u] = "SUPER_ADMIN"
      <4>1. pin[u] = job[r].mark /\ (pin[u] # Null => role[u] = pin[u])
        BY <3>1, <3>6 DEF PinnedRoleHolds
      <4>2. new(u) = "SUPER_ADMIN"
        BY <3>2, <3>6, <4>1, RoleForEmailIsRole
      <4>3. u \in Supers'
        BY <3>1, <4>2 DEF Supers, TypeOK
      <4> QED BY <4>3 DEF Kept
    <3> QED BY <3>3, <3>4, <3>5, <3>6
  <2>5. ASSUME NEW r \in Request, Erase(r)
        PROVE  Kept
    BY <2>5 DEF Erase, Finish, Goto, TypeOK, Wrote, Kept
  <2>6. ASSUME NEW l \in Listings, NEW both \in BOOLEAN, Restart(l, both)
        PROVE  Kept
    BY <2>6 DEF Restart, TypeOK, Kept
  <2>7. ASSUME NEW r \in Request,
               \/ \E a \in Actor, o \in PanelOps : \E on \in Targets(o), w \in Wants(o) :
                     Admit(r, a, o, on, w)
               \/ \E t \in User, o \in {"block", "unblock"} : Command(r, o, t)
               \/ \E u \in User, o \in OwnOps : Enter(r, u, o)
               \/ Permit(r) \/ ReadGrants(r) \/ PermitTop(r) \/ ReadTarget(r) \/ ReadBulk(r)
               \/ SetPermissions(r) \/ Block(r) \/ Unblock(r) \/ Trash(r) \/ Restore(r) \/ Fail(r)
        PROVE  Kept
    <3>1. role' = role
      BY <2>7 DEF Admit, Command, Enter, Permit, ReadGrants, PermitTop, ReadTarget, ReadBulk,
                  SetPermissions, Block, Unblock, Trash, Restore, Fail, account
    <3> QED BY <2>1, <3>1
  <2>8. CASE UNCHANGED vars
    BY <2>1, <2>8 DEF vars, account
  <2>9. ASSUME NEW r \in Request, Handle(r) \/ Fail(r)
        PROVE  Kept
    BY <2>1, <2>2, <2>3, <2>4, <2>5, <2>7, <2>9 DEF Handle
  <2> QED BY <2>6, <2>7, <2>8, <2>9 DEF Next
<1>2. IInv /\ [Next]_vars => [Supers # {} => Kept]_vars
  BY <1>1
<1> QED BY <1>2, Inductive, PTL DEF Spec, SuperAdminRemains

=============================================================================
