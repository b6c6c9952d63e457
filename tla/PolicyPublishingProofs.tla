----------------------- MODULE PolicyPublishingProofs -----------------------
(* Theorems about PolicyPublishing, for any rows, requests, accounts, texts and faults. *)
EXTENDS PolicyPublishing, FiniteSetTheorems, WellFoundedInduction, TLAPS

USE TextAssumption, PolicyNullsAssumption, PolicyFaultsAssumption DEF TemplateVersion

-----------------------------------------------------------------------------
\* Version numbers

\* A set of natural numbers has a least one.
LEMMA LeastNat ==
    ASSUME NEW S \in SUBSET Nat, S # {}
    PROVE  \E m \in S : \A n \in S : m <= n
<1> DEFINE Less == {ss \in Nat \X Nat : ss[1] < ss[2]}
<1>1. IsWellFoundedOn(Less, Nat)
  BY NatLessThanWellFounded, Zenon DEF OpToRel
<1>2. \A m, n \in Nat : n < m => <<n, m>> \in Less
  BY SMT
<1>3. PICK m \in S : \A n \in S : <<n, m>> \notin Less
  <2> HIDE DEF Less
  <2> QED BY <1>1, WFMin, Zenon
<1>4. \A n \in S : ~(n < m)
  BY <1>2, <1>3
<1> QED BY <1>4

\* nextFreeVersion finds a version: the interval it searches is longer than the list of the
\* versions taken.  It is above the published one, free, and the first such.
LEMMA NextFreeIsFree ==
    ASSUME NEW p \in Nat, NEW taken \in SUBSET Nat, IsFiniteSet(taken)
    PROVE  /\ NextFree(p, taken) \in Nat /\ NextFree(p, taken) > p
           /\ NextFree(p, taken) \notin taken
           /\ p + 1 .. NextFree(p, taken) - 1 \subseteq taken
<1> DEFINE range == p + 1 .. p + 1 + Cardinality(taken)
           free == {v \in range : v \notin taken}
           ok(v) == v \notin taken /\ p + 1 .. v - 1 \subseteq taken
<1>1. Cardinality(taken) \in Nat
  BY FS_CardinalityType
<1>2. Cardinality(range) = Cardinality(taken) + 1 /\ IsFiniteSet(range)
  <2>1. \A a, b \in Int : a <= b => IsFiniteSet(a .. b) /\ Cardinality(a .. b) = b - a + 1
    BY FS_Interval
  <2> DEFINE low == p + 1
             high == p + 1 + Cardinality(taken)
  <2>3. low \in Int /\ high \in Int /\ low <= high /\ high - low + 1 = Cardinality(taken) + 1
    BY <1>1
  <2> HIDE DEF low, high
  <2>4. IsFiniteSet(low .. high) /\ Cardinality(low .. high) = high - low + 1
    BY <2>1, <2>3
  <2> QED BY <2>3, <2>4 DEF low, high
<1>3. ~(range \subseteq taken)
  <2> SUFFICES ASSUME range \in SUBSET taken PROVE FALSE
    OBVIOUS
  <2>1. Cardinality(range) <= Cardinality(taken)
    BY FS_Subset
  <2> QED BY <1>1, <1>2, <2>1
<1>4. free # {} /\ free \subseteq Nat
  BY <1>1, <1>3
<1>5. PICK m \in free : \A n \in free : m <= n
  BY <1>4, LeastNat
<1>6. m \in range /\ ok(m)
  <2>1. m \in range /\ m \notin taken
    OBVIOUS
  <2>2. ASSUME NEW n \in p + 1 .. m - 1 PROVE n \in taken
    BY <1>1, <1>5, <2>1
  <2> QED BY <2>1, <2>2
<1>7. NextFree(p, taken) \in range /\ ok(NextFree(p, taken))
  <2>1. NextFree(p, taken) = CHOOSE v \in range : ok(v)
    BY DEF NextFree
  <2> HIDE DEF range, ok
  <2> QED BY <1>6, <2>1
<1> QED BY <1>1, <1>7

\* The versions of finitely many rows are finitely many.
LEMMA VersionsFinite ==
    ASSUME NEW docs, IsFiniteSet(docs)
    PROVE  IsFiniteSet(Versions(docs))
<1> DEFINE f == [d \in docs |-> version[d]]
<1>1. f \in Surjection(docs, Versions(docs))
  BY DEF Surjection, Versions
<1> QED BY <1>1, FS_Surjection
-----------------------------------------------------------------------------
\* The inductive invariant

\* Versions, publication times and consents refer to what has been published.
Numbers ==
    /\ IsFiniteSet(Rows) /\ \A r \in Request : IsFiniteSet(used[r])
    /\ Published >= TemplateVersion
    /\ \A r \in Request :
          /\ pc[r] = "create" => draftOf[r].version >= TemplateVersion
          /\ pc[r] = "commit" => stamp[r] > 0
          /\ stamp[r] <= clock
    /\ \A d \in Doc : issued[d] <= clock /\ (issued[d] > 0 => state[d] # "unused")

\* A version that is about to be recorded was the published one when it was checked.
Offers ==
    /\ {TemplateVersion, Published} \subseteq ever
    /\ \A u \in User : offer[u] \in ever \cup {NoVersion}

\* No handler runs while the server starts.
StartsAlone == boot # "up" => \A r \in Request : pc[r] \in {"idle", "done"}

Drafting == {"base", "used", "number", "create"}

\* Without the overlap there is one draft, or one request that will create it.
OneDrafter ==
    "drafts" \notin races =>
        /\ \A d, e \in Drafts : d = e
        /\ \A r, s \in Request : pc[r] \in Drafting /\ pc[s] \in Drafting => r = s
        /\ \A r \in Request : pc[r] \in Drafting => Drafts = {}

\* The approved document with the latest publication, alone at its tick, has the version
\* that users must accept.
Latest ==
    \E d \in Approved : version[d] = Published /\ \A e \in Approved \ {d} : issued[e] < issued[d]

\* Without the marked overlaps and failures one approval at a time is about to commit, with
\* the latest time; and startup finds a site that it has never run on, or one in order.
InOrder ==
    races \subseteq {"drafts"} =>
        /\ \A r, s \in Request : pc[r] = "commit" /\ pc[s] = "commit" => r = s
        /\ \A r \in Request : pc[r] = "commit" => \A d \in Doc : issued[d] < stamp[r]
        /\ boot = "label" => \E d \in Approved : Approved = {d} /\ version[d] = TemplateVersion
        /\ boot = "baseline" /\ Approved = {} => Rows = {}
        /\ boot = "baseline" /\ Approved # {} => Latest
        /\ boot \in {"drafts", "up"} => Latest

IInv ==
    /\ TypeOK /\ SettingNamesAPublication /\ ConsentWasPublished
    /\ Numbers /\ Offers /\ StartsAlone /\ OneDrafter /\ InOrder

-----------------------------------------------------------------------------
\* Versions that are read

\* Whatever a request or startup reads as the published version, the number it gives a new
\* row is a later one.
LEMMA VersionsRead ==
    ASSUME TypeOK, Numbers
    PROVE  /\ Versions(Rows) \in SUBSET Nat /\ IsFiniteSet(Versions(Rows))
           /\ \A v \in Readable : v \in Nat /\ v >= TemplateVersion
           /\ \A v \in Readable : /\ NextFree(v, Versions(Rows)) \in Nat
                                 /\ NextFree(v, Versions(Rows)) >= TemplateVersion
           /\ \A v \in Readable, r \in Request : /\ NextFree(v, used[r]) \in Nat
                                                /\ NextFree(v, used[r]) >= TemplateVersion
<1>1. Versions(Rows) \in SUBSET Nat /\ IsFiniteSet(Versions(Rows))
  <2>1. IsFiniteSet(Rows)
    BY DEF Numbers
  <2>2. Versions(Rows) \in SUBSET Nat
    BY DEF Versions, Rows, TypeOK
  <2> QED BY <2>1, <2>2, VersionsFinite
<1>2. \A v \in Readable : v \in Nat /\ v >= TemplateVersion
  BY DEF Readable, Published, Numbers, TypeOK
<1>3. ASSUME NEW v \in Readable, NEW taken \in SUBSET Nat, IsFiniteSet(taken)
      PROVE  NextFree(v, taken) \in Nat /\ NextFree(v, taken) >= TemplateVersion
  BY <1>2, <1>3, NextFreeIsFree
<1>4. \A r \in Request : used[r] \in SUBSET Nat /\ IsFiniteSet(used[r])
  BY DEF TypeOK, Numbers
<1> QED BY <1>1, <1>2, <1>3, <1>4

\* A failed read counts as a fault.
LEMMA Faults == ASSUME TypeOK, NEW v, ReadVersion(v) PROVE faults' \in Nat
BY DEF ReadVersion, Fault, TypeOK

-----------------------------------------------------------------------------
\* Types

LEMMA InitHolds == Init => IInv
<1> SUFFICES ASSUME Init PROVE IInv
  OBVIOUS
<1>1. TypeOK
  BY DEF Init, TypeOK, Label, Blank
<1>2. Rows = {} /\ Drafts = {} /\ Approved = {} /\ Published = TemplateVersion
  BY DEF Init, Rows, Drafts, Approved, Published
<1>4. Numbers
  BY <1>2, FS_EmptySet DEF Init, Numbers
<1>5. SettingNamesAPublication /\ ConsentWasPublished /\ Offers /\ StartsAlone /\ OneDrafter /\ InOrder
  BY <1>2 DEF Init, SettingNamesAPublication, ConsentWasPublished, Offers, StartsAlone, OneDrafter,
     InOrder, Drafting
<1> QED BY <1>1, <1>4, <1>5 DEF IInv

LEMMA BootType == ASSUME TypeOK, Numbers, Boot PROVE TypeOK'
<1>1. CASE BaselineThere \/ LabelBaseline \/ NoDraftDue \/ BootFails
  <2>1. CASE BaselineThere
    BY <2>1 DEF BaselineThere, TypeOK, row, local
  <2>2. CASE LabelBaseline
    BY <2>2 DEF LabelBaseline, TypeOK, row, local
  <2>3. CASE NoDraftDue
    BY <2>3 DEF NoDraftDue, TypeOK, row, local
  <2>4. CASE BootFails
    BY <2>4 DEF BootFails, Fault, Mark, TypeOK, row, local
  <2> QED BY <1>1, <2>1, <2>2, <2>3, <2>4
<1>2. ASSUME NEW d \in Doc, PublishBaseline(d)
      PROVE  TypeOK'
  <2>1. PICK n \in Nat : n >= TemplateVersion /\ version' = [version EXCEPT ![d] = n]
    BY <1>2, VersionsRead DEF PublishBaseline
  <2>2. faults' \in Nat
    BY <1>2, Faults DEF PublishBaseline, TypeOK
  <2> QED BY <1>2, <2>1, <2>2 DEF PublishBaseline, TypeOK, local
<1>3. ASSUME NEW d \in Doc, SeedDraft(d)
      PROVE  TypeOK'
  <2>1. PICK n \in Nat : n >= TemplateVersion /\ version' = [version EXCEPT ![d] = n]
    BY <1>3, VersionsRead DEF SeedDraft
  <2>2. faults' \in Nat
    BY <1>3, Faults DEF SeedDraft
  <2> QED BY <1>3, <2>1, <2>2 DEF SeedDraft, TypeOK, local
<1> QED BY <1>1, <1>2, <1>3 DEF Boot

\* A request moves from label to label.
LEMMA MovesType ==
    ASSUME TypeOK, NEW r \in Request, NEW from, NEW to \in Label, Moves(r, from, to)
    PROVE  pc' \in [Request -> Label]
BY DEF Moves, TypeOK

LEMMA DraftType ==
    ASSUME TypeOK, Numbers, NEW r \in Request,
           \/ CheckNoDraft(r) \/ ReadBase(r) \/ ReadTaken(r) \/ ReadPublished(r)
           \/ \E d \in Doc : Create(r, d)
    PROVE  TypeOK'
<1> USE DEF Label
<1>1. CASE CheckNoDraft(r)
  BY <1>1, MovesType DEF CheckNoDraft, Started, TypeOK, Mark, row
<1>2. CASE ReadBase(r)
  <2>1. Served # NoDoc => Served \in Doc
    BY DEF Served, Approved
  <2> QED BY <1>2, <2>1, MovesType DEF ReadBase, TypeOK, row
<1>3. CASE ReadTaken(r)
  BY <1>3, MovesType, VersionsRead DEF ReadTaken, TypeOK, row
<1>4. CASE ReadPublished(r)
  <2>1. PICK n \in Nat : draftOf' = [draftOf EXCEPT ![r].version = n]
    BY <1>4, VersionsRead DEF ReadPublished
  <2>2. faults' \in Nat
    BY <1>4, Faults DEF ReadPublished
  <2>3. draftOf' \in [Request -> [text : Text, version : Nat]]
    BY <2>1 DEF TypeOK
  <2>4. pc' \in [Request -> Label]
    BY <1>4, MovesType DEF ReadPublished
  <2> QED BY <1>4, <2>2, <2>3, <2>4 DEF ReadPublished, TypeOK, row
<1>5. ASSUME NEW d \in Doc, Create(r, d)
      PROVE  TypeOK'
  <2>1. draftOf' \in [Request -> [text : Text, version : Nat]]
    BY <1>5 DEF Create, TypeOK, Blank
  <2>2. draftOf[r].text \in Text /\ draftOf[r].version \in Nat
        /\ draftOf[r].version >= TemplateVersion
    BY <1>5 DEF TypeOK, Numbers, Create, Moves
  <2>3. CASE draftOf[r].version \in Versions(Rows)
    BY <1>5, <2>1, <2>3, MovesType DEF Create, TypeOK, row
  <2>4. CASE draftOf[r].version \notin Versions(Rows)
    <3>1. /\ state' = [state EXCEPT ![d] = "draft"]
          /\ version' = [version EXCEPT ![d] = draftOf[r].version]
          /\ text' = [text EXCEPT ![d] = draftOf[r].text]
          /\ UNCHANGED <<issued, awaiting, setting, accepted, boot, clock, at, used, stamp, offer,
                         ever, races, faults>>
          /\ Moves(r, "create", "done")
      BY <1>5, <2>4 DEF Create
    <3>2. /\ state' \in [Doc -> {"unused", "draft", "approved", "deleted"}]
          /\ version' \in [Doc -> Nat] /\ text' \in [Doc -> Text]
          /\ \A e \in Doc : state'[e] # "unused" => version'[e] >= TemplateVersion
      BY <2>2, <3>1 DEF TypeOK
    <3>3. pc' \in [Request -> Label]
      BY <3>1, MovesType
    <3> QED BY <2>1, <3>1, <3>2, <3>3 DEF TypeOK
  <2> QED BY <2>3, <2>4
<1> QED BY <1>1, <1>2, <1>3, <1>4, <1>5

LEMMA WriteType ==
    ASSUME TypeOK, NEW r \in Request,
           \/ WriteEdit(r) \/ WriteDelete(r) \/ WriteAwait(r) \/ WriteReason(r)
           \/ ReadForApproval(r) \/ Publish(r) \/ RowGone(r) \/ Throws(r)
           \/ \E d \in Doc : ReadDraft(r, d)
    PROVE  TypeOK'
<1> USE DEF Label
<1>1. ASSUME There(r)
      PROVE  at[r] \in Doc /\ state[at[r]] # "unused" /\ version[at[r]] \in Nat
  BY <1>1 DEF There, Rows, TypeOK
<1>2. CASE WriteEdit(r)
  BY <1>1, <1>2, MovesType DEF WriteEdit, HistoryTouched, TypeOK, Mark
<1>3. CASE WriteDelete(r)
  BY <1>1, <1>3, MovesType DEF WriteDelete, HistoryTouched, TypeOK, Mark
<1>4. CASE WriteAwait(r)
  BY <1>1, <1>4, MovesType DEF WriteAwait, TypeOK
<1>5. CASE WriteReason(r)
  BY <1>1, <1>5, MovesType DEF WriteReason, TypeOK
<1>6. CASE ReadForApproval(r)
  BY <1>1, <1>6, MovesType DEF ReadForApproval, TypeOK, Mark, row
<1>7. CASE Publish(r)
  BY <1>1, <1>7, MovesType DEF Publish, Retired, PublicVersion, TypeOK
<1>8. CASE RowGone(r)
  BY <1>8 DEF RowGone, TypeOK, row
<1>9. CASE Throws(r)
  BY <1>9 DEF Throws, Fault, Blank, TypeOK, row
<1>10. ASSUME NEW d \in Doc, ReadDraft(r, d)
       PROVE  TypeOK'
  <2>1. \E to \in Label : Started(r, d, to)
    BY <1>10 DEF ReadDraft, EditDraft, DeleteDraft, PanelApprove, ButtonApprove, ButtonSuggest,
                 ButtonReject, ReplyApprove, ReplyReject
  <2> QED BY <1>10, <2>1, MovesType DEF ReadDraft, Started, TypeOK, row
<1> QED BY <1>2, <1>3, <1>4, <1>5, <1>6, <1>7, <1>8, <1>9, <1>10

LEMMA OtherType ==
    ASSUME TypeOK, Numbers, Crash \/ \E u \in User : Consent(u)
    PROVE  TypeOK'
<1>1. CASE Crash
  BY <1>1 DEF Crash, Fault, Blank, TypeOK, Label, Mark, row
<1>2. ASSUME NEW u \in User, Register(u)
      PROVE  TypeOK'
  BY <1>2, VersionsRead, Faults DEF Register, TypeOK, row, local
<1>3. ASSUME NEW u \in User, AcceptTerms(u)
      PROVE  TypeOK'
  BY <1>3, VersionsRead, Faults DEF AcceptTerms, TypeOK, row, local
<1>4. ASSUME NEW u \in User, RecordConsent(u)
      PROVE  TypeOK'
  BY <1>4 DEF RecordConsent, TypeOK, row, local
<1> QED BY <1>1, <1>2, <1>3, <1>4 DEF Consent

LEMMA TypeHolds == ASSUME TypeOK, Numbers, [Next]_vars PROVE TypeOK'
<1>1. CASE UNCHANGED vars
  BY <1>1 DEF vars, row, local, TypeOK
<1> QED BY <1>1, BootType, DraftType, WriteType, OtherType DEF Next, Handle

-----------------------------------------------------------------------------
\* What a step does to the documents

\* Documents, publication and history stay.
Calm == UNCHANGED <<state, version, issued, setting, ever>>

\* A row is created.
Grow(d, s, n) ==
    /\ state[d] = "unused" /\ s \in {"draft", "approved"} /\ n >= TemplateVersion /\ n \in Nat
    /\ state' = [state EXCEPT ![d] = s] /\ version' = [version EXCEPT ![d] = n]
    /\ UNCHANGED <<setting, ever>>

\* Startup and requests create rows, deletion and publication change one, the second write of
\* startup and a publication set the public version; nothing else touches any of them.
LEMMA Kinds ==
    ASSUME TypeOK, Numbers, [Next]_vars
    PROVE  \/ Calm \/ LabelBaseline
           \/ \E d \in Doc : PublishBaseline(d) \/ SeedDraft(d)
           \/ \E r \in Request, d \in Doc : Create(r, d) /\ Grow(d, "draft", draftOf[r].version)
                                           /\ issued' = issued
           \/ \E r \in Request : WriteDelete(r) \/ Publish(r)
<1>1. CASE UNCHANGED vars
  BY <1>1 DEF vars, row, Calm
<1>2. CASE Crash
  BY <1>2 DEF Crash, row, Calm
<1>3. CASE Boot
  BY <1>3 DEF Boot, BaselineThere, NoDraftDue, BootFails, row, Calm
<1>4. ASSUME NEW u \in User, Consent(u)
      PROVE  Calm
  BY <1>4 DEF Consent, Register, AcceptTerms, RecordConsent, row, Calm
<1>5. ASSUME NEW r \in Request, NEW d \in Doc, Create(r, d)
      PROVE  Calm \/ (Grow(d, "draft", draftOf[r].version) /\ issued' = issued)
  <2>1. draftOf[r].version \in Nat /\ draftOf[r].version >= TemplateVersion
    BY <1>5 DEF TypeOK, Numbers, Create, Moves
  <2> QED BY <1>5, <2>1 DEF Create, row, Calm, Grow
<1>6. ASSUME NEW r \in Request, NEW d \in Doc, ReadDraft(r, d)
      PROVE  Calm
  BY <1>6 DEF ReadDraft, row, Calm
<1>7. ASSUME NEW r \in Request,
             \/ CheckNoDraft(r) \/ ReadBase(r) \/ ReadTaken(r) \/ ReadPublished(r)
             \/ WriteEdit(r) \/ WriteAwait(r) \/ WriteReason(r)
             \/ ReadForApproval(r) \/ RowGone(r) \/ Throws(r)
      PROVE  Calm
  BY <1>7 DEF CheckNoDraft, ReadBase, ReadTaken, ReadPublished, WriteEdit, WriteAwait,
              WriteReason, ReadForApproval, RowGone, Throws, row, Calm
<1> QED BY <1>1, <1>2, <1>3, <1>4, <1>5, <1>6, <1>7 DEF Next, Handle

\* Startup's rows are new rows.
LEMMA BootGrows ==
    ASSUME TypeOK, Numbers, NEW d \in Doc
    PROVE  /\ PublishBaseline(d) => /\ \E n \in Nat : Grow(d, "approved", n)
                                   /\ issued' = [issued EXCEPT ![d] = clock + 1]
           /\ SeedDraft(d) => (\E n \in Nat : Grow(d, "draft", n)) /\ issued' = issued
<1>1. ASSUME PublishBaseline(d)
      PROVE  /\ \E n \in Nat : Grow(d, "approved", n)
             /\ issued' = [issued EXCEPT ![d] = clock + 1]
  <2>1. PICK n \in Nat : n >= TemplateVersion /\ version' = [version EXCEPT ![d] = n]
    BY <1>1, VersionsRead DEF PublishBaseline
  <2> QED BY <1>1, <2>1 DEF PublishBaseline, Grow
<1>2. ASSUME SeedDraft(d)
      PROVE  (\E n \in Nat : Grow(d, "draft", n)) /\ issued' = issued
  <2>1. PICK n \in Nat : n >= TemplateVersion /\ version' = [version EXCEPT ![d] = n]
    BY <1>2, VersionsRead DEF SeedDraft
  <2> QED BY <1>2, <2>1 DEF SeedDraft, Grow
<1> QED BY <1>1, <1>2

\* A published version is the version of a row.
LEMMA PublishedRow ==
    ASSUME TypeOK, NEW r \in Request, Publish(r)
    PROVE  /\ at[r] \in Doc /\ state[at[r]] # "unused" /\ setting' = version[at[r]]
           /\ version[at[r]] >= TemplateVersion /\ version[at[r]] \in Nat
           /\ ever' = ever \cup {setting'} /\ version' = version
           /\ state' = [state EXCEPT ![at[r]] = "approved"]
           /\ issued' = [issued EXCEPT ![at[r]] = stamp[r]] /\ pc[r] = "commit"
BY DEF Publish, There, Rows, Retired, PublicVersion, TypeOK, Moves

-----------------------------------------------------------------------------
\* Numbers

\* There are finitely many rows, and the public version is never below the template's.
LEMMA DocumentsKept ==
    ASSUME TypeOK, Numbers, [Next]_vars
    PROVE  IsFiniteSet(Rows') /\ Published' >= TemplateVersion
<1>1. CASE Calm
  BY <1>1 DEF Calm, Rows, Published, Numbers
<1>2. CASE LabelBaseline
  BY <1>2 DEF LabelBaseline, Rows, Published, Numbers, row
<1>3. ASSUME NEW d \in Doc, NEW s, NEW n, Grow(d, s, n)
      PROVE  IsFiniteSet(Rows') /\ Published' >= TemplateVersion
  <2>1. Rows' = Rows \cup {d}
    BY <1>3 DEF Grow, Rows, TypeOK
  <2> QED BY <1>3, <2>1, FS_AddElement DEF Numbers, Grow, Published
<1>4. ASSUME NEW r \in Request, WriteDelete(r)
      PROVE  IsFiniteSet(Rows') /\ Published' >= TemplateVersion
  <2>1. Rows' \in SUBSET Rows
    BY <1>4 DEF WriteDelete, Rows, TypeOK
  <2> QED BY <1>4, <2>1, FS_Subset DEF Numbers, WriteDelete, Published
<1>5. ASSUME NEW r \in Request, Publish(r)
      PROVE  IsFiniteSet(Rows') /\ Published' >= TemplateVersion
  <2>1. Rows' = Rows \cup {at[r]}
    BY <1>5, PublishedRow DEF Rows, TypeOK
  <2>2. IsFiniteSet(Rows')
    BY <2>1, FS_AddElement DEF Numbers
  <2> QED BY <1>5, <2>2, PublishedRow DEF Numbers, Published
<1> QED BY <1>1, <1>2, <1>3, <1>4, <1>5, Kinds, BootGrows

\* new Date() never runs backwards.
LEMMA ClockRuns == ASSUME TypeOK, [Next]_vars PROVE clock' >= clock
<1>1. clock' \in {clock, clock + 1}
  <2>1. CASE Boot \/ Crash \/ UNCHANGED vars
    BY <2>1 DEF Boot, BaselineThere, LabelBaseline, NoDraftDue, BootFails, PublishBaseline,
       SeedDraft, Crash, vars
  <2>2. ASSUME NEW u \in User, Consent(u)
        PROVE  clock' = clock
    BY <2>2 DEF Consent, Register, AcceptTerms, RecordConsent
  <2>3. ASSUME NEW r \in Request, Handle(r)
        PROVE  clock' \in {clock, clock + 1}
    BY <2>3 DEF Handle, Create, ReadDraft, CheckNoDraft, ReadBase, ReadTaken, ReadPublished,
       WriteEdit, WriteDelete, WriteAwait, WriteReason, ReadForApproval, Publish, RowGone, Throws
  <2> QED BY <2>1, <2>2, <2>3 DEF Next
<1> QED BY <1>1 DEF TypeOK

\* What a request has read stays sound while it waits.
LEMMA LocalsKept ==
    ASSUME TypeOK, Numbers, [Next]_vars, NEW q \in Request
    PROVE  /\ IsFiniteSet(used'[q])
           /\ pc'[q] = "create" => draftOf'[q].version >= TemplateVersion
           /\ pc'[q] = "commit" => stamp'[q] > 0
           /\ stamp'[q] <= clock'
<1> USE DEF Numbers
<1>1. CASE Boot \/ UNCHANGED vars
  <2>1. UNCHANGED <<pc, used, draftOf, stamp>> /\ clock' >= clock
    BY <1>1 DEF Boot, BaselineThere, LabelBaseline, NoDraftDue, BootFails, PublishBaseline,
       SeedDraft, local, TypeOK, vars
  <2>2. clock' \in Nat /\ clock \in Nat /\ stamp[q] \in Nat
    BY TypeHolds DEF TypeOK
  <2> QED BY <2>1, <2>2
<1>2. CASE Crash
  BY <1>2, FS_EmptySet DEF Crash, TypeOK
<1>3. ASSUME NEW u \in User, Consent(u)
      PROVE  UNCHANGED <<pc, used, draftOf, stamp, clock>>
  BY <1>3 DEF Consent, Register, AcceptTerms, RecordConsent, local
<1>4. ASSUME NEW r \in Request, NEW d \in Doc, Create(r, d) \/ ReadDraft(r, d)
      PROVE  /\ UNCHANGED <<used, stamp, clock>>
             /\ pc'[q] \in {"create", "commit"} => pc'[q] = pc[q] /\ draftOf'[q] = draftOf[q]
  BY <1>4 DEF Create, ReadDraft, EditDraft, DeleteDraft, PanelApprove, ButtonApprove,
     ButtonSuggest, ButtonReject, ReplyApprove, ReplyReject, Started, Moves, TypeOK
<1>5. ASSUME NEW r \in Request,
             \/ CheckNoDraft(r) \/ ReadBase(r)
             \/ WriteEdit(r) \/ WriteDelete(r) \/ WriteAwait(r) \/ WriteReason(r)
      PROVE  /\ UNCHANGED <<used, stamp, clock>>
             /\ pc'[q] \in {"create", "commit"} => pc'[q] = pc[q] /\ draftOf'[q] = draftOf[q]
  BY <1>5 DEF CheckNoDraft, ReadBase, WriteEdit, WriteDelete, WriteAwait, WriteReason, Started,
     Moves, TypeOK
<1>6. ASSUME NEW r \in Request, ReadTaken(r)
      PROVE  /\ UNCHANGED <<stamp, clock, draftOf>> /\ IsFiniteSet(used'[q])
             /\ pc'[q] \in {"create", "commit"} => pc'[q] = pc[q]
  BY <1>6, VersionsRead DEF ReadTaken, Moves, TypeOK
<1>7. ASSUME NEW r \in Request, ReadPublished(r)
      PROVE  /\ UNCHANGED <<stamp, clock>> /\ IsFiniteSet(used'[q])
             /\ pc'[q] = "create" => draftOf'[q].version >= TemplateVersion
             /\ pc'[q] = "commit" => pc[q] = "commit"
  BY <1>7, VersionsRead, FS_EmptySet DEF ReadPublished, Moves, TypeOK
<1>8. ASSUME NEW r \in Request, ReadForApproval(r)
      PROVE  /\ UNCHANGED <<used, draftOf>> /\ clock' = clock + 1
             /\ pc'[q] = "create" => pc[q] = "create"
             /\ pc'[q] = "commit" => stamp'[q] > 0
             /\ stamp'[q] <= clock'
  BY <1>8 DEF ReadForApproval, Moves, TypeOK
<1>9. ASSUME NEW r \in Request, Publish(r) \/ RowGone(r) \/ Throws(r)
      PROVE  /\ clock' = clock /\ IsFiniteSet(used'[q])
             /\ pc'[q] \in {"create", "commit"} =>
                  pc'[q] = pc[q] /\ draftOf'[q] = draftOf[q] /\ stamp'[q] = stamp[q]
             /\ stamp'[q] \in {0, stamp[q]}
  <2>1. CASE Publish(r)
    BY <1>9, <2>1, FS_EmptySet DEF Publish, Moves, TypeOK
  <2>2. CASE RowGone(r)
    BY <1>9, <2>2, FS_EmptySet DEF RowGone, Moves, TypeOK
  <2>3. CASE Throws(r)
    BY <1>9, <2>3, FS_EmptySet DEF Throws, Moves, TypeOK
  <2> QED BY <1>9, <2>1, <2>2, <2>3
<1>10. clock \in Nat /\ stamp[q] \in Nat
  BY DEF TypeOK
<1> QED BY <1>1, <1>2, <1>3, <1>4, <1>5, <1>6, <1>7, <1>8, <1>9, <1>10 DEF Next, Handle

\* Publication times are in the past, and only rows have one.
LEMMA TimesKept ==
    ASSUME TypeOK, Numbers, [Next]_vars, NEW e \in Doc
    PROVE  issued'[e] <= clock' /\ (issued'[e] > 0 => state'[e] # "unused")
<1>1. clock' >= clock /\ clock' \in Nat /\ clock \in Nat
  BY ClockRuns, TypeHolds DEF TypeOK
<1> USE DEF Numbers, TypeOK
<1>2. CASE Calm
  BY <1>1, <1>2 DEF Calm
<1>3. CASE LabelBaseline
  BY <1>1, <1>3 DEF LabelBaseline, row
<1>4. ASSUME NEW d \in Doc, NEW s, NEW n, Grow(d, s, n), issued' = issued
      PROVE  issued'[e] <= clock' /\ (issued'[e] > 0 => state'[e] # "unused")
  BY <1>1, <1>4 DEF Grow
<1>5. ASSUME NEW d \in Doc, PublishBaseline(d)
      PROVE  issued'[e] <= clock' /\ (issued'[e] > 0 => state'[e] # "unused")
  BY <1>5 DEF PublishBaseline
<1>6. ASSUME NEW r \in Request, WriteDelete(r)
      PROVE  issued'[e] <= clock' /\ (issued'[e] > 0 => state'[e] # "unused")
  BY <1>6 DEF WriteDelete
<1>7. ASSUME NEW r \in Request, Publish(r)
      PROVE  issued'[e] <= clock' /\ (issued'[e] > 0 => state'[e] # "unused")
  BY <1>1, <1>7, PublishedRow
<1> QED BY <1>2, <1>3, <1>4, <1>5, <1>6, <1>7, Kinds, BootGrows

LEMMA NumbersHold == ASSUME TypeOK, Numbers, [Next]_vars PROVE Numbers'
BY DocumentsKept, LocalsKept, TimesKept DEF Numbers

-----------------------------------------------------------------------------
\* The public version and the consents

\* The versions under which something was published.
Issued == {version[d] : d \in {e \in Doc : issued[e] > 0}}

\* A version that was published stays one: rows that exist keep their number.
LEMMA SettingHolds ==
    ASSUME TypeOK, Numbers, SettingNamesAPublication, [Next]_vars
    PROVE  SettingNamesAPublication'
<1> SUFFICES setting' \in {NoVersion, TemplateVersion} \cup Issued'
  BY DEF SettingNamesAPublication, Issued
<1>1. setting \in {NoVersion, TemplateVersion} \cup Issued
  BY DEF SettingNamesAPublication, Issued
<1>2. CASE Calm
  BY <1>1, <1>2 DEF Calm, Issued
<1>3. CASE LabelBaseline
  BY <1>3 DEF LabelBaseline
<1>4. ASSUME NEW d \in Doc, NEW s, NEW n, Grow(d, s, n),
             \A e \in Doc \ {d} : issued'[e] = issued[e]
      PROVE  setting' \in {NoVersion, TemplateVersion} \cup Issued'
  <2>1. ASSUME NEW e \in Doc, issued[e] > 0
        PROVE  issued'[e] > 0 /\ version'[e] = version[e]
    BY <1>4, <2>1 DEF Grow, Numbers, TypeOK
  <2> QED BY <1>1, <1>4, <2>1 DEF Grow, Issued
<1>5. ASSUME NEW r \in Request, WriteDelete(r)
      PROVE  setting' \in {NoVersion, TemplateVersion} \cup Issued'
  BY <1>1, <1>5 DEF WriteDelete, Issued
<1>6. ASSUME NEW r \in Request, Publish(r)
      PROVE  setting' \in {NoVersion, TemplateVersion} \cup Issued'
  <2>1. at[r] \in Doc /\ setting' = version[at[r]] /\ version' = version
    BY <1>6, PublishedRow
  <2>2. issued'[at[r]] > 0
    BY <1>6, <2>1, PublishedRow DEF Numbers, TypeOK
  <2> QED BY <2>1, <2>2 DEF Issued
<1>7. ASSUME NEW d \in Doc, PublishBaseline(d) \/ SeedDraft(d)
      PROVE  \A e \in Doc \ {d} : issued'[e] = issued[e]
  BY <1>7 DEF PublishBaseline, SeedDraft, TypeOK
<1> QED BY <1>2, <1>3, <1>4, <1>5, <1>6, <1>7, Kinds, BootGrows

\* The public version is on record as one; a version that was checked against it is too.
LEMMA OffersHold ==
    ASSUME TypeOK, Numbers, Offers, ConsentWasPublished, [Next]_vars
    PROVE  Offers' /\ ConsentWasPublished'
<1>1. {TemplateVersion, Published} \subseteq ever
  BY DEF Offers
<1>2. ever \subseteq ever' /\ {TemplateVersion, Published'} \subseteq ever'
  <2>1. CASE Calm
    BY <1>1, <2>1 DEF Calm, Published
  <2>2. CASE LabelBaseline
    BY <1>1, <2>2 DEF LabelBaseline, Published
  <2>3. ASSUME NEW d \in Doc, NEW s, NEW n, Grow(d, s, n)
        PROVE  ever \subseteq ever' /\ {TemplateVersion, Published'} \subseteq ever'
    BY <1>1, <2>3 DEF Grow, Published
  <2>4. ASSUME NEW r \in Request, WriteDelete(r)
        PROVE  ever \subseteq ever' /\ {TemplateVersion, Published'} \subseteq ever'
    BY <1>1, <2>4 DEF WriteDelete, Published
  <2>5. ASSUME NEW r \in Request, Publish(r)
        PROVE  ever \subseteq ever' /\ {TemplateVersion, Published'} \subseteq ever'
    <3>1. setting' \in Nat /\ ever' = ever \cup {setting'}
      BY <2>5, PublishedRow
    <3> QED BY <1>1, <3>1 DEF Published
  <2> QED BY <2>1, <2>2, <2>3, <2>4, <2>5, Kinds, BootGrows
<1>3. ASSUME NEW u \in User
      PROVE  offer'[u] \in ever' \cup {NoVersion} /\ accepted'[u] \in ever' \cup {NoVersion}
  <2>1. offer[u] \in ever \cup {NoVersion} /\ accepted[u] \in ever \cup {NoVersion}
    BY DEF Offers, ConsentWasPublished
  <2>2. CASE UNCHANGED <<offer, accepted>>
    BY <1>2, <2>1, <2>2
  <2>3. CASE Crash
    BY <1>2, <2>1, <2>3 DEF Crash
  <2>4. ASSUME NEW v \in User, Register(v)
        PROVE  offer'[u] \in ever' \cup {NoVersion} /\ accepted'[u] = accepted[u]
    BY <1>1, <1>2, <2>1, <2>4 DEF Register, Readable, TypeOK
  <2>5. ASSUME NEW v \in User, AcceptTerms(v)
        PROVE  offer'[u] \in ever' \cup {NoVersion} /\ accepted'[u] = accepted[u]
    BY <1>1, <1>2, <2>1, <2>5 DEF AcceptTerms, Acceptable, Readable, TypeOK
  <2>6. ASSUME NEW v \in User, RecordConsent(v)
        PROVE  offer'[u] \in {offer[u], NoVersion} /\ accepted'[u] \in {accepted[u], offer[u]}
    BY <2>6 DEF RecordConsent, TypeOK
  <2>7. CASE Boot \/ UNCHANGED vars
    BY <2>2, <2>7 DEF Boot, BaselineThere, LabelBaseline, NoDraftDue, BootFails, PublishBaseline,
       SeedDraft, vars
  <2>8. ASSUME NEW r \in Request, Handle(r)
        PROVE  UNCHANGED <<offer, accepted>>
    BY <2>8 DEF Handle, Create, ReadDraft, CheckNoDraft, ReadBase, ReadTaken, ReadPublished,
       WriteEdit, WriteDelete, WriteAwait, WriteReason, ReadForApproval, Publish, RowGone, Throws
  <2> QED BY <1>2, <2>1, <2>2, <2>3, <2>4, <2>5, <2>6, <2>7, <2>8 DEF Next, Consent
<1> QED BY <1>2, <1>3 DEF Offers, ConsentWasPublished

-----------------------------------------------------------------------------
\* Requests

\* Startup and requests exclude each other.
LEMMA StartsAloneHolds ==
    ASSUME TypeOK, StartsAlone, [Next]_vars
    PROVE  StartsAlone'
<1>1. CASE Boot
  BY <1>1 DEF StartsAlone, Boot, BaselineThere, LabelBaseline, NoDraftDue, BootFails,
     PublishBaseline, SeedDraft, local
<1>2. CASE Crash
  BY <1>2 DEF StartsAlone, Crash
<1>3. ASSUME NEW u \in User, Consent(u)
      PROVE  UNCHANGED <<pc, boot>>
  BY <1>3 DEF Consent, Register, AcceptTerms, RecordConsent, local
<1>4. ASSUME NEW r \in Request, Handle(r)
      PROVE  boot' = boot /\ (boot = "up" \/ pc' = pc)
  <2>1. CASE CheckNoDraft(r) \/ \E d \in Doc : ReadDraft(r, d)
    BY <2>1 DEF CheckNoDraft, ReadDraft, EditDraft, DeleteDraft, PanelApprove, ButtonApprove,
       ButtonSuggest, ButtonReject, ReplyApprove, ReplyReject, Started
  <2>2. CASE ~(CheckNoDraft(r) \/ \E d \in Doc : ReadDraft(r, d))
    <3>1. boot' = boot /\ pc[r] \notin {"idle", "done"}
      BY <1>4, <2>2 DEF Handle, Create, ReadBase, ReadTaken, ReadPublished, WriteEdit, WriteDelete,
         WriteAwait, WriteReason, ReadForApproval, Publish, RowGone, Throws, Moves
    <3> QED BY <3>1 DEF StartsAlone
  <2> QED BY <2>1, <2>2
<1>5. CASE UNCHANGED vars
  BY <1>5 DEF vars, local, StartsAlone
<1> QED BY <1>1, <1>2, <1>3, <1>4, <1>5 DEF Next, StartsAlone

\* A mark that a race has left stays.
LEMMA RacesStay == ASSUME [Next]_vars PROVE races \subseteq races'
<1>1. CASE Boot \/ Crash \/ UNCHANGED vars
  BY <1>1 DEF Boot, BaselineThere, LabelBaseline, NoDraftDue, BootFails, PublishBaseline,
     SeedDraft, Crash, vars
<1>2. ASSUME NEW u \in User, Consent(u)
      PROVE  races' = races
  BY <1>2 DEF Consent, Register, AcceptTerms, RecordConsent
<1>3. ASSUME NEW r \in Request, Handle(r)
      PROVE  races \subseteq races'
  BY <1>3 DEF Handle, Create, ReadDraft, CheckNoDraft, ReadBase, ReadTaken, ReadPublished,
     WriteEdit, WriteDelete, WriteAwait, WriteReason, ReadForApproval, Publish, RowGone, Throws,
     HistoryTouched
<1> QED BY <1>1, <1>2, <1>3 DEF Next

\* Requests begin to write a draft, or to commit an approval, through one door each.
LEMMA Doors ==
    ASSUME TypeOK, [Next]_vars, NEW q \in Request
    PROVE  /\ pc'[q] \in Drafting => pc[q] \in Drafting \/ CheckNoDraft(q)
           /\ pc'[q] = "commit" => (pc[q] = "commit" /\ stamp'[q] = stamp[q]) \/ ReadForApproval(q)
<1> USE DEF Drafting
<1>1. CASE Boot \/ Crash \/ UNCHANGED vars
  BY <1>1 DEF Boot, BaselineThere, LabelBaseline, NoDraftDue, BootFails, PublishBaseline,
     SeedDraft, Crash, vars, local
<1>2. ASSUME NEW u \in User, Consent(u)
      PROVE  pc' = pc /\ stamp' = stamp
  BY <1>2 DEF Consent, Register, AcceptTerms, RecordConsent, local
<1>3. ASSUME NEW r \in Request, Handle(r), r # q
      PROVE  pc'[q] = pc[q] /\ stamp'[q] = stamp[q]
  BY <1>3 DEF Handle, Create, ReadDraft, EditDraft, DeleteDraft, PanelApprove, ButtonApprove,
     ButtonSuggest, ButtonReject, ReplyApprove, ReplyReject, CheckNoDraft, ReadBase, ReadTaken,
     ReadPublished, WriteEdit, WriteDelete, WriteAwait, WriteReason, ReadForApproval, Publish,
     RowGone, Throws, Started, Moves, TypeOK
<1>4. CASE Handle(q)
  <2>1. CASE CheckNoDraft(q)
    BY <2>1 DEF CheckNoDraft, Started, Moves, TypeOK
  <2>2. CASE ReadForApproval(q)
    BY <2>2 DEF ReadForApproval, Moves, TypeOK
  <2>3. CASE ~(CheckNoDraft(q) \/ ReadForApproval(q))
    BY <1>4, <2>3 DEF Handle, Create, ReadDraft, EditDraft, DeleteDraft, PanelApprove,
       ButtonApprove, ButtonSuggest, ButtonReject, ReplyApprove, ReplyReject, ReadBase, ReadTaken,
       ReadPublished, WriteEdit, WriteDelete, WriteAwait, WriteReason, Publish, RowGone, Throws,
       Started, Moves, TypeOK
  <2> QED BY <2>1, <2>2, <2>3
<1> QED BY <1>1, <1>2, <1>3, <1>4 DEF Next

-----------------------------------------------------------------------------
\* One open draft

LEMMA OneDrafterHolds ==
    ASSUME TypeOK, Numbers, StartsAlone, OneDrafter, [Next]_vars
    PROVE  OneDrafter'
<1> SUFFICES ASSUME "drafts" \notin races'
             PROVE  /\ \A d, e \in Drafts' : d = e
                    /\ \A r, s \in Request : pc'[r] \in Drafting /\ pc'[s] \in Drafting => r = s
                    /\ \A r \in Request : pc'[r] \in Drafting => Drafts' = {}
  BY DEF OneDrafter
<1>1. /\ \A d, e \in Drafts : d = e
      /\ \A r, s \in Request : pc[r] \in Drafting /\ pc[s] \in Drafting => r = s
      /\ \A r \in Request : pc[r] \in Drafting => Drafts = {}
  BY RacesStay DEF OneDrafter
<1>2. ASSUME NEW r \in Request, CheckNoDraft(r)
      PROVE  /\ Drafts = {} /\ \A s \in Request \ {r} : pc'[s] = pc[s] /\ pc[s] \notin Drafting
             /\ Calm
  BY <1>2 DEF CheckNoDraft, NoOpenDraft, Started, Moves, Between, Drafting, TypeOK, Calm, row
<1>3. ASSUME NEW r \in Request, NEW s \in Request, pc'[r] \in Drafting, pc'[s] \in Drafting
      PROVE  r = s
  <2>1. pc[r] \in Drafting \/ CheckNoDraft(r)
    BY <1>3, Doors
  <2>2. pc[s] \in Drafting \/ CheckNoDraft(s)
    BY <1>3, Doors
  <2> QED BY <1>1, <1>2, <1>3, <2>1, <2>2
<1>4. (\A d, e \in Drafts' : d = e) /\ (\A r \in Request : pc'[r] \in Drafting => Drafts' = {})
  <2>1. CASE Drafts' \subseteq Drafts
    <3>1. ASSUME NEW r \in Request, pc'[r] \in Drafting PROVE Drafts = {}
      BY <1>1, <1>2, <3>1, Doors
    <3> QED BY <1>1, <2>1, <3>1
  <2>2. ASSUME NEW d \in Doc, SeedDraft(d)
        PROVE  Drafts' = {d} /\ \A r \in Request : pc'[r] \notin Drafting
    <3>1. Drafts' = {d}
      BY <2>2 DEF SeedDraft, Drafts, TypeOK
    <3>2. \A r \in Request : pc'[r] \notin Drafting
      BY <2>2 DEF SeedDraft, StartsAlone, local, Drafting
    <3> QED BY <3>1, <3>2
  <2>3. ASSUME NEW r \in Request, NEW d \in Doc, Create(r, d), Grow(d, "draft", draftOf[r].version)
        PROVE  Drafts' = {d} /\ \A s \in Request : pc'[s] \notin Drafting
    <3>1. pc[r] \in Drafting /\ pc' = [pc EXCEPT ![r] = "done"]
      BY <2>3 DEF Create, Moves, Drafting
    <3>2. Drafts = {} /\ \A s \in Request \ {r} : pc[s] \notin Drafting
      BY <1>1, <3>1
    <3>3. Drafts' = {d}
      BY <2>3, <3>2 DEF Grow, Drafts, TypeOK
    <3> QED BY <3>1, <3>2, <3>3 DEF TypeOK, Drafting
  <2>4. CASE Calm \/ LabelBaseline
    BY <2>1, <2>4 DEF Calm, LabelBaseline, Drafts, row
  <2>5. ASSUME NEW d \in Doc, PublishBaseline(d)
        PROVE  Drafts' \subseteq Drafts
    BY <2>5 DEF PublishBaseline, Drafts, TypeOK
  <2>6. ASSUME NEW r \in Request, WriteDelete(r)
        PROVE  Drafts' \subseteq Drafts
    BY <2>6 DEF WriteDelete, Drafts, TypeOK
  <2>7. ASSUME NEW r \in Request, Publish(r)
        PROVE  Drafts' \subseteq Drafts
    BY <2>7, PublishedRow DEF Drafts, TypeOK
  <2> QED BY <2>1, <2>2, <2>3, <2>4, <2>5, <2>6, <2>7, Kinds
<1> QED BY <1>3, <1>4

\* At most one draft is counted when any two are the same.
LEMMA OneOpenDraftFollows == ASSUME OneDrafter PROVE OneOpenDraft
<1> SUFFICES ASSUME "drafts" \notin races PROVE Cardinality(Drafts) <= 1
  BY DEF OneOpenDraft
<1>1. CASE Drafts = {}
  BY <1>1, FS_EmptySet
<1>2. ASSUME NEW d \in Drafts PROVE Drafts = {d}
  BY DEF OneDrafter
<1> QED BY <1>1, <1>2, FS_Singleton

-----------------------------------------------------------------------------
\* The document that is served

\* Handlers run on a server that is up.
LEMMA HandlersRunUp ==
    ASSUME TypeOK, StartsAlone, NEW r \in Request, Handle(r)
    PROVE  boot = "up" /\ boot' = "up"
<1>1. boot' = boot
  BY DEF Handle, Create, ReadDraft, CheckNoDraft, ReadBase, ReadTaken, ReadPublished,
     WriteEdit, WriteDelete, WriteAwait, WriteReason, ReadForApproval, Publish, RowGone, Throws
<1>2. boot = "up" \/ pc[r] \notin {"idle", "done"}
  BY DEF Handle, Create, ReadDraft, EditDraft, DeleteDraft, PanelApprove, ButtonApprove,
     ButtonSuggest, ButtonReject, ReplyApprove, ReplyReject, CheckNoDraft, ReadBase, ReadTaken,
     ReadPublished, WriteEdit, WriteDelete, WriteAwait, WriteReason, ReadForApproval, Publish,
     RowGone, Throws, Started, Moves
<1> QED BY <1>1, <1>2 DEF StartsAlone

\* One approval at a time is about to commit, and later than everything published.
LEMMA CommitsInOrder ==
    ASSUME TypeOK, Numbers, StartsAlone, InOrder, [Next]_vars, races' \subseteq {"drafts"}
    PROVE  /\ \A r, s \in Request : pc'[r] = "commit" /\ pc'[s] = "commit" => r = s
           /\ \A r \in Request : pc'[r] = "commit" => \A d \in Doc : issued'[d] < stamp'[r]
<1>1. /\ \A r, s \in Request : pc[r] = "commit" /\ pc[s] = "commit" => r = s
      /\ \A r \in Request : pc[r] = "commit" => \A d \in Doc : issued[d] < stamp[r]
  BY RacesStay DEF InOrder
<1>2. ASSUME NEW r \in Request, ReadForApproval(r)
      PROVE  /\ \A s \in Request \ {r} : pc'[s] = pc[s] /\ pc[s] # "commit"
             /\ issued' = issued /\ stamp'[r] = clock + 1
  BY <1>2 DEF ReadForApproval, Moves, Between, TypeOK, row
<1>3. ASSUME NEW r \in Request, NEW s \in Request, pc'[r] = "commit", pc'[s] = "commit"
      PROVE  r = s
  <2>1. pc[r] = "commit" \/ ReadForApproval(r)
    BY <1>3, Doors
  <2>2. pc[s] = "commit" \/ ReadForApproval(s)
    BY <1>3, Doors
  <2> QED BY <1>1, <1>2, <1>3, <2>1, <2>2
<1>4. ASSUME NEW r \in Request, pc'[r] = "commit", NEW d \in Doc
      PROVE  issued'[d] < stamp'[r]
  <2>1. CASE ReadForApproval(r)
    BY <1>2, <2>1 DEF Numbers, TypeOK
  <2>2. CASE pc[r] = "commit" /\ stamp'[r] = stamp[r]
    <3>1. issued[d] < stamp[r] /\ boot = "up"
      BY <1>1, <2>2 DEF StartsAlone
    <3>2. ~Publish(r)
      BY <1>4 DEF Publish, Moves, TypeOK
    <3>3. \A s \in Request \ {r} : ~Publish(s)
      BY <1>1, <2>2 DEF Publish, Moves
    <3>4. \A e \in Doc : ~PublishBaseline(e)
      BY <3>1 DEF PublishBaseline
    <3>5. \A s \in Request : WriteDelete(s) => issued' = issued
      BY DEF WriteDelete
    <3>6. LabelBaseline => issued' = issued
      BY DEF LabelBaseline, row
    <3>7. \A e \in Doc : SeedDraft(e) => issued' = issued
      BY DEF SeedDraft
    <3>8. issued' = issued
      BY <3>2, <3>3, <3>4, <3>5, <3>6, <3>7, Kinds DEF Calm
    <3> QED BY <2>2, <3>1, <3>8
  <2> QED BY <1>4, <2>1, <2>2, Doors
<1> QED BY <1>3, <1>4

\* A handler leaves the latest publication the one in force.
LEMMA LatestHolds ==
    ASSUME TypeOK, Numbers, StartsAlone, InOrder, [Next]_vars, races' \subseteq {"drafts"}, Latest,
           NEW r \in Request, Handle(r)
    PROVE  Latest'
<1>1. PICK d \in Approved : version[d] = Published
                           /\ \A e \in Approved \ {d} : issued[e] < issued[d]
  BY DEF Latest
<1>2. CASE Calm
  BY <1>1, <1>2 DEF Calm, Latest, Approved, Published
<1>3. ASSUME NEW e \in Doc, NEW n, Grow(e, "draft", n), issued' = issued
      PROVE  Latest'
  <2>1. Approved' = Approved /\ Published' = Published /\ version'[d] = version[d]
    BY <1>3 DEF Grow, Approved, Published, TypeOK
  <2> QED BY <1>1, <1>3, <2>1 DEF Latest
<1>4. ASSUME NEW s \in Request, WriteDelete(s)
      PROVE  Latest'
  <2>1. state[at[s]] # "approved"
    BY <1>4 DEF WriteDelete, HistoryTouched
  <2>2. Approved' = Approved /\ Published' = Published
    BY <1>4, <2>1 DEF WriteDelete, Approved, Published, TypeOK
  <2> QED BY <1>1, <1>4, <2>2 DEF WriteDelete, Latest
<1>5. ASSUME NEW s \in Request, Publish(s)
      PROVE  Latest'
  <2>1. \A e \in Doc : issued[e] < stamp[s]
    BY <1>5, PublishedRow, RacesStay DEF InOrder
  <2>2. at[s] \in Approved' /\ Approved' = Approved \cup {at[s]}
    BY <1>5, PublishedRow DEF Approved, TypeOK
  <2>3. version'[at[s]] = Published'
    BY <1>5, PublishedRow DEF Published
  <2>4. \A e \in Doc \ {at[s]} : issued'[e] < issued'[at[s]]
    BY <1>5, <2>1, PublishedRow DEF TypeOK
  <2> QED BY <2>2, <2>3, <2>4 DEF Latest, Approved
<1>6. ~LabelBaseline /\ \A e \in Doc : ~PublishBaseline(e) /\ ~SeedDraft(e)
  BY HandlersRunUp DEF LabelBaseline, PublishBaseline, SeedDraft
<1> QED BY <1>2, <1>3, <1>4, <1>5, <1>6, Kinds

LEMMA InOrderHolds ==
    ASSUME TypeOK, Numbers, StartsAlone, InOrder, [Next]_vars
    PROVE  InOrder'
<1> DEFINE Ready == /\ boot = "label" => \E d \in Approved : Approved = {d} /\ version[d] = TemplateVersion
                    /\ boot = "baseline" /\ Approved = {} => Rows = {}
                    /\ boot = "baseline" /\ Approved # {} => Latest
                    /\ boot \in {"drafts", "up"} => Latest
<1> SUFFICES ASSUME races' \subseteq {"drafts"} PROVE Ready'
  BY CommitsInOrder DEF InOrder
<1>1. races \subseteq {"drafts"} /\ Ready
  BY RacesStay DEF InOrder
<1>2. CASE Calm /\ boot' = boot
  BY <1>1, <1>2 DEF Calm, Approved, Rows, Latest, Published
<1>3. CASE Crash
  <2>1. boot # "label" /\ boot' = "baseline" /\ Calm
    BY <1>1, <1>3 DEF Crash, Calm, row
  <2>2. Approved' = Approved /\ Rows' = Rows /\ Latest' = Latest
    BY <2>1 DEF Calm, Approved, Rows, Latest, Published
  <2>3. boot \in {"baseline", "drafts", "up"}
    BY <2>1 DEF TypeOK
  <2>4. Latest => Approved # {}
    BY DEF Latest
  <2> QED BY <1>1, <2>1, <2>2, <2>3, <2>4
<1>4. CASE BaselineThere \/ NoDraftDue
  <2>1. Approved' = Approved /\ Latest' = Latest /\ boot' \in {"drafts", "up"}
    BY <1>4 DEF BaselineThere, NoDraftDue, row, Approved, Latest, Published
  <2>2. Latest
    BY <1>1, <1>4 DEF BaselineThere, NoDraftDue
  <2> QED BY <2>1, <2>2
<1>5. CASE BootFails
  BY <1>5 DEF BootFails
<1>6. CASE LabelBaseline
  <2>1. PICK d \in Approved : Approved = {d} /\ version[d] = TemplateVersion
    BY <1>1, <1>6 DEF LabelBaseline
  <2>2. Approved' = Approved /\ version' = version /\ Published' = TemplateVersion
        /\ boot' = "drafts"
    BY <1>6 DEF LabelBaseline, row, Approved, Published
  <2> QED BY <2>1, <2>2 DEF Latest
<1>7. ASSUME NEW d \in Doc, PublishBaseline(d)
      PROVE  Ready'
  <2>1. Rows = {} /\ Approved = {} /\ boot' = "label"
    BY <1>1, <1>7 DEF PublishBaseline
  <2>2. version' = [version EXCEPT ![d] = TemplateVersion]
    BY <1>7, <2>1 DEF PublishBaseline
  <2>3. Approved' = {d}
    BY <1>7, <2>1 DEF PublishBaseline, Approved, TypeOK
  <2>4. version'[d] = TemplateVersion
    BY <2>2 DEF TypeOK
  <2> QED BY <2>1, <2>3, <2>4
<1>8. ASSUME NEW d \in Doc, SeedDraft(d)
      PROVE  Ready'
  <2>1. PICK n : Grow(d, "draft", n) /\ issued' = issued
    BY <1>8, BootGrows
  <2>2. boot' = "up" /\ Latest
    BY <1>1, <1>8 DEF SeedDraft
  <2>3. Approved' = Approved /\ Published' = Published
        /\ \A e \in Approved : version'[e] = version[e]
    BY <2>1 DEF Grow, Approved, Published, TypeOK
  <2>4. Latest'
    BY <2>1, <2>2, <2>3 DEF Latest
  <2> QED BY <2>2, <2>4
<1>9. ASSUME NEW r \in Request, Handle(r)
      PROVE  Ready'
  <2>1. boot = "up" /\ boot' = "up"
    BY <1>9, HandlersRunUp
  <2>2. Latest'
    BY <1>1, <1>9, <2>1, LatestHolds
  <2> QED BY <2>1, <2>2
<1>10. ASSUME NEW u \in User, Consent(u)
       PROVE  Calm /\ boot' = boot
  BY <1>10 DEF Consent, Register, AcceptTerms, RecordConsent, row, Calm
<1>11. CASE UNCHANGED vars
  BY <1>2, <1>11 DEF vars, row, Calm
<1> HIDE DEF Ready
<1> QED BY <1>2, <1>3, <1>4, <1>5, <1>6, <1>7, <1>8, <1>9, <1>10, <1>11 DEF Next, Boot

\* The row that is served is the latest one.
LEMMA LatestIsServed ==
    ASSUME TypeOK, Latest
    PROVE  Served # NoDoc /\ version[Served] = Published
<1>1. PICK d \in Approved : version[d] = Published
                           /\ \A e \in Approved \ {d} : issued[e] < issued[d]
  BY DEF Latest
<1>2. \A e \in Approved : e \in Doc /\ issued[e] \in Nat
  BY DEF Approved, TypeOK
<1>3. \A e \in Approved : issued[e] <= issued[d]
  BY <1>1, <1>2
<1>4. Served \in Approved /\ \A e \in Approved : issued[e] <= issued[Served]
  BY <1>1, <1>3 DEF Served
<1>5. Served = d
  BY <1>1, <1>2, <1>4
<1> QED BY <1>1, <1>2, <1>5

-----------------------------------------------------------------------------
\* The theorems

LEMMA StepHolds == IInv /\ [Next]_vars => IInv'
<1> SUFFICES ASSUME IInv, [Next]_vars PROVE IInv'
  OBVIOUS
<1>1. TypeOK' /\ Numbers'
  BY TypeHolds, NumbersHold DEF IInv
<1>2. SettingNamesAPublication' /\ ConsentWasPublished' /\ Offers'
  BY SettingHolds, OffersHold DEF IInv
<1>3. StartsAlone' /\ OneDrafter' /\ InOrder'
  BY StartsAloneHolds, OneDrafterHolds, InOrderHolds DEF IInv
<1> QED BY <1>1, <1>2, <1>3 DEF IInv

\* In every reachable state the strengthened invariant of documents and consents holds.
THEOREM Inductive == Spec => []IInv
BY InitHolds, StepHolds, PTL DEF Spec

\* Every value stays legal, version numbers above the template's included, and a type has one
\* open draft unless two requests overlapped, for any number of rows and requests.
THEOREM DraftsAreSound == Spec => []DraftsSound
<1>1. IInv => DraftsSound
  BY OneOpenDraftFollows DEF IInv, DraftsSound
<1> QED BY <1>1, Inductive, PTL

\* The version users must accept is that of the document the public pages serve, unless two
\* approvals overlapped, an approved row was changed, or startup failed half-way.
THEOREM TheServedVersionIsDemanded == Spec => []ServedIsCurrent
<1>1. IInv => ServedIsCurrent
  BY LatestIsServed DEF IInv, InOrder, ServedIsCurrent
<1> QED BY <1>1, Inductive, PTL

\* The version demanded from users is the template's or one that a document was published
\* under, even after that document has been deleted.
THEOREM SettingsNamePublications == Spec => []SettingNamesAPublication
<1>1. IInv => SettingNamesAPublication
  BY DEF IInv
<1> QED BY <1>1, Inductive, PTL

\* A consent on record names a version that was the published one when it was checked.
THEOREM ConsentsNamePublications == Spec => []ConsentWasPublished
<1>1. IInv => ConsentWasPublished
  BY DEF IInv
<1> QED BY <1>1, Inductive, PTL

\* An approved document is never taken back to draft by the approval of another version.
THEOREM ApprovalIsLasting == Spec => NeverUnpublished
<1> DEFINE Kept == \A d \in Doc : state[d] = "approved" => state'[d] \in {"approved", "deleted"}
<1>1. ASSUME IInv, [Next]_vars PROVE Kept
  <2>1. TypeOK /\ Numbers
    BY <1>1 DEF IInv
  <2>2. CASE Calm \/ LabelBaseline
    BY <2>2 DEF Calm, LabelBaseline, row
  <2>3. ASSUME NEW e \in Doc, NEW s, NEW n, Grow(e, s, n)
        PROVE  Kept
    BY <2>1, <2>3 DEF Grow, TypeOK
  <2>4. ASSUME NEW r \in Request, WriteDelete(r)
        PROVE  Kept
    BY <2>1, <2>4 DEF WriteDelete, TypeOK
  <2>5. ASSUME NEW r \in Request, Publish(r)
        PROVE  Kept
    BY <2>1, <2>5, PublishedRow DEF TypeOK
  <2> HIDE DEF Kept
  <2> QED BY <1>1, <2>1, <2>2, <2>3, <2>4, <2>5, Kinds, BootGrows
<1>2. IInv /\ [Next]_vars => [Kept]_vars
  BY <1>1
<1> QED BY <1>2, Inductive, PTL DEF Spec, NeverUnpublished

=============================================================================
