----------------------------- MODULE BrowserProofs -----------------------------
(***************************************************************************)
(* What a tab of the browser keeps, for any number of pages, accounts and  *)
(* requests: the safety of Preferences, CoachSignOut, ServerRequests,      *)
(* BackgroundAnalysis, SyncMonitor and MaiaOpponent; and what the engine   *)
(* of the server keeps, ServerEngine, for any number of analyses and       *)
(* processes.                                                              *)
(*                                                                         *)
(* Each is proved by an inductive invariant: the types of the state, what  *)
(* the property says, and what a request in the air knows of the state     *)
(* that it was made from.                                                  *)
(***************************************************************************)
EXTENDS Preferences, CoachSignOut, ServerRequests, BackgroundAnalysis, SyncMonitor,
        ServerEngine, MaiaOpponent, FiniteSetTheorems, SequenceTheorems, TLAPS

-----------------------------------------------------------------------------
(* Sequences of rows.                                                      *)

LEMMA SeqRows ==
  ASSUME NEW S, NEW seq \in Seq(S)
  PROVE  \A i \in DOMAIN seq : seq[i] \in S
<1>1. DOMAIN seq = 1..Len(seq)
  BY LenProperties
<1> QED BY <1>1, ElementOfSeq

LEMMA Updated ==
  ASSUME NEW S, NEW seq \in Seq(S), NEW i \in DOMAIN seq, NEW row \in S
  PROVE  /\ [seq EXCEPT ![i] = row] \in Seq(S)
         /\ DOMAIN [seq EXCEPT ![i] = row] = DOMAIN seq
         /\ [seq EXCEPT ![i] = row][i] = row
         /\ \A j \in DOMAIN seq : j # i => [seq EXCEPT ![i] = row][j] = seq[j]
<1>1. DOMAIN seq = 1..Len(seq) /\ Len(seq) \in Nat
  BY LenProperties
<1>2. \A j \in DOMAIN seq : [seq EXCEPT ![i] = row][j] \in S
  BY SeqRows
<1> QED BY <1>1, <1>2

LEMMA Appended ==
  ASSUME NEW S, NEW seq \in Seq(S), NEW e \in S
  PROVE  /\ Append(seq, e) \in Seq(S)
         /\ Len(seq) \in Nat /\ DOMAIN seq = 1..Len(seq)
         /\ DOMAIN Append(seq, e) = 1..(Len(seq) + 1)
         /\ \A i \in DOMAIN seq : Append(seq, e)[i] = seq[i]
         /\ Append(seq, e)[Len(seq) + 1] = e
BY LenProperties

LEMMA Shifted ==
  ASSUME NEW S, NEW q \in Seq(S), q # <<>>
  PROVE  /\ Tail(q) \in Seq(S) /\ Head(q) \in S /\ Head(q) = q[1] /\ 1 \in DOMAIN q
         /\ Len(q) \in Nat /\ DOMAIN q = 1..Len(q) /\ Len(Tail(q)) = Len(q) - 1
         /\ DOMAIN Tail(q) = 1..(Len(q) - 1)
         /\ \A i \in DOMAIN Tail(q) : Tail(q)[i] = q[i + 1] /\ i + 1 \in DOMAIN q
<1>1. Len(q) \in Nat /\ DOMAIN q = 1..Len(q) /\ Len(q) # 0
  BY LenProperties, EmptySeq
<1>2. Tail(q) \in Seq(S) /\ Len(Tail(q)) = Len(q) - 1
      /\ \A i \in 1..(Len(q) - 1) : Tail(q)[i] = q[i + 1]
  BY <1>1, HeadTailProperties
<1>3. DOMAIN Tail(q) = 1..(Len(q) - 1)
  BY <1>2, LenProperties
<1>4. Head(q) = q[1] /\ q[1] \in S
  BY <1>1, HeadTailProperties, ElementOfSeq
<1> QED BY <1>1, <1>2, <1>3, <1>4

LEMMA NoLess == \A n \in Nat : n <= n
OBVIOUS

-----------------------------------------------------------------------------
(* Preferences.                                                            *)

Owners == People \cup {NoAccount}
Automations == [by : Owners, on : BOOLEAN, scope : {"new", "all"}]
Mixes == [by : Owners, mix : Nat]
Documents == [automation : Automations, mix : Mixes, enabledAt : Nat]
CardRows == [state : {"closed", "loading", "ready", "saving", "error"},
             saved : Automations \cup Mixes, run : Nat]
SaveRows == [page : SettingsPages, section : Sections, run : Nat, value : Automations \cup Mixes,
             attempt : Nat, as : Owners, read : Documents, write : Nat]

PrefTypeOK ==
  /\ signedIn \in People
  /\ pageOwner \in [SettingsPages -> Owners] /\ activeOwner \in [SettingsPages -> Owners]
  /\ cards \in [SettingsPages -> [Sections -> CardRows]]
  /\ saves \subseteq SaveRows
  /\ stored \in [People -> Documents] /\ rowWrites \in [People -> Nat]
  /\ library \in [People -> Seq(BOOLEAN)]
  /\ lastEdit \in [People -> [automation : Automations, mix : Mixes]]
  /\ prefEdits \in Nat

\* A save is of its page's owner, and holds the document as it is while the row was not written since.
SaveOK(r) ==
  /\ pageOwner[r.page] \in People
  /\ r.value.by = pageOwner[r.page]
  /\ r.value \in IF r.section = "mix" THEN Mixes ELSE Automations
  /\ r.attempt > 0 =>
       /\ r.as = pageOwner[r.page]
       /\ r.write <= rowWrites[r.as]
       /\ r.write = rowWrites[r.as] => r.read = stored[r.as]

\* What is stored for an account: its own, what was saved last, and with a boundary
\* behind which no game came while the automation was off.
StoredOK(o) ==
  /\ stored[o].automation.by \in {o, NoAccount} /\ stored[o].mix.by \in {o, NoAccount}
  /\ stored[o].automation = lastEdit[o].automation /\ stored[o].mix = lastEdit[o].mix
  /\ stored[o].automation.on /\ stored[o].automation.scope = "new" =>
       /\ stored[o].enabledAt # 0
       /\ \A i \in DOMAIN library[o] : i >= stored[o].enabledAt => library[o][i]

\* A card is open on a page that was made for someone.
PagesOK ==
  \A p \in SettingsPages :
    pageOwner[p] = NoAccount => \A s \in Sections : cards[p][s].state = "closed"

PrefInv ==
  /\ PrefTypeOK /\ PagesOK
  /\ \A r \in saves : SaveOK(r)
  /\ \A o \in People : StoredOK(o)

\* The owner of a page is decided when it opens, and what is stored of the others stays.
LEMMA PageStep ==
  ASSUME PrefInv, PrefTypeOK', UNCHANGED <<stored, rowWrites, library, lastEdit>>,
         \A p \in SettingsPages :
           /\ pageOwner'[p] = pageOwner[p] \/ pageOwner[p] = NoAccount
           /\ cards'[p] = cards[p] \/ pageOwner'[p] # NoAccount,
         \A r \in saves' : r \in saves \/ SaveOK(r)'
  PROVE  PrefInv'
<1>1. ASSUME NEW r \in saves PROVE SaveOK(r)'
  <2>1. r.page \in SettingsPages /\ SaveOK(r)
    BY DEF PrefInv, PrefTypeOK, SaveRows
  <2>2. pageOwner'[r.page] = pageOwner[r.page]
    BY <2>1, PeopleAssumption DEF SaveOK
  <2> QED BY <2>1, <2>2 DEF SaveOK
<1>2. \A o \in People : StoredOK(o)'
  BY DEF PrefInv, StoredOK
<1>3. PagesOK'
  BY DEF PrefInv, PagesOK
<1> QED BY <1>1, <1>2, <1>3 DEF PrefInv

LEMMA ClosedRow == ClosedCard \in CardRows
BY DEF ClosedCard, CardRows, Mix, Mixes, Owners

LEMMA CardsLoad ==
  ASSUME PrefTypeOK, NEW p \in SettingsPages, NEW ready \in BOOLEAN, LoadCards(p, ready)
  PROVE  /\ cards' \in [SettingsPages -> [Sections -> CardRows]]
         /\ \A q \in SettingsPages : q # p => cards'[q] = cards[q]
<1> DEFINE row(s) == [ClosedCard EXCEPT !.state = IF ready THEN "loading" ELSE "error",
                                        !.run = cards[p][s].run + 1]
<1>1. ASSUME NEW s \in Sections PROVE row(s) \in CardRows
  <2>1. cards[p][s].run + 1 \in Nat
    BY DEF PrefTypeOK, CardRows
  <2> QED BY <2>1, ClosedRow DEF CardRows
<1>2. cards' = [cards EXCEPT ![p] = [s \in Sections |-> row(s)]]
  BY DEF LoadCards
<1> HIDE DEF row
<1>3. [s \in Sections |-> row(s)] \in [Sections -> CardRows]
  BY <1>1
<1> QED BY <1>2, <1>3 DEF PrefTypeOK

\* One card is written.
LEMMA CardWritten ==
  ASSUME PrefTypeOK, NEW p \in SettingsPages, NEW s \in Sections, NEW row \in CardRows,
         cards' = [cards EXCEPT ![p][s] = row]
  PROVE  /\ cards' \in [SettingsPages -> [Sections -> CardRows]]
         /\ \A q \in SettingsPages : q # p => cards'[q] = cards[q]
<1>1. [cards[p] EXCEPT ![s] = row] \in [Sections -> CardRows]
  BY DEF PrefTypeOK
<1>2. cards' = [cards EXCEPT ![p] = [cards[p] EXCEPT ![s] = row]]
  BY DEF PrefTypeOK
<1> QED BY <1>1, <1>2 DEF PrefTypeOK

LEMMA AnswerTyped ==
  ASSUME PrefTypeOK, NEW r \in SaveRows, NEW good \in BOOLEAN, AnswerSave(r, good)
  PROVE  /\ cards' \in [SettingsPages -> [Sections -> CardRows]]
         /\ \A q \in SettingsPages : q # r.page => cards'[q] = cards[q]
<1>1. r.page \in SettingsPages /\ r.section \in Sections /\ r.value \in Automations \cup Mixes
  BY DEF SaveRows
<1>2. CASE cards' = cards
  BY <1>2 DEF PrefTypeOK
<1>3. CASE cards' # cards
  <2> DEFINE card == cards[r.page][r.section]
             row == IF good THEN Loaded(card, r.value) ELSE [card EXCEPT !.state = "ready"]
  <2>1. card \in CardRows
    BY <1>1 DEF PrefTypeOK
  <2>2. row \in CardRows
    <3> HIDE DEF card
    <3>1. [card EXCEPT !.state = "ready", !.saved = r.value] \in CardRows
      BY <1>1, <2>1, Zenon DEF CardRows
    <3>2. [card EXCEPT !.state = "ready"] \in CardRows
      BY <2>1, Zenon DEF CardRows
    <3> QED BY <3>1, <3>2 DEF Loaded
  <2>3. cards' = [cards EXCEPT ![r.page][r.section] = row]
    BY <1>3, Zenon DEF AnswerSave
  <2> HIDE DEF row
  <2> QED BY <1>1, <2>2, <2>3, CardWritten
<1> QED BY <1>2, <1>3

LEMMA PrefStarts == PrefInit => PrefInv
<1> SUFFICES ASSUME PrefInit PROVE PrefInv
  OBVIOUS
<1>1. PrefTypeOK
  <2>1. DefaultPreferences \in Documents
    BY DEF DefaultPreferences, Documents, Off, Mix, Automations, Mixes, Owners
  <2>2. [automation |-> Off, mix |-> Mix(NoAccount, 0)] \in [automation : Automations, mix : Mixes]
    BY DEF Off, Mix, Automations, Mixes, Owners
  <2>3. <<>> \in Seq(BOOLEAN)
    OBVIOUS
  <2> QED BY <2>1, <2>2, <2>3, ClosedRow, PeopleAssumption DEF PrefInit, PrefTypeOK, Owners
<1>2. \A o \in People : StoredOK(o)
  BY DEF PrefInit, StoredOK, DefaultPreferences, Off, Mix
<1>3. saves = {}
  BY DEF PrefInit
<1>4. PagesOK
  BY DEF PrefInit, PagesOK, ClosedCard
<1> QED BY <1>1, <1>2, <1>3, <1>4 DEF PrefInv

LEMMA OpenInv ==
  ASSUME PrefInv, NEW p \in SettingsPages, OpenSettings(p) \/ NoticeSession(p)
  PROVE  PrefInv'
<1>1. \E ready \in BOOLEAN : LoadCards(p, ready)
  BY DEF OpenSettings, NoticeSession
<1>2. cards' \in [SettingsPages -> [Sections -> CardRows]]
      /\ \A q \in SettingsPages : q # p => cards'[q] = cards[q]
  BY <1>1, CardsLoad DEF PrefInv
<1>3. /\ UNCHANGED <<signedIn, saves, stored, rowWrites, library, lastEdit, prefEdits, prefSignIns>>
      /\ pageOwner' \in [SettingsPages -> Owners] /\ activeOwner' \in [SettingsPages -> Owners]
      /\ \A q \in SettingsPages : pageOwner'[q] = pageOwner[q] \/ pageOwner[q] = NoAccount
  BY DEF OpenSettings, NoticeSession, PrefInv, PrefTypeOK, Owners
<1>4. PrefTypeOK'
  BY <1>2, <1>3 DEF PrefInv, PrefTypeOK
<1>5. pageOwner'[p] # NoAccount
  BY PeopleAssumption DEF OpenSettings, NoticeSession, PrefInv, PrefTypeOK
<1> QED BY <1>2, <1>3, <1>4, <1>5, PageStep

LEMMA SignsInInv == ASSUME PrefInv, NEW o \in People, SignInAs(o) PROVE PrefInv'
<1>1. PrefTypeOK'
  BY DEF PrefInv, PrefTypeOK, SignInAs
<1> QED BY <1>1, PageStep DEF SignInAs

LEMMA LoadInv ==
  ASSUME PrefInv, NEW p \in SettingsPages, NEW s \in Sections, LoadCard(p, s)
  PROVE  PrefInv'
<1> DEFINE card == cards[p][s]
           row == IF signedIn = pageOwner[p] THEN Loaded(card, stored[signedIn][s])
                  ELSE [card EXCEPT !.state = "error"]
<1>1. card \in CardRows /\ stored[signedIn][s] \in Automations \cup Mixes
  BY DEF PrefInv, PrefTypeOK, Sections, Documents
<1>2. row \in CardRows
  <2> HIDE DEF card
  <2>1. [card EXCEPT !.state = "ready", !.saved = stored[signedIn][s]] \in CardRows
    BY <1>1, Zenon DEF CardRows
  <2>2. [card EXCEPT !.state = "error"] \in CardRows
    BY <1>1, Zenon DEF CardRows
  <2> QED BY <2>1, <2>2 DEF Loaded
<1>3. cards' = [cards EXCEPT ![p][s] = row]
  BY Zenon DEF LoadCard
<1> HIDE DEF row
<1>4. PrefTypeOK' /\ \A q \in SettingsPages : q # p => cards'[q] = cards[q]
  BY <1>2, <1>3, CardWritten DEF PrefInv, PrefTypeOK, LoadCard
<1>5. pageOwner[p] # NoAccount
  BY DEF LoadCard, PrefInv, PagesOK
<1> QED BY <1>4, <1>5, PageStep DEF LoadCard

LEMMA SaveCardInv ==
  ASSUME PrefInv, NEW p \in SettingsPages, NEW s \in Sections, SaveCard(p, s)
  PROVE  PrefInv'
<1> DEFINE card == cards[p][s]
           o == pageOwner[p]
<1>1. card \in CardRows /\ card.state = "ready" /\ prefEdits + 1 \in Nat /\ o \in Owners
  BY DEF PrefInv, PrefTypeOK, SaveCard
<1>2. PICK v \in Values(s, o, prefEdits + 1) :
        saves' = saves \cup {[page |-> p, section |-> s, run |-> card.run, value |-> v,
                             attempt |-> 0, as |-> NoAccount, read |-> DefaultPreferences, write |-> 0]}
  BY DEF SaveCard
<1>r. PICK r : r = [page |-> p, section |-> s, run |-> card.run, value |-> v,
                    attempt |-> 0, as |-> NoAccount, read |-> DefaultPreferences, write |-> 0]
  OBVIOUS
<1>3. v.by = o /\ v \in IF s = "mix" THEN Mixes ELSE Automations
  BY <1>1 DEF Values, Mix, Mixes, Automations
<1>4. DefaultPreferences \in Documents
  BY DEF DefaultPreferences, Documents, Off, Mix, Automations, Mixes, Owners
<1>5. r \in SaveRows
  BY <1>1, <1>r, <1>3, <1>4 DEF SaveRows, CardRows, Owners
<1>6. UNCHANGED <<signedIn, pageOwner, activeOwner, stored, rowWrites, library, lastEdit>>
      /\ prefEdits' \in Nat
  BY <1>1 DEF SaveCard
<1>7. /\ cards' \in [SettingsPages -> [Sections -> CardRows]]
      /\ \A q \in SettingsPages : q # p => cards'[q] = cards[q]
  <2> DEFINE row == [card EXCEPT !.state = "saving"]
  <2>1. row \in CardRows
    BY <1>1, Zenon DEF CardRows
  <2>2. cards' = [cards EXCEPT ![p][s] = row]
    BY Zenon DEF SaveCard
  <2> HIDE DEF row
  <2> QED BY <2>1, <2>2, CardWritten DEF PrefInv
<1>8. PrefTypeOK'
  BY <1>2, <1>r, <1>5, <1>6, <1>7 DEF PrefInv, PrefTypeOK
<1>9. pageOwner[p] # NoAccount /\ pageOwner[p] \in People
  BY <1>1 DEF SaveCard, PrefInv, PagesOK, Owners
<1>10. SaveOK(r)'
  BY <1>r, <1>3, <1>6, <1>9 DEF SaveOK
<1>11. \A t \in saves' : t \in saves \/ SaveOK(t)'
  BY <1>2, <1>r, <1>10
<1> QED BY <1>6, <1>7, <1>8, <1>9, <1>11, PageStep

\* The transaction has read the document of its page's owner.
LEMMA DocumentRead ==
  ASSUME PrefInv, NEW r \in saves, NEW o \in People, o = pageOwner[r.page], ReadDocument(r, o),
         UNCHANGED <<signedIn, pageOwner, activeOwner, cards, stored, rowWrites, library, lastEdit,
                     prefEdits, prefSignIns>>
  PROVE  PrefInv'
<1>1. r \in SaveRows /\ SaveOK(r) /\ stored[o] \in Documents /\ rowWrites[o] \in Nat
      /\ r.page \in SettingsPages
  BY DEF PrefInv, PrefTypeOK, SaveRows
<1>2. PICK t : t = [r EXCEPT !.attempt = r.attempt + 1, !.as = o, !.read = stored[o],
                             !.write = rowWrites[o]]
  OBVIOUS
<1>3. r.attempt + 1 \in Nat /\ o \in Owners
  BY <1>1 DEF SaveRows, Owners
<1>4. t \in SaveRows
  BY <1>1, <1>2, <1>3, Zenon DEF SaveRows
<1>5. /\ t.page = r.page /\ t.section = r.section /\ t.value = r.value
      /\ t.as = o /\ t.read = stored[o] /\ t.write = rowWrites[o]
  BY <1>1, <1>2 DEF SaveRows
<1>6. saves' = (saves \ {r}) \cup {t}
  BY <1>2 DEF ReadDocument
<1>7. PrefTypeOK'
  BY <1>4, <1>6 DEF PrefInv, PrefTypeOK
<1>8. SaveOK(t)'
  BY <1>1, <1>5 DEF SaveOK
<1> QED BY <1>6, <1>7, <1>8, PageStep

\* A save is answered, and nothing is stored.
LEMMA SaveRefused ==
  ASSUME PrefInv, NEW r \in saves, saves' = saves \ {r}, NEW good \in BOOLEAN, AnswerSave(r, good),
         UNCHANGED <<signedIn, pageOwner, activeOwner, stored, rowWrites, library, lastEdit,
                     prefEdits, prefSignIns>>
  PROVE  PrefInv'
<1>1. r \in SaveRows /\ SaveOK(r)
  BY DEF PrefInv, PrefTypeOK
<1>2. /\ cards' \in [SettingsPages -> [Sections -> CardRows]]
      /\ \A q \in SettingsPages : q # r.page => cards'[q] = cards[q]
  BY <1>1, AnswerTyped DEF PrefInv
<1>3. PrefTypeOK'
  BY <1>2 DEF PrefInv, PrefTypeOK
<1>4. pageOwner[r.page] # NoAccount
  BY <1>1, PeopleAssumption DEF SaveOK
<1> QED BY <1>2, <1>3, <1>4, PageStep

LEMMA BeginsInv == ASSUME PrefInv, NEW r \in saves, BeginSave(r) PROVE PrefInv'
<1>1. UNCHANGED <<signedIn, pageOwner, activeOwner, stored, rowWrites, library, lastEdit,
                  prefEdits, prefSignIns>>
  BY DEF BeginSave
<1>2. CASE OwnerExpected(r.page)
  <2>1. signedIn \in People /\ signedIn = pageOwner[r.page]
    BY <1>2 DEF PrefInv, PrefTypeOK, OwnerExpected
  <2>2. ReadDocument(r, signedIn) /\ UNCHANGED cards
    BY <1>2 DEF BeginSave
  <2> QED BY <1>1, <2>1, <2>2, DocumentRead
<1>3. CASE ~OwnerExpected(r.page)
  <2>1. saves' = saves \ {r} /\ AnswerSave(r, FALSE)
    BY <1>3 DEF BeginSave
  <2> QED BY <1>1, <2>1, SaveRefused
<1> QED BY <1>2, <1>3

\* What is written is the document as it is, with the section that was saved.
LEMMA MergedOK ==
  ASSUME PrefInv, NEW r \in saves, r.attempt > 0, rowWrites[r.as] = r.write
  PROVE  /\ r.as \in People /\ Merged(r) \in Documents
         /\ \A s \in Sections : Merged(r)[s] = IF s = r.section THEN r.value ELSE stored[r.as][s]
         /\ r.section = "mix" => Merged(r).enabledAt = stored[r.as].enabledAt
         /\ r.section = "automation" => Merged(r).enabledAt =
              IF NeedsNewBoundary(stored[r.as].automation, r.value) THEN Len(library[r.as]) + 1
              ELSE stored[r.as].enabledAt
<1>1. r \in SaveRows /\ SaveOK(r)
  BY DEF PrefInv, PrefTypeOK
<1>2. r.as \in People /\ r.read = stored[r.as] /\ r.read \in Documents /\ r.section \in Sections
  BY <1>1 DEF SaveOK, SaveRows
<1>3. library[r.as] \in Seq(BOOLEAN) /\ Len(library[r.as]) + 1 \in Nat
  BY <1>2 DEF PrefInv, PrefTypeOK
<1>4. CASE r.section = "mix"
  <2>1. r.value \in Mixes
    BY <1>1, <1>4 DEF SaveOK
  <2>2. Merged(r) = [r.read EXCEPT !.mix = r.value]
    BY <1>4 DEF Merged
  <2>3. Merged(r) \in Documents
    BY <1>2, <2>1, <2>2, Zenon DEF Documents
  <2>4. /\ Merged(r).mix = r.value /\ Merged(r).automation = r.read.automation
        /\ Merged(r).enabledAt = r.read.enabledAt
    BY <1>2, <2>2 DEF Documents
  <2> QED BY <1>2, <1>4, <2>3, <2>4 DEF Sections
<1>5. CASE r.section = "automation"
  <2> DEFINE at == IF NeedsNewBoundary(r.read.automation, r.value) THEN Now(r.as) ELSE r.read.enabledAt
  <2>1. r.value \in Automations
    BY <1>1, <1>5 DEF SaveOK
  <2>2. Merged(r) = [r.read EXCEPT !.automation = r.value, !.enabledAt = at]
    BY <1>5, Zenon DEF Merged
  <2>3. at \in Nat
    BY <1>2, <1>3 DEF Now, Documents
  <2>4. at = IF NeedsNewBoundary(stored[r.as].automation, r.value) THEN Len(library[r.as]) + 1
             ELSE stored[r.as].enabledAt
    BY <1>2 DEF Now
  <2> HIDE DEF at
  <2>5. Merged(r) \in Documents
    BY <1>2, <2>1, <2>2, <2>3, Zenon DEF Documents
  <2>6. /\ Merged(r).automation = r.value /\ Merged(r).mix = r.read.mix /\ Merged(r).enabledAt = at
    BY <1>2, <2>2 DEF Documents
  <2> QED BY <1>2, <1>5, <2>4, <2>5, <2>6 DEF Sections
<1> QED BY <1>2, <1>4, <1>5 DEF Sections

LEMMA CommitInv == ASSUME PrefInv, NEW r \in saves, CommitSave(r) PROVE PrefInv'
<1>1. UNCHANGED <<signedIn, pageOwner, activeOwner, library, prefEdits, prefSignIns>> /\ r.attempt > 0
  BY DEF CommitSave
<1>2. r \in SaveRows /\ SaveOK(r)
  BY DEF PrefInv, PrefTypeOK
<1>3. CASE rowWrites[r.as] # r.write
  <2>1. UNCHANGED <<stored, rowWrites, lastEdit>>
        /\ ((ReadDocument(r, r.as) /\ UNCHANGED cards) \/ (saves' = saves \ {r} /\ AnswerSave(r, FALSE)))
    BY <1>3 DEF CommitSave
  <2>2. r.as \in People /\ r.as = pageOwner[r.page]
    BY <1>1, <1>2 DEF SaveOK
  <2> QED BY <1>1, <2>1, <2>2, DocumentRead, SaveRefused
<1>4. CASE rowWrites[r.as] = r.write
  <2>1. PICK o : o = r.as
    OBVIOUS
  <2>2. PICK doc : doc = Merged(r)
    OBVIOUS
  <2>3. /\ o \in People /\ doc \in Documents
        /\ \A s \in Sections : doc[s] = IF s = r.section THEN r.value ELSE stored[o][s]
        /\ r.section = "mix" => doc.enabledAt = stored[o].enabledAt
        /\ r.section = "automation" => doc.enabledAt =
             IF NeedsNewBoundary(stored[o].automation, r.value) THEN Len(library[o]) + 1
             ELSE stored[o].enabledAt
    BY <1>1, <1>4, <2>1, <2>2, MergedOK
  <2>4. /\ stored' = [stored EXCEPT ![o] = doc]
        /\ rowWrites' = [rowWrites EXCEPT ![o] = rowWrites[o] + 1]
        /\ lastEdit' = [lastEdit EXCEPT ![o][r.section] = r.value]
        /\ saves' = saves \ {r} /\ AnswerSave(r, TRUE)
    BY <1>4, <2>1, <2>2 DEF CommitSave
  <2>5. o = pageOwner[r.page] /\ r.value.by = o /\ r.section \in Sections
        /\ r.page \in SettingsPages
        /\ r.value \in IF r.section = "mix" THEN Mixes ELSE Automations
    BY <1>1, <1>2, <2>1 DEF SaveOK, SaveRows
  <2>6. /\ cards' \in [SettingsPages -> [Sections -> CardRows]]
        /\ \A q \in SettingsPages : q # r.page => cards'[q] = cards[q]
    BY <1>2, <2>4, AnswerTyped DEF PrefInv
  <2>7. /\ stored' \in [People -> Documents] /\ stored'[o] = doc
        /\ \A q \in People : q # o => stored'[q] = stored[q]
        /\ rowWrites' \in [People -> Nat] /\ rowWrites'[o] = rowWrites[o] + 1
        /\ \A q \in People : q # o => rowWrites'[q] = rowWrites[q]
    BY <2>3, <2>4 DEF PrefInv, PrefTypeOK
  <2>8. /\ lastEdit' \in [People -> [automation : Automations, mix : Mixes]]
        /\ \A q \in People : q # o => lastEdit'[q] = lastEdit[q]
        /\ \A s \in Sections : lastEdit'[o][s] = IF s = r.section THEN r.value ELSE lastEdit[o][s]
    <3> DEFINE edit == [lastEdit[o] EXCEPT ![r.section] = r.value]
    <3>1. lastEdit[o] \in [automation : Automations, mix : Mixes]
      BY <2>3 DEF PrefInv, PrefTypeOK
    <3>2. edit \in [automation : Automations, mix : Mixes]
          /\ \A s \in Sections : edit[s] = IF s = r.section THEN r.value ELSE lastEdit[o][s]
      <4>1. CASE r.section = "mix"
        BY <2>5, <3>1, <4>1 DEF Sections
      <4>2. CASE r.section = "automation"
        BY <2>5, <3>1, <4>2 DEF Sections
      <4> QED BY <2>5, <4>1, <4>2 DEF Sections
    <3>3. lastEdit' = [lastEdit EXCEPT ![o] = edit]
      BY <2>4, Zenon
    <3> HIDE DEF edit
    <3> QED BY <2>3, <3>2, <3>3 DEF PrefInv, PrefTypeOK
  <2>9. PrefTypeOK'
    BY <1>1, <2>4, <2>6, <2>7, <2>8 DEF PrefInv, PrefTypeOK
  <2>10. PagesOK'
    BY <1>1, <2>5, <2>6, <2>3, PeopleAssumption DEF PrefInv, PagesOK
  <2>11. ASSUME NEW t \in saves' PROVE SaveOK(t)'
    <3>1. t \in saves /\ t \in SaveRows /\ SaveOK(t)
      BY <2>4 DEF PrefInv, PrefTypeOK
    <3>2. t.attempt > 0 => /\ t.as \in People /\ t.write \in Nat /\ rowWrites[t.as] \in Nat
      BY <3>1 DEF SaveOK, SaveRows, PrefInv, PrefTypeOK
    <3> QED BY <1>1, <2>7, <3>1, <3>2 DEF SaveOK
  <2>12. ASSUME NEW q \in People PROVE StoredOK(q)'
    <3>1. StoredOK(q)
      BY DEF PrefInv
    <3>2. CASE q # o
      BY <1>1, <2>7, <2>8, <3>1, <3>2 DEF StoredOK
    <3>3. CASE q = o
      <4>1. /\ doc.automation = IF r.section = "automation" THEN r.value ELSE stored[o].automation
            /\ doc.mix = IF r.section = "mix" THEN r.value ELSE stored[o].mix
            /\ lastEdit'[o].automation = IF r.section = "automation" THEN r.value ELSE lastEdit[o].automation
            /\ lastEdit'[o].mix = IF r.section = "mix" THEN r.value ELSE lastEdit[o].mix
        BY <2>3, <2>8 DEF Sections
      <4>2. library[o] \in Seq(BOOLEAN) /\ library' = library /\ Len(library[o]) \in Nat
            /\ DOMAIN library[o] = 1..Len(library[o])
        BY <1>1, <2>3 DEF PrefInv, PrefTypeOK
      <4>3. doc.automation.on /\ doc.automation.scope = "new" =>
              /\ doc.enabledAt # 0
              /\ \A i \in DOMAIN library[o] : i >= doc.enabledAt => library[o][i]
        <5>1. CASE r.section = "mix"
          BY <2>3, <3>1, <3>3, <4>1, <5>1 DEF StoredOK
        <5>2. CASE r.section = "automation" /\ NeedsNewBoundary(stored[o].automation, r.value)
          BY <2>3, <4>2, <5>2
        <5>3. CASE r.section = "automation" /\ ~NeedsNewBoundary(stored[o].automation, r.value)
          BY <2>3, <3>1, <3>3, <4>1, <5>3 DEF StoredOK, NeedsNewBoundary
        <5> QED BY <2>5, <5>1, <5>2, <5>3 DEF Sections
      <4> QED BY <2>5, <2>7, <3>1, <3>3, <4>1, <4>2, <4>3 DEF StoredOK
    <3> QED BY <3>2, <3>3
  <2> QED BY <2>9, <2>10, <2>11, <2>12 DEF PrefInv
<1> QED BY <1>3, <1>4

\* A game is marked with what the automation is when it comes.
LEMMA ImportInv == ASSUME PrefInv, NEW o \in People, ImportGame(o) PROVE PrefInv'
<1>1. UNCHANGED <<signedIn, pageOwner, activeOwner, cards, saves, stored, rowWrites, lastEdit, prefEdits,
                  prefSignIns>>
  BY DEF ImportGame
<1>2. PICK games : games = Append(library[o], stored[o].automation.on)
  OBVIOUS
<1>3. library' = [library EXCEPT ![o] = games]
  BY <1>2 DEF ImportGame
<1>4. library[o] \in Seq(BOOLEAN) /\ stored[o].automation.on \in BOOLEAN
  BY DEF PrefInv, PrefTypeOK, Documents, Automations
<1>5. /\ games \in Seq(BOOLEAN) /\ Len(library[o]) \in Nat /\ DOMAIN library[o] = 1..Len(library[o])
      /\ DOMAIN games = 1..(Len(library[o]) + 1)
      /\ \A i \in DOMAIN library[o] : games[i] = library[o][i]
      /\ games[Len(library[o]) + 1] = stored[o].automation.on
  BY <1>2, <1>4, Appended
<1>6. library' \in [People -> Seq(BOOLEAN)] /\ library'[o] = games
      /\ \A q \in People : q # o => library'[q] = library[q]
  BY <1>3, <1>5 DEF PrefInv, PrefTypeOK
<1>7. PrefTypeOK'
  BY <1>1, <1>6 DEF PrefInv, PrefTypeOK
<1>8. PagesOK' /\ \A r \in saves : SaveOK(r)'
  BY <1>1 DEF PrefInv, PagesOK, SaveOK
<1>9. ASSUME NEW q \in People PROVE StoredOK(q)'
  <2>1. StoredOK(q)
    BY DEF PrefInv
  <2>2. CASE q # o
    BY <1>1, <1>6, <2>1, <2>2 DEF StoredOK
  <2>3. CASE q = o
    <3>1. stored[o].automation.on /\ stored[o].automation.scope = "new" =>
            \A i \in DOMAIN games : i >= stored[o].enabledAt => games[i]
      <4>1. \A i \in DOMAIN games : i \in DOMAIN library[o] \/ i = Len(library[o]) + 1
        BY <1>5
      <4>2. stored[o].automation.on => games[Len(library[o]) + 1]
        BY <1>5
      <4>3. stored[o].automation.on /\ stored[o].automation.scope = "new" =>
              \A i \in DOMAIN library[o] : i >= stored[o].enabledAt => games[i]
        BY <1>5, <2>1, <2>3 DEF StoredOK
      <4> QED BY <4>1, <4>2, <4>3
    <3> QED BY <1>1, <1>6, <2>1, <2>3, <3>1 DEF StoredOK
  <2> QED BY <2>2, <2>3
<1> QED BY <1>1, <1>7, <1>8, <1>9 DEF PrefInv

LEMMA PrefNexts == PrefInv /\ [PrefNext]_prefVars => PrefInv'
<1> SUFFICES ASSUME PrefInv, [PrefNext]_prefVars PROVE PrefInv'
  OBVIOUS
<1>1. ASSUME NEW o \in People, SignInAs(o) \/ ImportGame(o) PROVE PrefInv'
  BY <1>1, SignsInInv, ImportInv
<1>2. ASSUME NEW p \in SettingsPages, OpenSettings(p) \/ NoticeSession(p) PROVE PrefInv'
  BY <1>2, OpenInv
<1>3. ASSUME NEW p \in SettingsPages, NEW s \in Sections, LoadCard(p, s) \/ SaveCard(p, s) PROVE PrefInv'
  BY <1>3, LoadInv, SaveCardInv
<1>4. ASSUME NEW r \in saves, BeginSave(r) \/ CommitSave(r) PROVE PrefInv'
  BY <1>4, BeginsInv, CommitInv
<1>5. CASE UNCHANGED prefVars
  <2>1. PrefTypeOK'
    BY <1>5 DEF PrefInv, PrefTypeOK, prefVars
  <2> QED BY <1>5, <2>1, PageStep DEF prefVars
<1> QED BY Zenon, <1>1, <1>2, <1>3, <1>4, <1>5 DEF PrefNext

\* What the invariant says of the settings.
LEMMA SettingsFollow == PrefInv => PreferencesHold
<1> SUFFICES ASSUME PrefInv PROVE PreferencesHold
  OBVIOUS
<1>1. DOMAIN stored = People
  BY DEF PrefInv, PrefTypeOK
<1>2. OwnsWrites /\ SectionsKept
  BY <1>1 DEF PrefInv, StoredOK, OwnsWrites, SectionsKept, Sections
<1>3. BoundaryIsSet
  BY <1>1 DEF PrefInv, StoredOK, BoundaryIsSet
<1>4. BoundaryIsFresh
  BY <1>1 DEF PrefInv, StoredOK, BoundaryIsFresh, AutoEligible
<1> QED BY <1>2, <1>3, <1>4 DEF PreferencesHold

(* The settings of an account are what its pages saved, whatever tabs, sessions and *)
(* transactions overlap; and no game from before its automation is paid for.         *)
THEOREM PreferencesKept == PrefSpec => []PreferencesHold
BY PrefStarts, PrefNexts, SettingsFollow, PTL DEF PrefSpec

-----------------------------------------------------------------------------
(* The sign-out of the coach.                                              *)

PageRows == [at : {"closed", "asking", "told", "game", "locked", "offline game", "leaving", "clearing"},
             owns : BOOLEAN, blocked : BOOLEAN]
OperationRows == [by : Pages, op : {"allow", "save", "wipe", "gone"}, signOut : Nat]

SignOutTypeOK ==
  /\ session \in BOOLEAN /\ page \in [Pages -> PageRows]
  /\ events \in [Pages -> SUBSET {"access", "block"}]
  /\ granted \in BOOLEAN /\ operations \in Seq(OperationRows)
  /\ checkpoint \in BOOLEAN /\ tombstone \in BOOLEAN /\ signedOut \in BOOLEAN /\ stale \in BOOLEAN
  /\ visits \in Nat /\ signOuts \in Nat

\* A request is of a sign-out so far, and none that lifts the block is behind the
\* clear of the present one.
OrderOK(ops, open, last) ==
  /\ \A i \in DOMAIN ops : ops[i].signOut <= last
  /\ ~open => \A i, j \in DOMAIN ops :
       i < j /\ ops[i].op = "wipe" /\ ops[i].signOut = last => ops[j].op # "allow"

\* After a sign-out the device is empty and blocked, and nothing that waits lifts the block.
ClearedOK ==
  signedOut => /\ ~session
               /\ ~stale => /\ ~checkpoint /\ tombstone
                            /\ \A i \in DOMAIN operations : operations[i].op # "allow"

SignOutInv ==
  SignOutTypeOK /\ OrderOK(operations, session \/ stale, signOuts) /\ ClearedOK /\ (stale => ~session)

LEMMA OperationRow ==
  ASSUME SignOutTypeOK
  PROVE  \A i \in DOMAIN operations : operations[i] \in OperationRows /\ operations[i].signOut \in Nat
<1>1. operations \in Seq(OperationRows)
  BY DEF SignOutTypeOK
<1>2. \A i \in DOMAIN operations : operations[i] \in OperationRows
  BY <1>1, SeqRows
<1>3. \A row \in OperationRows : row.signOut \in Nat
  BY DEF OperationRows
<1> QED BY <1>2, <1>3

LEMMA SignOutStarts == SignOutInit => SignOutInv
<1> SUFFICES ASSUME SignOutInit PROVE SignOutInv
  OBVIOUS
<1>1. <<>> \in Seq(OperationRows) /\ DOMAIN <<>> = {}
  OBVIOUS
<1>2. Closed \in PageRows
  BY DEF Closed, PageRows
<1> QED BY <1>1, <1>2 DEF SignOutInit, SignOutInv, SignOutTypeOK, OrderOK, ClearedOK

\* A page moves, and asks for nothing.
LEMMA PageMoves ==
  ASSUME SignOutInv, SignOutTypeOK', UNCHANGED <<session, operations, checkpoint, tombstone, signedOut, stale, signOuts>>
  PROVE  SignOutInv'
BY DEF SignOutInv, OrderOK, ClearedOK

\* One page is written.
LEMMA PageWritten ==
  ASSUME SignOutInv, NEW t \in Pages, NEW row \in PageRows, page' = [page EXCEPT ![t] = row]
  PROVE  page' \in [Pages -> PageRows]
BY DEF SignOutInv, SignOutTypeOK

LEMMA PageRow ==
  ASSUME SignOutInv, NEW t \in Pages
  PROVE  page[t] \in PageRows /\ Closed \in PageRows
BY DEF SignOutInv, SignOutTypeOK, Closed, PageRows

LEMMA OpensInv ==
  ASSUME SignOutInv, NEW t \in Pages, OpenPlay(t) \/ OpenOffline(t)
  PROVE  SignOutInv'
<1>1. \E at \in {"asking", "offline game"} : page' = [page EXCEPT ![t] = [Closed EXCEPT !.at = at]]
  BY DEF OpenPlay, OpenOffline
<1>2. \A at \in {"asking", "offline game"} : [Closed EXCEPT !.at = at] \in PageRows
  BY DEF Closed, PageRows
<1>3. page' \in [Pages -> PageRows]
  BY <1>1, <1>2, PageWritten
<1>4. /\ visits \in Nat /\ visits' = visits + 1
      /\ UNCHANGED <<session, events, granted, operations, checkpoint, tombstone, signedOut, stale, signOuts>>
  BY DEF OpenPlay, OpenOffline, SignOutInv, SignOutTypeOK
<1>5. SignOutTypeOK'
  BY <1>3, <1>4 DEF SignOutInv, SignOutTypeOK
<1> QED BY <1>4, <1>5, PageMoves

LEMMA SessionReadInv ==
  ASSUME SignOutInv, NEW t \in Pages, SessionRead(t)
  PROVE  SignOutInv'
<1> DEFINE row == [page[t] EXCEPT !.owns = session,
                                  !.at = IF page[t].at = "asking" THEN "told" ELSE page[t].at]
<1>1. row \in PageRows
  <2>1. session \in BOOLEAN
    BY DEF SignOutInv, SignOutTypeOK
  <2> QED BY <2>1, PageRow DEF PageRows
<1>2. page' = [page EXCEPT ![t] = row]
  BY Zenon DEF SessionRead
<1> HIDE DEF row
<1>3. page' \in [Pages -> PageRows]
  BY <1>1, <1>2, PageWritten
<1>4. UNCHANGED <<session, events, granted, operations, checkpoint, tombstone, signedOut, stale, visits, signOuts>>
  BY DEF SessionRead
<1>5. SignOutTypeOK'
  BY <1>3, <1>4 DEF SignOutInv, SignOutTypeOK
<1> QED BY <1>4, <1>5, PageMoves

LEMMA LockInv ==
  ASSUME SignOutInv, NEW t \in Pages, LockGame(t) \/ Blocked(t)
  PROVE  SignOutInv'
<1>1. [page[t] EXCEPT !.at = "locked"] \in PageRows /\ [page[t] EXCEPT !.blocked = TRUE] \in PageRows
  BY PageRow DEF PageRows
<1>2. \/ page' = [page EXCEPT ![t] = [page[t] EXCEPT !.at = "locked"]]
      \/ page' = [page EXCEPT ![t] = [page[t] EXCEPT !.blocked = TRUE]]
  BY DEF LockGame, Blocked, SignOutInv, SignOutTypeOK
<1>3. page' \in [Pages -> PageRows]
  BY <1>1, <1>2, PageWritten
<1>4. /\ events' \in [Pages -> SUBSET {"access", "block"}]
      /\ UNCHANGED <<session, granted, operations, checkpoint, tombstone, signedOut, stale, visits, signOuts>>
  BY DEF LockGame, Blocked, SignOutInv, SignOutTypeOK
<1>5. SignOutTypeOK'
  BY <1>3, <1>4 DEF SignOutInv, SignOutTypeOK
<1> QED BY <1>4, <1>5, PageMoves

\* A request is made; one that lifts the block behind the clear of the present
\* sign-out is what the history records.
LEMMA RequestMade ==
  ASSUME SignOutInv, NEW t \in Pages, NEW op \in {"allow", "save", "wipe"},
         operations' = Requested(t, op),
         stale' = (stale \/ (op = "allow" /\ ~session /\ ClearAsked)),
         UNCHANGED <<session, checkpoint, tombstone, signedOut, signOuts>>,
         page' \in [Pages -> PageRows], events' \in [Pages -> SUBSET {"access", "block"}],
         granted' \in BOOLEAN, visits' = visits
  PROVE  SignOutInv'
<1>1. PICK o : o = [by |-> t, op |-> op, signOut |-> signOuts]
  OBVIOUS
<1>2. o \in OperationRows /\ o.op = op /\ o.signOut = signOuts
  BY <1>1 DEF OperationRows, SignOutInv, SignOutTypeOK
<1>3. operations \in Seq(OperationRows) /\ signOuts \in Nat
  BY DEF SignOutInv, SignOutTypeOK
<1>4. /\ operations' \in Seq(OperationRows) /\ Len(operations) \in Nat
      /\ DOMAIN operations = 1..Len(operations) /\ DOMAIN operations' = 1..(Len(operations) + 1)
      /\ \A i \in DOMAIN operations : operations'[i] = operations[i]
      /\ operations'[Len(operations) + 1] = o
  BY <1>1, <1>2, <1>3, Appended DEF Requested
<1>5. \A i \in DOMAIN operations' : i \in DOMAIN operations \/ i = Len(operations) + 1
  BY <1>4
<1>6. stale' \in BOOLEAN /\ (stale' => ~session') /\ (stale => stale')
  BY DEF SignOutInv, SignOutTypeOK
<1>7. OrderOK(operations, session \/ stale, signOuts)'
  <2>1. \A i \in DOMAIN operations' : operations'[i].signOut <= signOuts
    BY <1>2, <1>3, <1>4, <1>5 DEF SignOutInv, OrderOK
  <2>2. ASSUME ~session, ~stale', NEW i \in DOMAIN operations', NEW j \in DOMAIN operations',
               i < j, operations'[i].op = "wipe", operations'[i].signOut = signOuts
        PROVE  operations'[j].op # "allow"
    <3>1. i \in DOMAIN operations /\ operations'[i] = operations[i]
      BY <1>4, <2>2
    <3>2. CASE j \in DOMAIN operations
      BY <1>4, <1>6, <2>2, <3>1, <3>2 DEF SignOutInv, OrderOK
    <3>3. CASE j = Len(operations) + 1
      <4>1. ClearAsked
        BY <2>2, <3>1 DEF ClearAsked
      <4> QED BY <1>2, <1>4, <2>2, <3>3, <4>1
    <3> QED BY <1>5, <3>2, <3>3
  <2> QED BY <2>1, <2>2 DEF OrderOK
<1>8. ClearedOK'
  <2>1. ASSUME signedOut, ~stale' PROVE op # "allow"
    BY <2>1 DEF ClearAsked, SignOutInv, ClearedOK
  <2>2. ASSUME signedOut, ~stale', NEW i \in DOMAIN operations' PROVE operations'[i].op # "allow"
    BY <1>2, <1>4, <1>5, <1>6, <2>1, <2>2 DEF SignOutInv, ClearedOK
  <2> QED BY <1>6, <2>2 DEF SignOutInv, ClearedOK
<1>9. SignOutTypeOK'
  BY <1>4, <1>6 DEF SignOutInv, SignOutTypeOK
<1> QED BY <1>6, <1>7, <1>8, <1>9 DEF SignOutInv

LEMMA MountInv ==
  ASSUME SignOutInv, NEW t \in Pages, MountGame(t)
  PROVE  SignOutInv'
<1> DEFINE row == [page[t] EXCEPT !.at = "game", !.blocked = FALSE]
<1>1. row \in PageRows
  BY PageRow DEF PageRows
<1>2. page' = [page EXCEPT ![t] = row]
  BY Zenon DEF MountGame
<1> HIDE DEF row
<1>3. page' \in [Pages -> PageRows]
  BY <1>1, <1>2, PageWritten
<1>4. operations' = Requested(t, "allow") /\ granted' = TRUE
      /\ stale' = (stale \/ (~session /\ ClearAsked))
      /\ UNCHANGED <<session, events, checkpoint, tombstone, signedOut, visits, signOuts>>
  BY DEF MountGame
<1>5. events' \in [Pages -> SUBSET {"access", "block"}]
  BY <1>4 DEF SignOutInv, SignOutTypeOK
<1> QED BY <1>3, <1>4, <1>5, RequestMade

LEMMA SaveCheckpointInv ==
  ASSUME SignOutInv, NEW t \in Pages, SaveCheckpoint(t)
  PROVE  SignOutInv'
<1>1. page' \in [Pages -> PageRows] /\ events' \in [Pages -> SUBSET {"access", "block"}]
      /\ granted' \in BOOLEAN
  BY DEF SaveCheckpoint, SignOutInv, SignOutTypeOK
<1>2. stale' = stale /\ stale \in BOOLEAN
  BY DEF SaveCheckpoint, SignOutInv, SignOutTypeOK
<1> QED BY <1>1, <1>2, RequestMade DEF SaveCheckpoint

LEMMA ClearInv ==
  ASSUME SignOutInv, NEW t \in Pages, ClearLocal(t)
  PROVE  SignOutInv'
<1> DEFINE row == [page[t] EXCEPT !.at = "clearing", !.blocked = TRUE]
<1>1. row \in PageRows
  BY PageRow DEF PageRows
<1>2. page' = [page EXCEPT ![t] = row]
  BY Zenon DEF ClearLocal
<1> HIDE DEF row
<1>3. page' \in [Pages -> PageRows]
  BY <1>1, <1>2, PageWritten
<1>4. events' \in [Pages -> SUBSET {"access", "block"}]
  BY DEF ClearLocal, SignOutInv, SignOutTypeOK
<1>5. operations' = Requested(t, "wipe") /\ granted' = FALSE
      /\ UNCHANGED <<session, checkpoint, tombstone, signedOut, stale, visits, signOuts>>
  BY DEF ClearLocal
<1>6. stale' = stale /\ stale \in BOOLEAN
  BY <1>5 DEF SignOutInv, SignOutTypeOK
<1> QED BY <1>3, <1>4, <1>5, <1>6, RequestMade

\* Of a closed tab, the requests that wait are served no more.
LEMMA CloseInv ==
  ASSUME SignOutInv, NEW t \in Pages, CloseTab(t)
  PROVE  SignOutInv'
<1>1. operations \in Seq(OperationRows)
  BY DEF SignOutInv, SignOutTypeOK
<1>2. Len(operations) \in Nat /\ DOMAIN operations = 1..Len(operations)
      /\ \A i \in DOMAIN operations : operations[i] \in OperationRows
  BY <1>1, LenProperties, ElementOfSeq
<1> DEFINE gone(i) == [operations[i] EXCEPT !.op = IF operations[i].by = t THEN "gone" ELSE operations[i].op]
<1>3. ASSUME NEW i \in DOMAIN operations
      PROVE  /\ gone(i) \in OperationRows /\ gone(i).signOut = operations[i].signOut
             /\ gone(i).op = "allow" => operations[i].op = "allow"
             /\ gone(i).op = "wipe" => operations[i].op = "wipe"
  BY <1>2 DEF OperationRows
<1>4. operations' = [i \in 1..Len(operations) |-> gone(i)]
  BY <1>2 DEF CloseTab
<1> HIDE DEF gone
<1>5. operations' \in Seq(OperationRows) /\ DOMAIN operations' = DOMAIN operations
      /\ \A i \in DOMAIN operations : operations'[i] = gone(i)
  BY <1>2, <1>3, <1>4, SeqDef
<1>6. UNCHANGED <<session, granted, checkpoint, tombstone, signedOut, stale, visits, signOuts>>
  BY DEF CloseTab
<1>7. page' \in [Pages -> PageRows] /\ events' \in [Pages -> SUBSET {"access", "block"}]
  BY PageRow, PageWritten DEF CloseTab, SignOutInv, SignOutTypeOK
<1>8. SignOutTypeOK'
  BY <1>5, <1>6, <1>7 DEF SignOutInv, SignOutTypeOK
<1>9. OrderOK(operations, session \/ stale, signOuts)'
  BY <1>3, <1>5, <1>6 DEF SignOutInv, OrderOK
<1>10. ClearedOK'
  BY <1>3, <1>5, <1>6 DEF SignOutInv, ClearedOK
<1> QED BY <1>6, <1>8, <1>9, <1>10 DEF SignOutInv

\* The session ends, and every request so far is of an earlier sign-out.
LEMMA RevokeInv ==
  ASSUME SignOutInv, NEW t \in Pages, Revoke(t)
  PROVE  SignOutInv'
<1>1. [page[t] EXCEPT !.at = "leaving"] \in PageRows
  BY PageRow DEF PageRows
<1>2. page' \in [Pages -> PageRows]
  BY <1>1, PageWritten DEF Revoke
<1>3. /\ session /\ session' = FALSE /\ signOuts' = signOuts + 1 /\ signOuts \in Nat
      /\ UNCHANGED <<events, granted, operations, checkpoint, tombstone, signedOut, stale, visits>>
  BY DEF Revoke, SignOutInv, SignOutTypeOK
<1>4. SignOutTypeOK'
  <2>1. signOuts' \in Nat
    BY <1>3
  <2>2. session' \in BOOLEAN
    BY <1>3
  <2> QED BY <1>2, <1>3, <2>1, <2>2 DEF SignOutInv, SignOutTypeOK
<1>5. \A i \in DOMAIN operations : operations[i].signOut \in Nat
  BY OperationRow DEF SignOutInv
<1>6. OrderOK(operations, session \/ stale, signOuts)'
  BY <1>3, <1>5 DEF SignOutInv, OrderOK
<1>7. ClearedOK'
  BY <1>3 DEF SignOutInv, ClearedOK
<1> QED BY <1>3, <1>4, <1>6, <1>7 DEF SignOutInv

LEMMA SignInInv == ASSUME SignOutInv, SignIn PROVE SignOutInv'
<1>1. SignOutTypeOK'
  BY DEF SignIn, SignOutInv, SignOutTypeOK
<1> QED BY <1>1 DEF SignIn, SignOutInv, OrderOK, ClearedOK

\* A wipe of the last sign-out leaves no request behind it that lifts the block.
LEMMA ServedInv == ASSUME SignOutInv, StoreOperation PROVE SignOutInv'
<1>1. operations \in Seq(OperationRows) /\ operations # <<>> /\ operations' = Tail(operations)
  BY DEF StoreOperation, SignOutInv, SignOutTypeOK
<1>2. PICK o : o = Head(operations)
  OBVIOUS
<1>3. /\ operations' \in Seq(OperationRows) /\ o \in OperationRows /\ o = operations[1]
      /\ 1 \in DOMAIN operations
      /\ Len(operations) \in Nat /\ DOMAIN operations = 1..Len(operations)
      /\ DOMAIN operations' = 1..(Len(operations) - 1)
      /\ \A i \in DOMAIN operations' : operations'[i] = operations[i + 1] /\ i + 1 \in DOMAIN operations
  BY <1>1, <1>2, Shifted
<1>4. \A i, j \in DOMAIN operations' : i < j => i + 1 < j + 1
  BY <1>3
<1>5. UNCHANGED <<session, events, granted, stale, visits, signOuts>>
  BY DEF StoreOperation
<1>6. OrderOK(operations, session \/ stale, signOuts)'
  BY <1>3, <1>4, <1>5 DEF SignOutInv, OrderOK
<1>7. CASE o.op = "allow"
  <2>1. tombstone' = FALSE /\ UNCHANGED <<checkpoint, signedOut, stale, page>>
    BY <1>2, <1>7 DEF StoreOperation
  <2>2. ~signedOut \/ stale
    BY <1>3, <1>7 DEF SignOutInv, ClearedOK
  <2>3. ClearedOK'
    BY <1>5, <2>1, <2>2 DEF SignOutInv, ClearedOK
  <2>4. SignOutTypeOK'
    BY <1>3, <1>5, <2>1 DEF SignOutInv, SignOutTypeOK
  <2>5. stale' => ~session'
    BY <1>5 DEF SignOutInv
  <2> QED BY <1>6, <2>3, <2>4, <2>5 DEF SignOutInv
<1>8. CASE o.op = "gone"
  <2>1. UNCHANGED <<checkpoint, tombstone, signedOut, stale, page>>
    BY <1>2, <1>8 DEF StoreOperation
  <2> QED BY <1>3, <1>5, <1>6, <2>1 DEF SignOutInv, SignOutTypeOK, ClearedOK
<1>9. CASE o.op = "save"
  <2>1. checkpoint' = (checkpoint \/ MaySave(o.by)) /\ UNCHANGED <<tombstone, signedOut, stale, page>>
    BY <1>2, <1>9 DEF StoreOperation
  <2>2. tombstone => checkpoint' = checkpoint
    BY <2>1 DEF MaySave, SignOutInv, SignOutTypeOK
  <2>3. checkpoint' \in BOOLEAN
    BY <2>1
  <2> QED BY <1>3, <1>5, <1>6, <2>1, <2>2, <2>3 DEF SignOutInv, SignOutTypeOK, ClearedOK
<1>10. CASE o.op = "wipe"
  <2>1. checkpoint' = FALSE /\ tombstone' = TRUE /\ signedOut' = (~session /\ o.signOut = signOuts)
        /\ page' = [page EXCEPT ![o.by] = Closed]
    BY <1>2, <1>10 DEF StoreOperation
  <2>2. signedOut' /\ ~stale => \A i \in DOMAIN operations' : operations'[i].op # "allow"
    <3>1. SUFFICES ASSUME ~session, ~stale, o.signOut = signOuts, NEW i \in DOMAIN operations'
                   PROVE  operations'[i].op # "allow"
      BY <2>1
    <3>2. i + 1 \in DOMAIN operations /\ 1 < i + 1 /\ operations'[i] = operations[i + 1]
      BY <1>3
    <3> QED BY <1>3, <1>10, <3>1, <3>2 DEF SignOutInv, OrderOK
  <2>3. page' \in [Pages -> PageRows]
    BY <1>3, <2>1, PageRow, PageWritten DEF OperationRows
  <2>4. signedOut' \in BOOLEAN /\ (signedOut' => ~session)
    BY <2>1
  <2> QED BY <1>3, <1>5, <1>6, <2>1, <2>2, <2>3, <2>4 DEF SignOutInv, SignOutTypeOK, ClearedOK
<1> QED BY <1>3, <1>7, <1>8, <1>9, <1>10 DEF OperationRows

LEMMA SignOutNexts == SignOutInv /\ [SignOutNext]_signOutVars => SignOutInv'
<1> SUFFICES ASSUME SignOutInv, [SignOutNext]_signOutVars PROVE SignOutInv'
  OBVIOUS
<1>1. ASSUME NEW t \in Pages,
             \/ OpenPlay(t) \/ OpenOffline(t) \/ SessionRead(t) \/ MountGame(t) \/ LockGame(t)
             \/ Blocked(t) \/ SaveCheckpoint(t) \/ CloseTab(t) \/ Revoke(t) \/ ClearLocal(t)
      PROVE  SignOutInv'
  BY <1>1, OpensInv, SessionReadInv, MountInv, LockInv, SaveCheckpointInv, CloseInv, RevokeInv, ClearInv
<1>2. CASE StoreOperation \/ SignIn
  BY <1>2, ServedInv, SignInInv
<1>3. CASE UNCHANGED signOutVars
  <2>1. SignOutTypeOK'
    BY <1>3 DEF SignOutInv, SignOutTypeOK, signOutVars
  <2> QED BY <1>3, <2>1, PageMoves DEF signOutVars
<1> QED BY Zenon, <1>1, <1>2, <1>3 DEF SignOutNext

(* Once a sign-out is finished, the device has no checkpoint of the owner before the *)
(* owner signs in again, for any tabs and any requests that wait; but for a tab that   *)
(* mounts its game, on an answer from before, after the store was to be cleared.       *)
THEOREM CoachCleared == SignOutSpec => []SignedOutIsCleared
<1>1. SignOutInv => SignedOutIsCleared
  BY DEF SignOutInv, ClearedOK, SignedOutIsCleared
<1> QED BY SignOutStarts, SignOutNexts, <1>1, PTL DEF SignOutSpec

-----------------------------------------------------------------------------
(* The requests that the tabs keep track of.                               *)

TrackedStatuses == {"confirming", "planning", "running"}
BatchStatuses == {"none", "planning", "running", "ended"}
CallRows == [tab : Tabs, role : {"asker", "poll", "detached"}, kind : {"get", "post"}, of : Requests,
             attempt : Nat, at : {"sent", "served"},
             saw : {"nothing", "error"} \cup BatchStatuses, resends : BOOLEAN]

RequestsTypeOK ==
  /\ DOMAIN tracked \in SUBSET Requests
  /\ tracked \in [DOMAIN tracked -> TrackedStatuses]
  /\ asked \in [Requests -> Selections \cup {NotAsked}]
  /\ batch \in [Requests -> BatchStatuses]
  /\ calls \in SUBSET CallRows
  /\ told \in SUBSET Requests /\ refused \in SUBSET Requests
  /\ begun \in Nat /\ losses \in Nat

\* What the storage has, a call is about and the service knows was asked for, and whatever
\* was asked for is kept until the user hears of its end.
AskedKept ==
  /\ \A r \in DOMAIN tracked : asked[r] # NotAsked
  /\ \A c \in calls : asked[c.of] # NotAsked
  /\ \A r \in Requests : batch[r] # "none" => asked[r] # NotAsked
  /\ \A r \in Requests : asked[r] # NotAsked => r \in told \cup DOMAIN tracked \cup refused

RequestsInv == RequestsTypeOK /\ AskedKept /\ AskedOnce

LEMMA RequestsStart == RequestsInit => RequestsInv
BY DEF RequestsInit, RequestsInv, RequestsTypeOK, AskedKept, AskedOnce, BatchStatuses

\* What is stored of a request, and no other.
LEMMA Stored ==
  ASSUME NEW r, NEW status
  PROVE  /\ DOMAIN WithStatus(r, status) = DOMAIN tracked \cup {r}
         /\ WithStatus(r, status)[r] = status
         /\ \A x \in DOMAIN tracked \ {r} : WithStatus(r, status)[x] = tracked[x]
         /\ DOMAIN Without(r) = DOMAIN tracked \ {r}
         /\ \A x \in DOMAIN tracked \ {r} : Without(r)[x] = tracked[x]
BY DEF WithStatus, Without

LEMMA StoredTyped ==
  ASSUME RequestsTypeOK, NEW r \in Requests, NEW status \in TrackedStatuses
  PROVE  /\ WithStatus(r, status) \in [DOMAIN tracked \cup {r} -> TrackedStatuses]
         /\ Without(r) \in [DOMAIN tracked \ {r} -> TrackedStatuses]
BY DEF RequestsTypeOK, WithStatus, Without

LEMMA CallTyped ==
  ASSUME NEW t \in Tabs, NEW role \in {"asker", "poll", "detached"}, NEW kind \in {"get", "post"},
         NEW r \in Requests
  PROVE  Call(t, role, kind, r) \in CallRows /\ Call(t, role, kind, r).of = r
BY DEF Call, CallRows

\* The calls change, and the storage does not.
LEMMA CallsChange ==
  ASSUME RequestsInv, calls' \in SUBSET CallRows, \A c \in calls' : asked[c.of] # NotAsked,
         batch' \in [Requests -> BatchStatuses],
         \A r \in Requests : batch'[r] # "none" => asked[r] # NotAsked,
         UNCHANGED <<tracked, asked, told, refused>>, begun' \in Nat, losses' \in Nat
  PROVE  RequestsInv'
BY DEF RequestsInv, RequestsTypeOK, AskedKept, AskedOnce

\* A request is no longer kept, once it was told or refused.
LEMMA Forgotten ==
  ASSUME RequestsInv, NEW r \in Requests, asked[r] # NotAsked, tracked' = Without(r),
         \/ told' = told \cup {r} /\ refused' = refused
         \/ told' = told /\ refused' = refused \cup {r},
         calls' \in SUBSET CallRows, \A c \in calls' : asked[c.of] # NotAsked,
         UNCHANGED <<asked, batch, begun, losses>>
  PROVE  RequestsInv'
<1>1. /\ DOMAIN tracked' = DOMAIN tracked \ {r}
      /\ \A x \in DOMAIN tracked \ {r} : tracked'[x] = tracked[x]
  BY Stored
<1>2. tracked' \in [DOMAIN tracked' -> TrackedStatuses]
  BY <1>1, StoredTyped DEF RequestsInv, TrackedStatuses
<1>3. RequestsTypeOK'
  BY <1>1, <1>2 DEF RequestsInv, RequestsTypeOK
<1>4. AskedKept'
  BY <1>1 DEF RequestsInv, RequestsTypeOK, AskedKept
<1>5. AskedOnce'
  BY <1>1 DEF RequestsInv, AskedOnce
<1> QED BY <1>3, <1>4, <1>5 DEF RequestsInv

LEMMA AskInv ==
  ASSUME RequestsInv, NEW t \in Tabs, NEW s \in Selections, Ask(t, s)
  PROVE  RequestsInv'
<1>1. begun' \in Nat /\ UNCHANGED <<batch, told, refused, losses>>
  BY DEF Ask, BeginsCall, RequestsInv, RequestsTypeOK
<1>2. CASE Unconfirmed(s) # {}
  <2>1. PICK r \in Unconfirmed(s) : calls' = calls \cup {Call(t, "asker", "get", r)}
    BY <1>2 DEF Ask
  <2>2. r \in Requests /\ asked[r] # NotAsked
    BY <2>1 DEF Unconfirmed, RequestsInv, RequestsTypeOK, AskedKept
  <2>3. calls' \in SUBSET CallRows /\ \A c \in calls' : asked[c.of] # NotAsked
    BY <2>1, <2>2, CallTyped DEF RequestsInv, RequestsTypeOK, AskedKept
  <2>4. UNCHANGED <<tracked, asked>>
    BY <1>2 DEF Ask
  <2> QED BY <1>1, <2>3, <2>4, CallsChange DEF RequestsInv, RequestsTypeOK, AskedKept
<1>3. CASE Unconfirmed(s) = {}
  <2>1. PICK r \in Requests :
          /\ asked[r] = NotAsked /\ asked' = [asked EXCEPT ![r] = s]
          /\ tracked' = WithStatus(r, "confirming")
          /\ calls' = calls \cup {Call(t, "asker", "post", r)}
    BY <1>3 DEF Ask
  <2>2. s # NotAsked
    BY SelectionsAssumption
  <2>3. /\ r \notin DOMAIN tracked
        /\ DOMAIN tracked' = DOMAIN tracked \cup {r} /\ tracked'[r] = "confirming"
        /\ \A x \in DOMAIN tracked : x # r /\ tracked'[x] = tracked[x]
    <3>1. r \notin DOMAIN tracked
      BY <2>1 DEF RequestsInv, AskedKept
    <3>2. /\ DOMAIN tracked' = DOMAIN tracked \cup {r} /\ tracked'[r] = "confirming"
          /\ \A x \in DOMAIN tracked \ {r} : tracked'[x] = tracked[x]
      BY <2>1 DEF WithStatus
    <3> QED BY <3>1, <3>2
  <2>4. tracked' \in [DOMAIN tracked' -> TrackedStatuses]
    BY <2>1, <2>3, StoredTyped DEF RequestsInv, TrackedStatuses
  <2>5. /\ asked' \in [Requests -> Selections \cup {NotAsked}] /\ asked'[r] = s
        /\ \A x \in Requests \ {r} : asked'[x] = asked[x]
    BY <2>1 DEF RequestsInv, RequestsTypeOK
  <2>6. /\ calls' \in SUBSET CallRows /\ \A c \in calls' : c \in calls \/ c.of = r
    BY <2>1, CallTyped DEF RequestsInv, RequestsTypeOK
  <2>7. RequestsTypeOK'
    BY <1>1, <2>3, <2>4, <2>5, <2>6 DEF RequestsInv, RequestsTypeOK
  <2>8. \A x \in Requests : asked[x] # NotAsked => asked'[x] # NotAsked
    BY <2>1, <2>5
  <2>9. AskedKept'
    <3>1. \A c \in calls : c.of \in Requests
      BY DEF RequestsInv, RequestsTypeOK, CallRows
    <3>2. \A c \in calls' : asked'[c.of] # NotAsked
      BY <2>2, <2>5, <2>6, <2>8, <3>1 DEF RequestsInv, AskedKept
    <3>3. \A x \in DOMAIN tracked' : asked'[x] # NotAsked
      BY <2>2, <2>3, <2>5, <2>8 DEF RequestsInv, RequestsTypeOK, AskedKept
    <3>4. \A x \in Requests : asked'[x] # NotAsked => x = r \/ asked[x] # NotAsked
      BY <2>5
    <3> QED BY <1>1, <2>3, <2>8, <3>2, <3>3, <3>4 DEF RequestsInv, AskedKept
  <2>10. \A x \in DOMAIN tracked : asked'[x] = asked[x]
    BY <2>3, <2>5 DEF RequestsInv, RequestsTypeOK
  <2>11. \A x \in DOMAIN tracked : ~(tracked[x] = "confirming" /\ asked[x] = s)
    BY <1>3 DEF Unconfirmed, Confirming
  <2>12. AskedOnce'
    BY <2>3, <2>5, <2>10, <2>11 DEF RequestsInv, AskedOnce
  <2> QED BY <2>7, <2>9, <2>12 DEF RequestsInv
<1> QED BY <1>2, <1>3

LEMMA PollInv ==
  ASSUME RequestsInv, NEW t \in Tabs, Poll(t) \/ CloseRequestTab(t)
  PROVE  RequestsInv'
<1>1. CASE Poll(t)
  <2>1. calls' = calls \cup {Call(t, "poll", "get", r) : r \in DOMAIN tracked}
    BY <1>1 DEF Poll
  <2>2. \A r \in DOMAIN tracked : r \in Requests /\ asked[r] # NotAsked
    BY DEF RequestsInv, RequestsTypeOK, AskedKept
  <2>3. calls' \in SUBSET CallRows /\ \A c \in calls' : asked[c.of] # NotAsked
    BY <2>1, <2>2, CallTyped DEF RequestsInv, RequestsTypeOK, AskedKept
  <2>4. UNCHANGED <<tracked, asked, batch, told, refused, losses>> /\ begun' \in Nat
    BY <1>1 DEF Poll, BeginsCall, RequestsInv, RequestsTypeOK
  <2> QED BY <2>3, <2>4, CallsChange DEF RequestsInv, RequestsTypeOK, AskedKept
<1>2. CASE CloseRequestTab(t)
  <2>1. calls' \in SUBSET calls /\ losses' \in Nat
        /\ UNCHANGED <<tracked, asked, batch, told, refused, begun>>
    BY <1>2 DEF CloseRequestTab, RequestsInv, RequestsTypeOK
  <2> QED BY <2>1, CallsChange DEF RequestsInv, RequestsTypeOK, AskedKept
<1> QED BY <1>1, <1>2

LEMMA CallIs ==
  ASSUME RequestsInv, NEW c \in calls
  PROVE  c \in CallRows /\ c.of \in Requests /\ c.tab \in Tabs /\ asked[c.of] # NotAsked
BY DEF RequestsInv, RequestsTypeOK, AskedKept, CallRows

\* What takes the place of a call is about the same request.
LEMMA Swapped ==
  ASSUME RequestsInv, NEW c \in calls, NEW next \in SUBSET CallRows, \A d \in next : d.of = c.of,
         Swap(c, next)
  PROVE  calls' \in SUBSET CallRows /\ \A d \in calls' : asked[d.of] # NotAsked
BY CallIs DEF Swap, RequestsInv, RequestsTypeOK, AskedKept

LEMMA CallServedInv ==
  ASSUME RequestsInv, NEW c \in calls, Serve(c)
  PROVE  RequestsInv'
<1>1. UNCHANGED <<tracked, asked, told, refused, begun>> /\ losses' \in Nat
  BY DEF Serve, RequestsInv, RequestsTypeOK
<1>2. c \in CallRows /\ c.of \in Requests /\ asked[c.of] # NotAsked
  BY CallIs
<1>3. batch \in [Requests -> BatchStatuses]
  BY DEF RequestsInv, RequestsTypeOK
<1>4. PICK saw \in {"error"} \cup BatchStatuses :
        /\ Swap(c, {[c EXCEPT !.at = "served", !.saw = saw]})
        /\ \/ batch' = batch
           \/ saw \in BatchStatuses /\ batch' = [batch EXCEPT ![c.of] = saw]
  BY <1>2, <1>3 DEF Serve, BatchStatuses
<1>5. [c EXCEPT !.at = "served", !.saw = saw] \in CallRows
      /\ [c EXCEPT !.at = "served", !.saw = saw].of = c.of
  BY <1>2 DEF CallRows
<1>6. calls' \in SUBSET CallRows /\ \A d \in calls' : asked[d.of] # NotAsked
  BY <1>4, <1>5, Swapped
<1>7. batch' \in [Requests -> BatchStatuses] /\ \A r \in Requests : batch'[r] # "none" => asked[r] # NotAsked
  BY <1>2, <1>3, <1>4 DEF RequestsInv, AskedKept
<1>8. begun' \in Nat
  BY <1>1 DEF RequestsInv, RequestsTypeOK
<1> QED BY <1>1, <1>6, <1>7, <1>8, CallsChange

LEMMA BatchInv ==
  ASSUME RequestsInv, NEW r \in Requests, BatchMoves(r)
  PROVE  RequestsInv'
<1>1. UNCHANGED <<tracked, asked, calls, told, refused, begun, losses>>
  BY DEF BatchMoves
<1>2. batch' \in [Requests -> BatchStatuses] /\ \A x \in Requests : batch'[x] # "none" => asked[x] # NotAsked
  BY DEF BatchMoves, BatchStatuses, RequestsInv, RequestsTypeOK, AskedKept
<1> QED BY <1>1, <1>2, CallsChange DEF RequestsInv, RequestsTypeOK, AskedKept

\* A later try is about the same request.
LEMMA AgainIs ==
  ASSUME RequestsInv, NEW c \in calls
  PROVE  Again(c) \in SUBSET CallRows /\ \A d \in Again(c) : d.of = c.of
<1>1. c \in CallRows /\ c.attempt \in Nat
  BY CallIs DEF CallRows
<1>2. Call(c.tab, "detached", "get", c.of) \in CallRows /\ Call(c.tab, "detached", "get", c.of).of = c.of
  BY CallIs, CallTyped
<1>3. c.attempt + 1 \in Nat
  BY <1>1
<1>4. \A d \in CallRows : [d EXCEPT !.attempt = c.attempt + 1] \in CallRows
                          /\ [d EXCEPT !.attempt = c.attempt + 1].of = d.of
  BY <1>3 DEF CallRows
<1> QED BY <1>2, <1>4 DEF Again

LEMMA AnswerInv ==
  ASSUME RequestsInv, NEW c \in calls, Answer(c)
  PROVE  RequestsInv'
<1>1. UNCHANGED <<asked, batch, begun, losses>>
  BY DEF Answer
<1>2. c \in CallRows /\ c.of \in Requests /\ asked[c.of] # NotAsked
  BY CallIs
<1>3. CASE AnswerKnown(c)
  <2>1. Swap(c, {}) /\ UNCHANGED refused /\ c.saw \in {"planning", "running", "ended"} /\ Accept(c.of, c.saw)
    BY <1>3 DEF AnswerKnown
  <2>2. calls' \in SUBSET CallRows /\ \A d \in calls' : asked[d.of] # NotAsked
    BY <2>1, Swapped
  <2>3. CASE c.saw = "ended"
    BY <1>1, <1>2, <2>1, <2>2, <2>3, Forgotten DEF Accept
  <2>4. CASE c.saw # "ended"
    <3>1. /\ tracked' = WithStatus(c.of, c.saw) /\ told' = told
          /\ c.saw \in TrackedStatuses /\ c.saw # "confirming"
      BY <2>1, <2>4 DEF Accept, TrackedStatuses
    <3>2. /\ DOMAIN tracked' = DOMAIN tracked \cup {c.of} /\ tracked'[c.of] = c.saw
          /\ \A x \in DOMAIN tracked \ {c.of} : tracked'[x] = tracked[x]
      BY <3>1 DEF WithStatus
    <3>3. tracked' \in [DOMAIN tracked' -> TrackedStatuses]
      BY <1>2, <3>1, <3>2, StoredTyped DEF RequestsInv
    <3>4. RequestsTypeOK'
      BY <1>1, <1>2, <2>1, <2>2, <3>1, <3>2, <3>3 DEF RequestsInv, RequestsTypeOK
    <3>5. AskedKept'
      BY <1>1, <1>2, <2>1, <2>2, <3>1, <3>2 DEF RequestsInv, AskedKept
    <3>6. AskedOnce'
      BY <1>1, <3>1, <3>2 DEF RequestsInv, AskedOnce
    <3> QED BY <3>4, <3>5, <3>6 DEF RequestsInv
  <2> QED BY <2>3, <2>4
<1>4. CASE AnswerUnknown(c)
  <2>1. [c EXCEPT !.kind = "post", !.at = "sent", !.saw = "nothing"] \in CallRows
        /\ [c EXCEPT !.kind = "post", !.at = "sent", !.saw = "nothing"].of = c.of
    BY <1>2 DEF CallRows
  <2>2. calls' \in SUBSET CallRows /\ \A d \in calls' : asked[d.of] # NotAsked
    BY <1>4, <2>1, Swapped DEF AnswerUnknown
  <2> QED BY <1>1, <1>4, <2>2, CallsChange DEF AnswerUnknown, RequestsInv, RequestsTypeOK, AskedKept
<1>5. CASE AnswerError(c)
  <2>1. calls' \in SUBSET CallRows /\ \A d \in calls' : asked[d.of] # NotAsked
    BY <1>5, AgainIs, Swapped DEF AnswerError
  <2>2. CASE c.role = "asker" /\ c.kind = "post"
    BY <1>1, <1>2, <1>5, <2>1, <2>2, Forgotten DEF AnswerError
  <2>3. CASE ~(c.role = "asker" /\ c.kind = "post")
    BY <1>1, <1>5, <2>1, <2>3, CallsChange DEF AnswerError, RequestsInv, RequestsTypeOK, AskedKept
  <2> QED BY <2>2, <2>3
<1> QED BY <1>3, <1>4, <1>5 DEF Answer

LEMMA TimesOutInv ==
  ASSUME RequestsInv, NEW c \in calls, TimesOut(c)
  PROVE  RequestsInv'
<1>1. UNCHANGED <<tracked, asked, told, refused, begun>> /\ losses' \in Nat
  BY DEF TimesOut, KeepsRequest, RequestsInv, RequestsTypeOK
<1>2. c \in CallRows /\ c.of \in Requests /\ asked[c.of] # NotAsked
  BY CallIs
<1>3. batch \in [Requests -> BatchStatuses] /\ \A r \in Requests : batch[r] # "none" => asked[r] # NotAsked
  BY DEF RequestsInv, RequestsTypeOK, AskedKept
<1>4. batch' = batch \/ batch' = [batch EXCEPT ![c.of] = "planning"]
  BY DEF TimesOut
<1>5. batch' \in [Requests -> BatchStatuses] /\ \A r \in Requests : batch'[r] # "none" => asked[r] # NotAsked
  BY <1>2, <1>3, <1>4 DEF BatchStatuses
<1>6. {Call(c.tab, "detached", "get", c.of)} \in SUBSET CallRows
      /\ \A d \in {Call(c.tab, "detached", "get", c.of)} : d.of = c.of
  BY CallIs, CallTyped
<1>7. Swap(c, {}) \/ Swap(c, Again(c)) \/ Swap(c, {Call(c.tab, "detached", "get", c.of)})
  BY DEF TimesOut
<1>8. calls' \in SUBSET CallRows /\ \A d \in calls' : asked[d.of] # NotAsked
  BY <1>6, <1>7, AgainIs, Swapped
<1>9. begun' \in Nat
  BY <1>1 DEF RequestsInv, RequestsTypeOK
<1> QED BY <1>1, <1>5, <1>8, <1>9, CallsChange

(* Every batch that the service made is told of, and no selection is asked for    *)
(* twice while it is not known whether it arrived: for any tabs, and any answers  *)
(* that are lost or late.                                                         *)
THEOREM RequestsKept == RequestsSpec => []RequestsHold
<1>1. RequestsInv => RequestsHold
  BY DEF RequestsInv, AskedKept, RequestsHold, NoneUntold
<1>2. RequestsInv /\ [RequestsNext]_requestVars => RequestsInv'
  <2> SUFFICES ASSUME RequestsInv, [RequestsNext]_requestVars PROVE RequestsInv'
    OBVIOUS
  <2>1. CASE RequestsNext
    BY <2>1, AskInv, PollInv, CallServedInv, AnswerInv, TimesOutInv, BatchInv DEF RequestsNext
  <2>2. CASE UNCHANGED requestVars
    BY <2>2, CallsChange DEF requestVars, RequestsInv, RequestsTypeOK, AskedKept
  <2> QED BY <2>1, <2>2
<1> QED BY RequestsStart, <1>1, <1>2, PTL DEF RequestsSpec

-----------------------------------------------------------------------------
(* The analysis of games in a tab.                                         *)

RunPlaces ==
  {"preferences", "next", "load", "reading", "analysis", "saving", "answered", "refused", "counting", "over"}
RunRows ==
  [owner : Accounts \cup {NoOne}, queue : Seq(Games), scheduled : SUBSET Games, game : Games, total : Nat,
   completed : Nat, failed : Nat, engine : {"none", "up", "terminated"},
   engineCleaned : BOOLEAN, given : BOOLEAN, leftAt : RunPlaces \cup {"nowhere"}, at : RunPlaces]
CompletionRows ==
  [of : Nat, owner : Accounts \cup {NoOne}, requested : Nat, succeeded : Nat, failed : Nat]

TabTypeOK ==
  /\ cookie \in Accounts
  /\ manager \in [owner : Accounts \cup {NoOne}, active : Nat, last : CompletionRows,
                  backlog : [games : SUBSET Games]]
  /\ runs \in Seq(RunRows) /\ completion \in [Accounts -> CompletionRows]
  /\ saved \in SUBSET (Nat \X Nat \X Games \X Accounts) /\ IsFiniteSet(saved)

SavedBy(r, all) == {s \in all : s[1] = r}

\* A game that a run has taken from its queue, and is not done with.
InHand(run) == IF run.at \in {"load", "reading", "analysis", "saving", "answered", "refused"} THEN 1 ELSE 0
\* A result that is saved, and not counted yet.
Uncounted(run) == IF run.at = "answered" THEN 1 ELSE 0

\* Every game of the active run is done with, in hand or in the queue.
Counts(run) == run.total = run.completed + run.failed + Len(run.queue) + InHand(run)

\* The engine of the active run is still to be cleaned; that of another was, before it was made.
EngineOK(run, isActive) ==
  /\ isActive => ~run.engineCleaned
  /\ ~isActive => (run.engine = "up" \/ run.at = "reading" => run.leftAt = "reading")

RunOK(r, run, active, all) ==
  /\ r = active => Counts(run)
  /\ EngineOK(run, r = active)
  /\ run.completed + Uncounted(run) <= Cardinality(SavedBy(r, all))
  /\ run.at # "over" => \A s \in SavedBy(r, all) : s[2] <= run.completed + run.failed + Uncounted(run)

RunsOK ==
  /\ \A r \in DOMAIN runs : RunOK(r, runs[r], manager.active, saved)
  /\ manager.active # NoRun => manager.active \in DOMAIN runs /\ runs[manager.active].owner = manager.owner
  /\ \A s \in saved : s[1] \in DOMAIN runs

TabInv == TabTypeOK /\ RunsOK /\ SavedAnalysesAreOwn /\ CompletionIsTrue

LEMMA SameSum ==
  \A a, b, c, d, e, f \in Nat : c + d = e + f => a + b + c + d = a + b + e + f
OBVIOUS

LEMMA SumOfMore ==
  \A c, f, l, m, h \in Nat : c + f + l + h + m = c + f + (l + m) + h
OBVIOUS

LEMMA NoCompletionIs == NoCompletion \in CompletionRows
BY DEF NoCompletion, CompletionRows, NoRun

LEMMA SavedByFinite ==
  ASSUME TabTypeOK, NEW r
  PROVE  IsFiniteSet(SavedBy(r, saved)) /\ Cardinality(SavedBy(r, saved)) \in Nat
<1>1. SavedBy(r, saved) \in SUBSET saved
  BY DEF SavedBy
<1> QED BY <1>1, FS_Subset, FS_CardinalityType DEF TabTypeOK

LEMMA RunRow ==
  ASSUME TabTypeOK
  PROVE  /\ DOMAIN runs = 1..Len(runs) /\ Len(runs) \in Nat
         /\ \A r \in DOMAIN runs : runs[r] \in RunRows /\ r # NoRun /\ r \in Nat
<1>1. runs \in Seq(RunRows)
  BY DEF TabTypeOK
<1>2. DOMAIN runs = 1..Len(runs) /\ Len(runs) \in Nat
  BY <1>1, LenProperties
<1>3. \A r \in DOMAIN runs : runs[r] \in RunRows
  BY <1>1, SeqRows
<1> QED BY <1>2, <1>3 DEF NoRun

LEMMA TabStarts == TabInit => TabInv
<1> SUFFICES ASSUME TabInit PROVE TabInv
  OBVIOUS
<1>1. IsFiniteSet({}) /\ Cardinality({}) = 0
  BY FS_EmptySet
<1>2. <<>> \in Seq(RunRows) /\ DOMAIN <<>> = {}
  OBVIOUS
<1>3. TabTypeOK
  BY <1>1, <1>2, NoCompletionIs DEF TabInit, TabTypeOK, NoRun, NoBacklog
<1>4. RunsOK
  BY <1>2 DEF TabInit, RunsOK, NoRun
<1>5. saved = {} /\ {s \in saved : s[1] = NoRun} = {}
  BY DEF TabInit
<1>6. CompletionIsTrue
  BY <1>1, <1>5 DEF TabInit, CompletionIsTrue, NoCompletion
<1> QED BY <1>3, <1>4, <1>5, <1>6 DEF TabInv, SavedAnalysesAreOwn

\* One step of a run, that neither saves nor ends it.
LEMMA RunMoves ==
  ASSUME TabInv, NEW r \in DOMAIN runs, NEW run \in RunRows, Becomes(r, run), run.owner = runs[r].owner,
         RunOK(r, run, manager.active, saved), UNCHANGED <<cookie, manager, completion, saved>>
  PROVE  TabInv'
<1>1. runs \in Seq(RunRows)
  BY DEF TabInv, TabTypeOK
<1>2. /\ runs' \in Seq(RunRows) /\ DOMAIN runs' = DOMAIN runs /\ runs'[r] = run
      /\ \A x \in DOMAIN runs : x # r => runs'[x] = runs[x]
  BY <1>1, Updated DEF Becomes
<1>3. \A x \in DOMAIN runs : runs'[x].owner = runs[x].owner
  BY <1>2
<1>4. TabTypeOK'
  BY <1>2 DEF TabInv, TabTypeOK
<1>5. RunsOK'
  BY <1>2, <1>3 DEF TabInv, RunsOK
<1>6. SavedAnalysesAreOwn'
  BY <1>3 DEF TabInv, RunsOK, SavedAnalysesAreOwn
<1>7. CompletionIsTrue'
  BY DEF TabInv, CompletionIsTrue
<1> QED BY <1>4, <1>5, <1>6, <1>7 DEF TabInv

LEMMA RunIs ==
  ASSUME TabInv, NEW r \in DOMAIN runs
  PROVE  runs[r] \in RunRows /\ RunOK(r, runs[r], manager.active, saved) /\ r # NoRun
BY RunRow DEF TabInv, RunsOK

\* A run that was given up ends at its next step.
LEMMA RunOverInv ==
  ASSUME TabInv, NEW r \in DOMAIN runs, RunOver(r), ~IsCurrentRun(r),
         UNCHANGED <<cookie, manager, completion, saved>>
  PROVE  TabInv'
<1>1. PICK run : run = [CleanupRunEngine(runs[r]) EXCEPT !.at = "over"]
  OBVIOUS
<1>2. runs[r] \in RunRows /\ RunOK(r, runs[r], manager.active, saved)
  BY RunIs
<1>3. /\ run \in RunRows /\ run.owner = runs[r].owner /\ (run.engine = "up" => runs[r].engine = "up")
      /\ run.leftAt = runs[r].leftAt /\ run.completed = runs[r].completed /\ run.at = "over"
  BY <1>1, <1>2 DEF RunRows, RunPlaces, CleanupRunEngine
<1>4. Cardinality(SavedBy(r, saved)) \in Nat
  BY SavedByFinite DEF TabInv
<1>5. runs[r].completed \in Nat /\ Uncounted(runs[r]) \in {0, 1} /\ Uncounted(run) = 0
  BY <1>2, <1>3 DEF RunRows, RunPlaces, Uncounted
<1>6. run.completed + Uncounted(run) <= Cardinality(SavedBy(r, saved))
  <2>1. runs[r].completed + Uncounted(runs[r]) <= Cardinality(SavedBy(r, saved))
    BY <1>2 DEF RunOK
  <2> QED BY <1>3, <1>4, <1>5, <2>1
<1>7. RunOK(r, run, manager.active, saved)
  BY <1>2, <1>3, <1>6 DEF RunOK, IsCurrentRun, EngineOK
<1>8. Becomes(r, run)
  BY <1>1 DEF RunOver
<1> QED BY <1>3, <1>7, <1>8, RunMoves

\* A step that changes neither what is counted nor whether a game is in hand.
LEMMA RunGoesOn ==
  ASSUME TabInv, NEW r \in DOMAIN runs, NEW run \in RunRows, Becomes(r, run),
         UNCHANGED <<cookie, manager, completion, saved>>,
         run.owner = runs[r].owner, run.total = runs[r].total,
         run.completed = runs[r].completed, run.failed = runs[r].failed,
         Len(run.queue) + InHand(run) = Len(runs[r].queue) + InHand(runs[r]),
         Uncounted(run) = Uncounted(runs[r]), runs[r].at # "over",
         run.engineCleaned = runs[r].engineCleaned, run.leftAt = runs[r].leftAt,
         run.engine = "up" => runs[r].engine = "up" \/ IsCurrentRun(r) \/ runs[r].at = "reading",
         run.at = "reading" => IsCurrentRun(r)
  PROVE  TabInv'
<1>1. runs[r] \in RunRows /\ RunOK(r, runs[r], manager.active, saved)
  BY RunIs
<1>2. /\ Len(run.queue) \in Nat /\ Len(runs[r].queue) \in Nat
      /\ run.completed \in Nat /\ run.failed \in Nat
      /\ InHand(run) \in {0, 1} /\ InHand(runs[r]) \in {0, 1}
  BY <1>1, LenProperties DEF RunRows, RunPlaces, InHand
<1>3. Counts(runs[r]) => Counts(run)
  <2>1. run.completed + run.failed + Len(run.queue) + InHand(run)
          = run.completed + run.failed + Len(runs[r].queue) + InHand(runs[r])
    <3>1. InHand(run) \in Nat /\ InHand(runs[r]) \in Nat
      BY <1>2
    <3>2. PICK a \in Nat, b \in Nat, c \in Nat, d \in Nat, e \in Nat, f \in Nat :
            /\ a = run.completed /\ b = run.failed /\ c = Len(run.queue) /\ d = InHand(run)
            /\ e = Len(runs[r].queue) /\ f = InHand(runs[r])
      BY <1>2, <3>1
    <3>3. c + d = e + f
      BY <3>2
    <3>4. a + b + c + d = a + b + e + f
      BY <3>3, SameSum
    <3> QED BY <3>2, <3>4
  <2> QED BY <2>1 DEF Counts
<1>4. RunOK(r, run, manager.active, saved)
  BY <1>1, <1>3 DEF RunOK, IsCurrentRun, EngineOK
<1> QED BY <1>4, RunMoves

LEMMA PreferencesLoadInv == ASSUME TabInv, NEW r \in DOMAIN runs, PreferencesLoad(r) PROVE TabInv'
<1>1. UNCHANGED <<cookie, manager, completion, saved>> /\ runs[r].at = "preferences"
  BY DEF PreferencesLoad, Step
<1>2. CASE IsCurrentRun(r) /\ Becomes(r, [runs[r] EXCEPT !.at = "next"])
  <2>1. PICK run : run = [runs[r] EXCEPT !.at = "next"]
    OBVIOUS
  <2>2. /\ run \in RunRows /\ run.owner = runs[r].owner /\ run.total = runs[r].total
        /\ run.completed = runs[r].completed /\ run.failed = runs[r].failed
        /\ run.queue = runs[r].queue /\ run.engine = runs[r].engine
        /\ run.engineCleaned = runs[r].engineCleaned /\ run.leftAt = runs[r].leftAt /\ run.at = "next"
    BY <2>1, RunIs DEF RunRows, RunPlaces
  <2> QED BY <1>1, <1>2, <2>1, <2>2, RunGoesOn DEF InHand, Uncounted
<1>3. CASE ~IsCurrentRun(r) /\ RunOver(r)
  BY <1>1, <1>3, RunOverInv
<1> QED BY <1>2, <1>3 DEF PreferencesLoad

LEMMA NextGameInv == ASSUME TabInv, NEW r \in DOMAIN runs, NextGame(r) PROVE TabInv'
<1>1. UNCHANGED <<cookie, manager, completion, saved>> /\ runs[r].at = "next"
  BY DEF NextGame, Step
<1>2. CASE ~IsCurrentRun(r) /\ RunOver(r)
  BY <1>1, <1>2, RunOverInv
<1>3. CASE /\ IsCurrentRun(r) /\ runs[r].queue # <<>>
           /\ Becomes(r, [runs[r] EXCEPT !.queue = Tail(@), !.game = Head(runs[r].queue), !.at = "load"])
  <2>1. PICK run : run = [runs[r] EXCEPT !.queue = Tail(@), !.game = Head(runs[r].queue), !.at = "load"]
    OBVIOUS
  <2>2. runs[r] \in RunRows /\ runs[r].queue \in Seq(Games)
    BY RunIs DEF RunRows, RunPlaces
  <2>3. PICK q \in Seq(Games) : q = runs[r].queue
    BY <2>2
  <2>4. Tail(q) \in Seq(Games) /\ Head(q) \in Games /\ Len(Tail(q)) = Len(q) - 1 /\ Len(q) \in Nat
    BY <1>3, <2>3, Shifted
  <2>5. /\ run \in RunRows /\ run.owner = runs[r].owner /\ run.total = runs[r].total
        /\ run.completed = runs[r].completed /\ run.failed = runs[r].failed
        /\ run.queue = Tail(q) /\ run.engine = runs[r].engine
        /\ run.engineCleaned = runs[r].engineCleaned /\ run.leftAt = runs[r].leftAt /\ run.at = "load"
    BY <2>1, <2>2, <2>3, <2>4 DEF RunRows, RunPlaces
  <2>6. InHand(run) = 1 /\ InHand(runs[r]) = 0 /\ Uncounted(run) = 0 /\ Uncounted(runs[r]) = 0
    BY <1>1, <2>5 DEF InHand, Uncounted
  <2>7. Len(run.queue) + InHand(run) = Len(runs[r].queue) + InHand(runs[r])
    BY <2>3, <2>4, <2>5, <2>6
  <2> QED BY <1>1, <1>3, <2>1, <2>5, <2>6, <2>7, RunGoesOn
<1>4. CASE IsCurrentRun(r) /\ Becomes(r, [runs[r] EXCEPT !.at = "counting"])
  <2>1. PICK run : run = [runs[r] EXCEPT !.at = "counting"]
    OBVIOUS
  <2>2. /\ run \in RunRows /\ run.owner = runs[r].owner /\ run.total = runs[r].total
        /\ run.completed = runs[r].completed /\ run.failed = runs[r].failed
        /\ run.queue = runs[r].queue /\ run.engine = runs[r].engine
        /\ run.engineCleaned = runs[r].engineCleaned /\ run.leftAt = runs[r].leftAt /\ run.at = "counting"
    BY <2>1, RunIs DEF RunRows, RunPlaces
  <2> QED BY <1>1, <1>4, <2>1, <2>2, RunGoesOn DEF InHand, Uncounted
<1> QED BY <1>2, <1>3, <1>4 DEF NextGame

\* A game is done with; one that was saved is counted once.
LEMMA DoneInv ==
  ASSUME TabInv, NEW r \in DOMAIN runs, NEW how \in {"completed", "failed"},
         Becomes(r, Done(runs[r], how)), UNCHANGED <<cookie, manager, completion, saved>>,
         InHand(runs[r]) = 1, how = "completed" => runs[r].at = "answered"
  PROVE  TabInv'
<1>1. PICK run : run = Done(runs[r], how)
  OBVIOUS
<1>2. runs[r] \in RunRows /\ RunOK(r, runs[r], manager.active, saved)
  BY RunIs
<1>3. runs[r].completed \in Nat /\ runs[r].failed \in Nat
  BY <1>2 DEF RunRows, RunPlaces
<1>4. /\ run \in RunRows /\ run.owner = runs[r].owner /\ run.total = runs[r].total
      /\ run.queue = runs[r].queue /\ run.engine = runs[r].engine
        /\ run.engineCleaned = runs[r].engineCleaned /\ run.leftAt = runs[r].leftAt /\ run.at = "next"
      /\ run.completed = runs[r].completed + (IF how = "completed" THEN 1 ELSE 0)
      /\ run.failed = runs[r].failed + (IF how = "failed" THEN 1 ELSE 0)
  <2>1. runs[r].completed + (IF how = "completed" THEN 1 ELSE 0) \in Nat
        /\ runs[r].failed + (IF how = "failed" THEN 1 ELSE 0) \in Nat
    BY <1>3
  <2> QED BY <1>1, <1>2, <2>1 DEF Done, RunRows, RunPlaces
<1>5. InHand(run) = 0 /\ Uncounted(run) = 0
      /\ Uncounted(runs[r]) = IF runs[r].at = "answered" THEN 1 ELSE 0
  BY <1>4 DEF InHand, Uncounted
<1>6. Len(run.queue) \in Nat /\ Cardinality(SavedBy(r, saved)) \in Nat
  BY <1>4, LenProperties, SavedByFinite DEF RunRows, RunPlaces, TabInv
<1>7. run.completed + run.failed = runs[r].completed + runs[r].failed + 1
  BY <1>3, <1>4
<1>8. Counts(runs[r]) => Counts(run)
  BY <1>3, <1>4, <1>5, <1>6, <1>7 DEF Counts
<1>9. run.completed + Uncounted(run) <= Cardinality(SavedBy(r, saved))
  <2>1. runs[r].completed + Uncounted(runs[r]) <= Cardinality(SavedBy(r, saved))
    BY <1>2 DEF RunOK
  <2> QED BY <1>3, <1>4, <1>5, <1>6, <2>1
<1>10. \A s \in SavedBy(r, saved) : s[2] <= run.completed + run.failed + Uncounted(run)
  <2>1. SUFFICES ASSUME NEW s \in SavedBy(r, saved) PROVE s[2] <= run.completed + run.failed + Uncounted(run)
    OBVIOUS
  <2>2. s[2] <= runs[r].completed + runs[r].failed + Uncounted(runs[r])
    BY <1>2 DEF RunOK, InHand
  <2>3. s[2] \in Nat
    BY DEF SavedBy, TabInv, TabTypeOK
  <2>4. Uncounted(runs[r]) \in {0, 1}
    BY <1>5
  <2> QED BY <1>3, <1>4, <1>5, <1>7, <2>2, <2>3, <2>4
<1>11. RunOK(r, run, manager.active, saved)
  BY <1>2, <1>4, <1>8, <1>9, <1>10 DEF RunOK, EngineOK
<1> QED BY <1>1, <1>4, <1>11, RunMoves

LEMMA GameLoadsInv == ASSUME TabInv, NEW r \in DOMAIN runs, GameLoads(r) PROVE TabInv'
<1>1. UNCHANGED <<cookie, manager, completion, saved>> /\ runs[r].at = "load"
  BY DEF GameLoads, Step
<1>2. CASE IsCurrentRun(r) /\ Reads(r)
  <2>1. PICK run : run = [runs[r] EXCEPT !.given = (GameOwner[runs[r].game] = cookie), !.at = "reading"]
    OBVIOUS
  <2>2. (GameOwner[runs[r].game] = cookie) \in BOOLEAN
    OBVIOUS
  <2>3. /\ run \in RunRows /\ run.owner = runs[r].owner /\ run.total = runs[r].total
        /\ run.completed = runs[r].completed /\ run.failed = runs[r].failed
        /\ run.queue = runs[r].queue /\ run.engine = runs[r].engine
        /\ run.engineCleaned = runs[r].engineCleaned /\ run.leftAt = runs[r].leftAt /\ run.at = "reading"
    BY <2>1, <2>2, RunIs DEF RunRows, RunPlaces
  <2> QED BY <1>1, <1>2, <2>1, <2>3, RunGoesOn DEF InHand, Uncounted, Reads
<1>3. CASE ~IsCurrentRun(r) /\ RunOver(r)
  BY <1>1, <1>3, RunOverInv
<1> QED BY <1>2, <1>3 DEF GameLoads, ReadsGame

\* The engine starts, for a run that may have been given up.
LEMMA GameReadInv == ASSUME TabInv, NEW r \in DOMAIN runs, GameRead(r) PROVE TabInv'
<1>1. UNCHANGED <<cookie, manager, completion, saved>> /\ runs[r].at = "reading"
  BY DEF GameRead, Step
<1>2. CASE Becomes(r, Done(runs[r], "failed"))
  BY <1>1, <1>2, DoneInv DEF InHand
<1>3. CASE Becomes(r, [runs[r] EXCEPT !.engine = "up", !.at = "analysis"])
  <2>1. PICK run : run = [runs[r] EXCEPT !.engine = "up", !.at = "analysis"]
    OBVIOUS
  <2>2. /\ run \in RunRows /\ run.owner = runs[r].owner /\ run.total = runs[r].total
        /\ run.completed = runs[r].completed /\ run.failed = runs[r].failed
        /\ run.queue = runs[r].queue /\ run.at = "analysis"
        /\ run.engineCleaned = runs[r].engineCleaned /\ run.leftAt = runs[r].leftAt
    BY <2>1, RunIs DEF RunRows, RunPlaces
  <2> QED BY <1>1, <1>3, <2>1, <2>2, RunGoesOn DEF InHand, Uncounted
<1>4. CASE ~IsCurrentRun(r) /\ RunOver(r)
  BY <1>1, <1>4, RunOverInv
<1> QED BY <1>2, <1>3, <1>4 DEF GameRead

LEMMA GameAnalysedInv == ASSUME TabInv, NEW r \in DOMAIN runs, GameAnalysed(r) PROVE TabInv'
<1>1. UNCHANGED <<cookie, manager, completion, saved>> /\ runs[r].at = "analysis"
  BY DEF GameAnalysed, Step
<1>2. CASE IsCurrentRun(r) /\ Becomes(r, [runs[r] EXCEPT !.at = "saving"])
  <2>1. PICK run : run = [runs[r] EXCEPT !.at = "saving"]
    OBVIOUS
  <2>2. /\ run \in RunRows /\ run.owner = runs[r].owner /\ run.total = runs[r].total
        /\ run.completed = runs[r].completed /\ run.failed = runs[r].failed
        /\ run.queue = runs[r].queue /\ run.engine = runs[r].engine
        /\ run.engineCleaned = runs[r].engineCleaned /\ run.leftAt = runs[r].leftAt /\ run.at = "saving"
    BY <2>1, RunIs DEF RunRows, RunPlaces
  <2> QED BY <1>1, <1>2, <2>1, <2>2, RunGoesOn DEF InHand, Uncounted
<1>3. CASE ~IsCurrentRun(r) /\ RunOver(r)
  BY <1>1, <1>3, RunOverInv
<1> QED BY <1>2, <1>3 DEF GameAnalysed

LEMMA SaveAnsweredInv == ASSUME TabInv, NEW r \in DOMAIN runs, SaveAnswered(r) PROVE TabInv'
<1>1. UNCHANGED <<cookie, manager, completion, saved>> /\ runs[r].at \in {"answered", "refused"}
  BY DEF SaveAnswered
<1>2. CASE ~IsCurrentRun(r) /\ RunOver(r)
  BY <1>1, <1>2, RunOverInv
<1>3. CASE runs[r].at = "answered" /\ Becomes(r, Done(runs[r], "completed"))
  BY <1>1, <1>3, DoneInv DEF InHand
<1>4. CASE runs[r].at # "answered" /\ Becomes(r, Done(runs[r], "failed"))
  BY <1>1, <1>4, DoneInv DEF InHand
<1> QED BY <1>2, <1>3, <1>4 DEF SaveAnswered, Step

LEMMA FailsInv == ASSUME TabInv, NEW r \in DOMAIN runs, Fails(r) PROVE TabInv'
<1>1. UNCHANGED <<cookie, manager, completion, saved>>
      /\ runs[r].at \in {"load", "reading", "analysis", "saving", "answered"}
  BY DEF Fails
<1>2. CASE IsCurrentRun(r) /\ Becomes(r, Done(runs[r], "failed"))
  BY <1>1, <1>2, DoneInv DEF InHand
<1>3. CASE ~IsCurrentRun(r) /\ RunOver(r)
  BY <1>1, <1>3, RunOverInv
<1> QED BY <1>2, <1>3 DEF Fails

\* What is saved of a game is saved once, and of no other run.
LEMMA OneMoreSaved ==
  ASSUME TabInv, NEW r \in DOMAIN runs, NEW e \in Nat \X Nat \X Games \X Accounts, e[1] = r,
         saved' = saved \cup {e}
  PROVE  /\ IsFiniteSet(saved')
         /\ \A x : x # r => SavedBy(x, saved') = SavedBy(x, saved)
         /\ SavedBy(r, saved') = SavedBy(r, saved) \cup {e}
         /\ e \notin saved => Cardinality(SavedBy(r, saved')) = Cardinality(SavedBy(r, saved)) + 1
         /\ \A x : Cardinality(SavedBy(x, saved)) \in Nat /\ Cardinality(SavedBy(x, saved')) \in Nat
                   /\ Cardinality(SavedBy(x, saved)) <= Cardinality(SavedBy(x, saved'))
<1>1. \A x : IsFiniteSet(SavedBy(x, saved)) /\ Cardinality(SavedBy(x, saved)) \in Nat
  BY SavedByFinite DEF TabInv
<1>2. IsFiniteSet(saved')
  BY FS_AddElement DEF TabInv, TabTypeOK
<1>3. \A x : x # r => SavedBy(x, saved') = SavedBy(x, saved)
  BY DEF SavedBy
<1>4. SavedBy(r, saved') = SavedBy(r, saved) \cup {e}
  BY DEF SavedBy
<1>5. Cardinality(SavedBy(r, saved')) =
        IF e \in SavedBy(r, saved) THEN Cardinality(SavedBy(r, saved)) ELSE Cardinality(SavedBy(r, saved)) + 1
  <2>1. PICK mine : mine = SavedBy(r, saved)
    OBVIOUS
  <2>2. IsFiniteSet(mine)
    BY <1>1, <2>1
  <2>3. Cardinality(mine \cup {e}) = IF e \in mine THEN Cardinality(mine) ELSE Cardinality(mine) + 1
    BY <2>2, FS_AddElement
  <2> QED BY <1>4, <2>1, <2>3
<1>6. e \notin saved => Cardinality(SavedBy(r, saved')) = Cardinality(SavedBy(r, saved)) + 1
  BY <1>5 DEF SavedBy
<1>7. Cardinality(SavedBy(r, saved)) <= Cardinality(SavedBy(r, saved'))
      /\ Cardinality(SavedBy(r, saved')) \in Nat
  <2>1. Cardinality(SavedBy(r, saved)) \in Nat
    BY <1>1
  <2> QED BY <1>5, <2>1
<1>8. \A n \in Nat : n <= n
  OBVIOUS
<1> QED BY <1>1, <1>2, <1>3, <1>4, <1>6, <1>7, <1>8

LEMMA SaveInv == ASSUME TabInv, NEW r \in DOMAIN runs, Save(r) PROVE TabInv'
<1>1. UNCHANGED <<cookie, manager, completion>> /\ runs[r].at = "saving"
  BY DEF Save, Step
<1>2. runs[r] \in RunRows /\ RunOK(r, runs[r], manager.active, saved) /\ r \in Nat
  BY RunIs, RunRow DEF TabInv
<1>3. CASE Becomes(r, [runs[r] EXCEPT !.at = "refused"]) /\ UNCHANGED saved
  <2>1. PICK run : run = [runs[r] EXCEPT !.at = "refused"]
    OBVIOUS
  <2>2. /\ run \in RunRows /\ run.owner = runs[r].owner /\ run.total = runs[r].total
        /\ run.completed = runs[r].completed /\ run.failed = runs[r].failed
        /\ run.queue = runs[r].queue /\ run.engine = runs[r].engine
        /\ run.engineCleaned = runs[r].engineCleaned /\ run.leftAt = runs[r].leftAt /\ run.at = "refused"
    BY <1>2, <2>1 DEF RunRows, RunPlaces
  <2> QED BY <1>1, <1>3, <2>1, <2>2, RunGoesOn DEF InHand, Uncounted
<1>4. CASE /\ SessionExpected(r) /\ GameOwner[runs[r].game] = cookie
           /\ saved' = saved \cup {SavedOf(r)} /\ Becomes(r, [runs[r] EXCEPT !.at = "answered"])
  <2>1. PICK run : run = [runs[r] EXCEPT !.at = "answered"]
    OBVIOUS
  <2>2. /\ run \in RunRows /\ run.owner = runs[r].owner /\ run.total = runs[r].total
        /\ run.completed = runs[r].completed /\ run.failed = runs[r].failed
        /\ run.queue = runs[r].queue /\ run.engine = runs[r].engine
        /\ run.engineCleaned = runs[r].engineCleaned /\ run.leftAt = runs[r].leftAt /\ run.at = "answered"
    BY <1>2, <2>1 DEF RunRows, RunPlaces
  <2>3. PICK e : e = SavedOf(r)
    OBVIOUS
  <2>4. runs[r].completed \in Nat /\ runs[r].failed \in Nat /\ runs[r].game \in Games /\ cookie \in Accounts
    BY <1>2 DEF RunRows, RunPlaces, TabInv, TabTypeOK
  <2>5. /\ e \in Nat \X Nat \X Games \X Accounts /\ e[1] = r
        /\ e[2] = runs[r].completed + runs[r].failed + 1 /\ e[3] = runs[r].game /\ e[4] = cookie
    BY <1>2, <2>3, <2>4 DEF SavedOf
  <2>6. InHand(run) = 1 /\ InHand(runs[r]) = 1 /\ Uncounted(run) = 1 /\ Uncounted(runs[r]) = 0
    BY <1>1, <2>2 DEF InHand, Uncounted
  <2>7. \A s \in SavedBy(r, saved) : s[2] \in Nat /\ s[2] <= runs[r].completed + runs[r].failed
    <3>1. \A s \in SavedBy(r, saved) : s[2] <= runs[r].completed + runs[r].failed + Uncounted(runs[r])
      BY <1>1, <1>2 DEF RunOK
    <3>2. \A s \in SavedBy(r, saved) : s[2] \in Nat
      BY DEF SavedBy, TabInv, TabTypeOK
    <3> QED BY <2>4, <2>6, <3>1, <3>2
  <2>8. e \notin saved
    BY <2>4, <2>5, <2>7 DEF SavedBy
  <2>9. saved' = saved \cup {e}
    BY <1>4, <2>3
  <2>10. /\ IsFiniteSet(saved') /\ \A x : x # r => SavedBy(x, saved') = SavedBy(x, saved)
         /\ SavedBy(r, saved') = SavedBy(r, saved) \cup {e}
         /\ Cardinality(SavedBy(r, saved')) = Cardinality(SavedBy(r, saved)) + 1
         /\ \A x : Cardinality(SavedBy(x, saved)) \in Nat /\ Cardinality(SavedBy(x, saved')) \in Nat
                   /\ Cardinality(SavedBy(x, saved)) <= Cardinality(SavedBy(x, saved'))
    BY <2>5, <2>8, <2>9, OneMoreSaved
  <2>11. runs \in Seq(RunRows)
    BY DEF TabInv, TabTypeOK
  <2>12. /\ runs' \in Seq(RunRows) /\ DOMAIN runs' = DOMAIN runs /\ runs'[r] = run
         /\ \A x \in DOMAIN runs : x # r => runs'[x] = runs[x]
    BY <1>4, <2>1, <2>2, <2>11, Updated DEF Becomes
  <2>13. TabTypeOK'
    BY <1>1, <2>5, <2>9, <2>10, <2>12 DEF TabInv, TabTypeOK
  <2>14. RunOK(r, run, manager.active, saved')
    <3>1. Counts(runs[r]) => Counts(run)
      BY <2>2, <2>6 DEF Counts
    <3>2. run.completed + Uncounted(run) <= Cardinality(SavedBy(r, saved'))
      <4>1. runs[r].completed + Uncounted(runs[r]) <= Cardinality(SavedBy(r, saved))
        BY <1>2 DEF RunOK
      <4>2. Cardinality(SavedBy(r, saved)) \in Nat
        BY <2>10
      <4> QED BY <2>2, <2>4, <2>6, <2>10, <4>1, <4>2
    <3>3. \A s \in SavedBy(r, saved') : s[2] <= run.completed + run.failed + Uncounted(run)
      <4>1. \A s \in SavedBy(r, saved) : s[2] <= runs[r].completed + runs[r].failed + 1
        BY <2>4, <2>7
      <4>2. e[2] <= runs[r].completed + runs[r].failed + 1
        BY <2>4, <2>5
      <4> QED BY <2>2, <2>6, <2>10, <4>1, <4>2
    <3> QED BY <1>2, <2>2, <3>1, <3>2, <3>3 DEF RunOK, EngineOK
  <2>15. \A x \in DOMAIN runs : x # r => RunOK(x, runs[x], manager.active, saved')
    <3>1. \A x \in DOMAIN runs : RunOK(x, runs[x], manager.active, saved)
      BY DEF TabInv, RunsOK
    <3> QED BY <2>10, <3>1 DEF RunOK
  <2>16. RunsOK'
    BY <1>1, <2>2, <2>5, <2>9, <2>12, <2>14, <2>15 DEF TabInv, RunsOK
  <2>17. SavedAnalysesAreOwn'
    <3>1. \A x \in DOMAIN runs : runs'[x].owner = runs[x].owner
      BY <2>2, <2>12
    <3>2. \A s \in saved : s[1] \in DOMAIN runs /\ s[4] = runs[s[1]].owner /\ s[4] = GameOwner[s[3]]
      BY DEF TabInv, RunsOK, SavedAnalysesAreOwn
    <3>3. e[4] = runs[e[1]].owner /\ e[4] = GameOwner[e[3]] /\ e[1] \in DOMAIN runs
      BY <1>4, <2>5 DEF SessionExpected
    <3> QED BY <2>9, <3>1, <3>2, <3>3 DEF SavedAnalysesAreOwn
  <2>18. CompletionIsTrue'
    <3>1. ASSUME NEW o \in Accounts
          PROVE  completion[o].succeeded <= Cardinality(SavedBy(completion[o].of, saved'))
      <4>1. completion[o].succeeded <= Cardinality(SavedBy(completion[o].of, saved))
        BY DEF TabInv, CompletionIsTrue, SavedBy
      <4>2. completion[o].succeeded \in Nat
        BY DEF TabInv, TabTypeOK, CompletionRows
      <4>3. /\ Cardinality(SavedBy(completion[o].of, saved)) \in Nat
            /\ Cardinality(SavedBy(completion[o].of, saved')) \in Nat
            /\ Cardinality(SavedBy(completion[o].of, saved)) <= Cardinality(SavedBy(completion[o].of, saved'))
        BY <2>10
      <4> QED BY <4>1, <4>2, <4>3
    <3> QED BY <1>1, <3>1 DEF TabInv, CompletionIsTrue, SavedBy
  <2> QED BY <2>13, <2>16, <2>17, <2>18 DEF TabInv
<1> QED BY <1>3, <1>4 DEF Save

\* No run is the active one any more.
LEMMA NoneActive ==
  ASSUME TabInv, runs' \in Seq(RunRows), DOMAIN runs' = DOMAIN runs,
         \A x \in DOMAIN runs : /\ runs'[x].owner = runs[x].owner /\ EngineOK(runs'[x], FALSE)
                                /\ runs'[x].completed = runs[x].completed /\ runs'[x].failed = runs[x].failed
                                /\ runs'[x].at \in {runs[x].at, "over"},
         manager'.active = NoRun, UNCHANGED saved
  PROVE  RunsOK' /\ SavedAnalysesAreOwn'
<1>1. ASSUME NEW x \in DOMAIN runs PROVE RunOK(x, runs'[x], manager'.active, saved)
  <2>1. PICK run : run = runs'[x]
    OBVIOUS
  <2>2. runs[x] \in RunRows /\ RunOK(x, runs[x], manager.active, saved) /\ x # NoRun
    BY RunIs
  <2>3. runs[x].completed \in Nat /\ Cardinality(SavedBy(x, saved)) \in Nat
    BY <2>2, SavedByFinite DEF RunRows, RunPlaces, TabInv
  <2>4. EngineOK(run, FALSE) /\ run.completed = runs[x].completed /\ run.failed = runs[x].failed
        /\ (run.at = runs[x].at \/ run.at = "over")
    BY <2>1
  <2>5. CASE run.at = runs[x].at
    <3>1. Uncounted(run) = Uncounted(runs[x])
      BY <2>5 DEF Uncounted
    <3> QED BY <2>1, <2>2, <2>4, <2>5, <3>1 DEF RunOK
  <2>6. CASE run.at = "over"
    <3>1. Uncounted(run) = 0 /\ Uncounted(runs[x]) \in {0, 1}
      BY <2>6 DEF Uncounted
    <3>2. runs[x].completed + Uncounted(runs[x]) <= Cardinality(SavedBy(x, saved))
      BY <2>2 DEF RunOK
    <3>3. run.completed + Uncounted(run) <= Cardinality(SavedBy(x, saved))
      BY <2>3, <2>4, <3>1, <3>2
    <3> QED BY <2>1, <2>2, <2>4, <2>6, <3>3 DEF RunOK
  <2> QED BY <2>4, <2>5, <2>6
<1>2. RunsOK'
  BY <1>1 DEF TabInv, RunsOK
<1>3. SavedAnalysesAreOwn'
  BY DEF TabInv, RunsOK, SavedAnalysesAreOwn
<1> QED BY <1>2, <1>3

LEMMA GivenUp ==
  ASSUME NEW run \in RunRows, ~run.engineCleaned
  PROVE  /\ GiveUp(run) \in RunRows /\ GiveUp(run).owner = run.owner /\ GiveUp(run).engine # "up"
         /\ GiveUp(run).completed = run.completed /\ GiveUp(run).failed = run.failed
         /\ GiveUp(run).at = run.at /\ GiveUp(run).leftAt = run.at
<1>1. <<>> \in Seq(Games) /\ {} \in SUBSET Games
  OBVIOUS
<1> QED BY <1>1 DEF GiveUp, CleanupRunEngine, RunRows

LEMMA RunsGivenUpAre ==
  ASSUME TabInv, runs' = RunsGivenUp
  PROVE  /\ runs' \in Seq(RunRows) /\ DOMAIN runs' = DOMAIN runs
         /\ \A x \in DOMAIN runs : /\ runs'[x].owner = runs[x].owner /\ EngineOK(runs'[x], FALSE)
                                   /\ runs'[x].completed = runs[x].completed
                                   /\ runs'[x].failed = runs[x].failed
                                   /\ runs'[x].at \in {runs[x].at, "over"}
<1>1. runs \in Seq(RunRows)
  BY DEF TabInv, TabTypeOK
<1>2. \A x \in DOMAIN runs : EngineOK(runs[x], x = manager.active)
  BY DEF TabInv, RunsOK, RunOK
<1>3. CASE manager.active = NoRun
  <2>1. runs' = runs
    BY <1>3 DEF RunsGivenUp
  <2>2. \A x \in DOMAIN runs : EngineOK(runs[x], FALSE)
    <3>1. \A x \in DOMAIN runs : ~(x = manager.active)
      BY <1>3, RunRow DEF TabInv
    <3> QED BY <1>2, <3>1 DEF EngineOK
  <2> QED BY <1>1, <2>1, <2>2
<1>4. CASE manager.active # NoRun
  <2>1. PICK r : r = manager.active
    OBVIOUS
  <2>2. r \in DOMAIN runs /\ runs[r] \in RunRows /\ ~runs[r].engineCleaned
    BY <1>2, <1>4, <2>1, RunRow DEF TabInv, RunsOK, EngineOK
  <2>3. runs' = [runs EXCEPT ![r] = GiveUp(runs[r])]
    BY <1>4, <2>1 DEF RunsGivenUp
  <2>4. /\ GiveUp(runs[r]) \in RunRows /\ GiveUp(runs[r]).owner = runs[r].owner
        /\ GiveUp(runs[r]).engine # "up"
        /\ GiveUp(runs[r]).completed = runs[r].completed /\ GiveUp(runs[r]).failed = runs[r].failed
        /\ GiveUp(runs[r]).at = runs[r].at /\ GiveUp(runs[r]).leftAt = runs[r].at
    BY <2>2, GivenUp
  <2>5. PICK row : row = GiveUp(runs[r])
    OBVIOUS
  <2>6. /\ runs' \in Seq(RunRows) /\ DOMAIN runs' = DOMAIN runs /\ runs'[r] = row
        /\ \A x \in DOMAIN runs : x # r => runs'[x] = runs[x]
    BY <1>1, <2>2, <2>3, <2>4, <2>5, Updated
  <2>7. EngineOK(row, FALSE) /\ \A x \in DOMAIN runs : x # r => EngineOK(runs[x], FALSE)
    BY <1>2, <2>1, <2>4, <2>5 DEF EngineOK
  <2> QED BY <2>4, <2>5, <2>6, <2>7
<1> QED BY <1>3, <1>4

LEMMA GivesUpInv == ASSUME TabInv, SetOwner \/ Cancel PROVE TabInv'
<1>1. runs' = RunsGivenUp /\ manager'.active = NoRun /\ UNCHANGED <<cookie, completion, saved>>
  <2>1. CASE SetOwner
    BY <2>1 DEF SetOwner
  <2>2. CASE Cancel
    <3>1. manager' = [manager EXCEPT !.active = NoRun, !.backlog = NoBacklog]
          /\ runs' = RunsGivenUp /\ UNCHANGED <<cookie, completion, saved>>
      BY <2>2 DEF Cancel
    <3>2. manager \in [owner : Accounts \cup {NoOne}, active : Nat, last : CompletionRows,
                       backlog : [games : SUBSET Games]]
      BY DEF TabInv, TabTypeOK
    <3> QED BY <3>1, <3>2
  <2> QED BY <2>1, <2>2
<1>2. RunsOK' /\ SavedAnalysesAreOwn' /\ runs' \in Seq(RunRows)
  BY <1>1, RunsGivenUpAre, NoneActive
<1>3. manager' \in [owner : Accounts \cup {NoOne}, active : Nat, last : CompletionRows,
                    backlog : [games : SUBSET Games]]
      /\ (manager'.last # NoCompletion => manager'.last.owner = manager'.owner)
  <2>1. NoRun \in Nat /\ NoBacklog \in [games : SUBSET Games] /\ NoCompletion \in CompletionRows
    BY NoCompletionIs DEF NoRun, NoBacklog
  <2>2. CASE SetOwner
    BY <2>1, <2>2 DEF SetOwner, TabInv, TabTypeOK
  <2>3. CASE Cancel
    BY <2>1, <2>3 DEF Cancel, TabInv, TabTypeOK, CompletionIsTrue
  <2> QED BY <2>2, <2>3
<1>4. TabTypeOK'
  BY <1>1, <1>2, <1>3 DEF TabInv, TabTypeOK
<1>5. CompletionIsTrue'
  BY <1>1, <1>3 DEF TabInv, CompletionIsTrue
<1> QED BY <1>2, <1>4, <1>5 DEF TabInv

\* The last game was counted: the run tells of all its games.
LEMMA CountedInv == ASSUME TabInv, NEW r \in DOMAIN runs, Counted(r) PROVE TabInv'
<1>1. UNCHANGED <<cookie, saved>> /\ runs[r].at = "counting"
  BY DEF Counted, Step
<1>2. runs[r] \in RunRows /\ RunOK(r, runs[r], manager.active, saved) /\ r # NoRun /\ r \in Nat
  BY RunIs, RunRow DEF TabInv
<1>3. CASE ~IsCurrentRun(r)
  BY <1>1, <1>3, RunOverInv DEF Counted
<1>4. CASE IsCurrentRun(r) /\ ~QueueIsEmpty(r)
  <2>1. Becomes(r, [runs[r] EXCEPT !.at = "next"]) /\ UNCHANGED <<manager, completion>>
    BY <1>4 DEF Counted
  <2>2. PICK run : run = [runs[r] EXCEPT !.at = "next"]
    OBVIOUS
  <2>3. /\ run \in RunRows /\ run.owner = runs[r].owner /\ run.total = runs[r].total
        /\ run.completed = runs[r].completed /\ run.failed = runs[r].failed
        /\ run.queue = runs[r].queue /\ run.engine = runs[r].engine
        /\ run.engineCleaned = runs[r].engineCleaned /\ run.leftAt = runs[r].leftAt /\ run.at = "next"
    BY <1>2, <2>2 DEF RunRows, RunPlaces
  <2> QED BY <1>1, <2>1, <2>2, <2>3, RunGoesOn DEF InHand, Uncounted
<1>5. CASE IsCurrentRun(r) /\ QueueIsEmpty(r)
  <2>1. PICK summary : summary = [of |-> r, owner |-> runs[r].owner, requested |-> runs[r].total,
                                  succeeded |-> runs[r].completed, failed |-> runs[r].failed]
    OBVIOUS
  <2>2. /\ manager' = [manager EXCEPT !.active = NoRun, !.last = summary]
        /\ completion' = [completion EXCEPT ![runs[r].owner] = summary]
        /\ Becomes(r, [GiveUp(runs[r]) EXCEPT !.at = "over"])
    BY <1>5, <2>1 DEF Counted
  <2>3. PICK row : row = [GiveUp(runs[r]) EXCEPT !.at = "over"]
    OBVIOUS
  <2>4. /\ row \in RunRows /\ row.owner = runs[r].owner /\ row.engine # "up"
        /\ row.completed = runs[r].completed /\ row.failed = runs[r].failed /\ row.at = "over"
    <3>1. /\ GiveUp(runs[r]) \in RunRows /\ GiveUp(runs[r]).owner = runs[r].owner
          /\ GiveUp(runs[r]).engine # "up"
          /\ GiveUp(runs[r]).completed = runs[r].completed /\ GiveUp(runs[r]).failed = runs[r].failed
      BY <1>2, <1>5, GivenUp DEF RunOK, EngineOK, IsCurrentRun
    <3> QED BY <2>3, <3>1 DEF RunRows, RunPlaces
  <2>5. runs \in Seq(RunRows)
    BY DEF TabInv, TabTypeOK
  <2>6. /\ runs' \in Seq(RunRows) /\ DOMAIN runs' = DOMAIN runs /\ runs'[r] = row
        /\ \A x \in DOMAIN runs : x # r => runs'[x] = runs[x]
    BY <2>2, <2>3, <2>4, <2>5, Updated DEF Becomes
  <2>7. manager.active = r /\ manager'.active = NoRun
    BY <1>5, <2>2 DEF IsCurrentRun, TabInv, TabTypeOK
  <2>8. \A x \in DOMAIN runs : /\ runs'[x].owner = runs[x].owner /\ EngineOK(runs'[x], FALSE)
                               /\ runs'[x].completed = runs[x].completed /\ runs'[x].failed = runs[x].failed
                               /\ runs'[x].at \in {runs[x].at, "over"}
    <3>1. \A x \in DOMAIN runs : x # r => EngineOK(runs[x], FALSE)
      BY <2>7 DEF TabInv, RunsOK, RunOK, EngineOK
    <3>2. EngineOK(row, FALSE)
      BY <2>4 DEF EngineOK
    <3> QED BY <2>4, <2>6, <3>1, <3>2
  <2>9. RunsOK' /\ SavedAnalysesAreOwn'
    BY <1>1, <2>6, <2>7, <2>8, NoneActive
  <2>10. summary.succeeded + summary.failed = summary.requested
    <3>1. Counts(runs[r]) /\ InHand(runs[r]) = 0 /\ Len(runs[r].queue) = 0
      BY <1>1, <1>2, <1>5, <2>7 DEF RunOK, InHand, QueueIsEmpty
    <3>2. runs[r].completed \in Nat /\ runs[r].failed \in Nat
      BY <1>2 DEF RunRows, RunPlaces
    <3> QED BY <2>1, <3>1, <3>2 DEF Counts
  <2>11. summary.succeeded <= Cardinality(SavedBy(summary.of, saved))
    <3>1. runs[r].completed + Uncounted(runs[r]) <= Cardinality(SavedBy(r, saved)) /\ Uncounted(runs[r]) = 0
      BY <1>1, <1>2 DEF RunOK, Uncounted
    <3>2. runs[r].completed \in Nat
      BY <1>2 DEF RunRows, RunPlaces
    <3> QED BY <2>1, <3>1, <3>2
  <2>12. summary \in CompletionRows /\ summary.owner = runs[r].owner /\ runs[r].owner = manager.owner
    <3>1. runs[r].owner = manager.owner
      BY <1>2, <2>7 DEF TabInv, RunsOK
    <3> QED BY <1>2, <2>1, <3>1 DEF RunRows, RunPlaces, CompletionRows
  <2>13. /\ manager' \in [owner : Accounts \cup {NoOne}, active : Nat, last : CompletionRows,
                          backlog : [games : SUBSET Games]]
         /\ manager'.last = summary /\ manager'.owner = manager.owner
    BY <2>2, <2>12 DEF TabInv, TabTypeOK, NoRun
  <2>14. /\ completion' \in [Accounts -> CompletionRows]
         /\ \A o \in Accounts : completion'[o] = IF o = runs[r].owner THEN summary ELSE completion[o]
    BY <2>2, <2>12 DEF TabInv, TabTypeOK
  <2>15. TabTypeOK'
    BY <1>1, <2>6, <2>13, <2>14 DEF TabInv, TabTypeOK
  <2>16. CompletionIsTrue'
    <3>1. \A o \in Accounts :
            /\ completion[o] # NoCompletion => completion[o].owner = o
            /\ completion[o].succeeded + completion[o].failed = completion[o].requested
            /\ completion[o].succeeded <= Cardinality(SavedBy(completion[o].of, saved))
      BY DEF TabInv, CompletionIsTrue, SavedBy
    <3>2. \A o \in Accounts :
            /\ completion'[o] # NoCompletion => completion'[o].owner = o
            /\ completion'[o].succeeded + completion'[o].failed = completion'[o].requested
            /\ completion'[o].succeeded <= Cardinality(SavedBy(completion'[o].of, saved))
      BY <2>10, <2>11, <2>12, <2>14, <3>1
    <3>3. manager'.last # NoCompletion => manager'.last.owner = manager'.owner
      BY <2>12, <2>13
    <3> QED BY <1>1, <3>2, <3>3 DEF CompletionIsTrue, SavedBy
  <2> QED BY <2>9, <2>15, <2>16 DEF TabInv
<1> QED BY <1>3, <1>4, <1>5

LEMMA TakenIs ==
  ASSUME NEW games \in SUBSET Games
  PROVE  GamesTaken(games) \in Seq(Games)
<1>1. PICK taken \in SUBSET Games : GamesTaken(games) = SetToSeq(taken)
  BY DEF GamesTaken
<1>2. IsFiniteSet(taken)
  BY GamesAssumption, FS_Subset
<1>3. PICK n : n = Cardinality(taken)
  OBVIOUS
<1>4. n \in Nat /\ ExistsBijection(1..n, taken)
  BY <1>2, <1>3, FS_CardinalityType
<1>5. \E f \in [1..n -> taken] : IsInjective(f)
  BY <1>4 DEF ExistsBijection, Bijection, Injection
<1>6. SetToSeq(taken) \in [1..n -> taken]
  BY <1>3, <1>5, Zenon DEF SetToSeq
<1>7. SetToSeq(taken) \in [1..n -> Games]
  BY <1>6
<1> QED BY <1>1, <1>4, <1>7, SeqDef

LEMMA RangeOf ==
  ASSUME NEW q \in Seq(Games)
  PROVE  Range(q) \in SUBSET Games
BY SeqRows DEF Range

ManagerRows ==
  [owner : Accounts \cup {NoOne}, active : Nat, last : CompletionRows, backlog : [games : SUBSET Games]]

LEMMA EnqueuesInv ==
  ASSUME TabInv, NEW games \in SUBSET Games, NEW answered \in BOOLEAN, Enqueues(games, answered),
         UNCHANGED <<cookie, saved>>
  PROVE  TabInv'
<1>1. PICK q : q = GamesTaken(games)
  OBVIOUS
<1>2. q \in Seq(Games) /\ q # <<>> /\ Range(q) \in SUBSET Games
  BY <1>1, TakenIs, RangeOf DEF Enqueues
<1>3. runs \in Seq(RunRows) /\ manager \in ManagerRows /\ NoBacklog \in [games : SUBSET Games]
  BY DEF TabInv, TabTypeOK, ManagerRows, NoBacklog
<1>4. CASE manager.active # NoRun
  <2>1. PICK r : r = manager.active
    OBVIOUS
  <2>2. PICK row : row = [runs[r] EXCEPT !.queue = @ \o q, !.scheduled = @ \cup Range(q), !.total = @ + Len(q)]
    OBVIOUS
  <2>3. r \in DOMAIN runs /\ runs[r] \in RunRows /\ RunOK(r, runs[r], manager.active, saved)
        /\ runs[r].owner = manager.owner
    BY <1>4, <2>1, RunIs DEF TabInv, RunsOK
  <2>4. /\ runs' = [runs EXCEPT ![r].queue = @ \o q, ![r].scheduled = @ \cup Range(q),
                                ![r].total = @ + Len(q)]
        /\ manager' \in {manager, [manager EXCEPT !.backlog = NoBacklog]} /\ UNCHANGED completion
    BY <1>1, <1>4, <2>1 DEF Enqueues
  <2>5. Becomes(r, row)
    BY <2>2, <2>4, Zenon DEF Becomes
  <2>6. /\ runs[r].queue \o q \in Seq(Games) /\ Len(runs[r].queue \o q) = Len(runs[r].queue) + Len(q)
        /\ Len(q) \in Nat /\ Len(runs[r].queue) \in Nat
    <3>1. runs[r].queue \in Seq(Games)
      BY <2>3 DEF RunRows, RunPlaces
    <3> QED BY <1>2, <3>1, ConcatProperties, LenProperties
  <2>7. runs[r].total \in Nat /\ runs[r].completed \in Nat /\ runs[r].failed \in Nat
        /\ InHand(runs[r]) \in {0, 1}
    BY <2>3 DEF RunRows, RunPlaces, InHand
  <2>8. /\ row \in RunRows /\ row.owner = runs[r].owner /\ row.total = runs[r].total + Len(q)
        /\ row.completed = runs[r].completed /\ row.failed = runs[r].failed
        /\ row.queue = runs[r].queue \o q /\ row.at = runs[r].at
        /\ row.engineCleaned = runs[r].engineCleaned
    <3>1. runs[r].total + Len(q) \in Nat /\ runs[r].scheduled \cup Range(q) \in SUBSET Games
      BY <1>2, <2>3, <2>6, <2>7 DEF RunRows, RunPlaces
    <3> QED BY <2>2, <2>3, <2>6, <3>1 DEF RunRows, RunPlaces
  <2>9. InHand(row) = InHand(runs[r]) /\ Uncounted(row) = Uncounted(runs[r])
    BY <2>8 DEF InHand, Uncounted
  <2>10. Counts(runs[r]) => Counts(row)
    <3>1. PICK c \in Nat, f \in Nat, l \in Nat, m \in Nat, h \in Nat :
            /\ c = runs[r].completed /\ f = runs[r].failed /\ l = Len(runs[r].queue) /\ m = Len(q)
            /\ h = InHand(runs[r])
      BY <2>6, <2>7
    <3>2. Counts(runs[r]) => runs[r].total = c + f + l + h
      BY <3>1 DEF Counts
    <3>3. Counts(row) <=> runs[r].total + m = c + f + (l + m) + h
      BY <2>6, <2>8, <2>9, <3>1 DEF Counts
    <3>4. c + f + l + h + m = c + f + (l + m) + h
      BY SumOfMore
    <3> QED BY <3>2, <3>3, <3>4
  <2>11. RunOK(r, row, manager.active, saved)
    BY <2>1, <2>3, <2>8, <2>9, <2>10 DEF RunOK, EngineOK
  <2>12. /\ runs' \in Seq(RunRows) /\ DOMAIN runs' = DOMAIN runs /\ runs'[r] = row
         /\ \A x \in DOMAIN runs : x # r => runs'[x] = runs[x]
    BY <1>3, <2>3, <2>5, <2>8, Updated DEF Becomes
  <2>13. /\ manager' \in ManagerRows /\ manager'.active = manager.active /\ manager'.owner = manager.owner
         /\ manager'.last = manager.last
    BY <1>3, <2>4 DEF ManagerRows
  <2>14. TabTypeOK'
    BY <2>4, <2>12, <2>13 DEF TabInv, TabTypeOK, ManagerRows
  <2>15. RunsOK'
    BY <2>1, <2>8, <2>11, <2>12, <2>13 DEF TabInv, RunsOK
  <2>16. SavedAnalysesAreOwn'
    <3>1. \A x \in DOMAIN runs : runs'[x].owner = runs[x].owner
      BY <2>8, <2>12
    <3> QED BY <3>1 DEF TabInv, RunsOK, SavedAnalysesAreOwn
  <2>17. CompletionIsTrue'
    BY <2>4, <2>13 DEF TabInv, CompletionIsTrue
  <2> QED BY <2>14, <2>15, <2>16, <2>17 DEF TabInv
<1>5. CASE manager.active = NoRun
  <2>1. PICK row : row = NewRun(manager.owner, q)
    OBVIOUS
  <2>2. PICK r : r = Len(runs) + 1
    OBVIOUS
  <2>3. /\ runs' = Append(runs, row)
        /\ manager' = [manager EXCEPT !.active = r, !.last = NoCompletion, !.backlog = NoBacklog]
        /\ completion' = [completion EXCEPT ![manager.owner] = NoCompletion]
    BY <1>1, <1>5, <2>1, <2>2 DEF Enqueues
  <2>4. Head(q) \in Games /\ Len(q) \in Nat
    BY <1>2, Shifted
  <2>5. /\ row \in RunRows /\ row.owner = manager.owner /\ row.total = Len(q) /\ row.completed = 0
        /\ row.failed = 0 /\ row.queue = q /\ ~row.engineCleaned /\ row.at = "preferences"
    BY <1>2, <1>3, <2>1, <2>4 DEF NewRun, RunRows, RunPlaces, ManagerRows
  <2>6. /\ runs' \in Seq(RunRows) /\ Len(runs) \in Nat /\ DOMAIN runs = 1..Len(runs)
        /\ DOMAIN runs' = 1..(Len(runs) + 1) /\ \A x \in DOMAIN runs : runs'[x] = runs[x]
        /\ runs'[r] = row
    BY <1>3, <2>2, <2>3, <2>5, Appended
  <2>7. r \in Nat /\ r \notin DOMAIN runs /\ r \in DOMAIN runs'
        /\ \A x \in DOMAIN runs' : x \in DOMAIN runs \/ x = r
    BY <2>2, <2>6
  <2>8. /\ manager' \in ManagerRows /\ manager'.active = r /\ manager'.owner = manager.owner
        /\ manager'.last = NoCompletion
    BY <1>3, <2>3, <2>7, NoCompletionIs DEF ManagerRows
  <2>9. SavedBy(r, saved) = {}
    BY <2>7 DEF SavedBy, TabInv, RunsOK
  <2>10. RunOK(r, row, r, saved)
    <3>1. Cardinality(SavedBy(r, saved)) = 0
      BY <2>9, FS_EmptySet
    <3>2. InHand(row) = 0 /\ Uncounted(row) = 0
      BY <2>5 DEF InHand, Uncounted
    <3> QED BY <2>4, <2>5, <2>9, <3>1, <3>2 DEF RunOK, Counts, EngineOK
  <2>11. \A x \in DOMAIN runs : RunOK(x, runs[x], r, saved)
    <3>1. \A x \in DOMAIN runs : RunOK(x, runs[x], manager.active, saved) /\ x # manager.active /\ x # r
      BY <1>5, <2>7, RunIs
    <3> QED BY <3>1 DEF RunOK, EngineOK
  <2>12. RunsOK'
    BY <2>5, <2>6, <2>7, <2>8, <2>10, <2>11 DEF TabInv, RunsOK
  <2>13. completion' \in [Accounts -> CompletionRows]
         /\ \A o \in Accounts : completion'[o] \in {completion[o], NoCompletion}
    BY <2>3, NoCompletionIs DEF TabInv, TabTypeOK
  <2>14. TabTypeOK'
    BY <2>6, <2>8, <2>13 DEF TabInv, TabTypeOK, ManagerRows
  <2>15. SavedAnalysesAreOwn'
    BY <2>6 DEF TabInv, RunsOK, SavedAnalysesAreOwn
  <2>16. CompletionIsTrue'
    <3>1. \A x : Cardinality(SavedBy(x, saved)) \in Nat
      BY SavedByFinite DEF TabInv
    <3>2. NoCompletion.succeeded = 0 /\ NoCompletion.failed = 0 /\ NoCompletion.requested = 0
      BY DEF NoCompletion
    <3>3. \A o \in Accounts :
            /\ completion[o] # NoCompletion => completion[o].owner = o
            /\ completion[o].succeeded + completion[o].failed = completion[o].requested
            /\ completion[o].succeeded <= Cardinality(SavedBy(completion[o].of, saved))
      BY DEF TabInv, CompletionIsTrue, SavedBy
    <3>4. \A o \in Accounts :
            /\ completion'[o] # NoCompletion => completion'[o].owner = o
            /\ completion'[o].succeeded + completion'[o].failed = completion'[o].requested
            /\ completion'[o].succeeded <= Cardinality(SavedBy(completion'[o].of, saved))
      BY <2>13, <3>1, <3>2, <3>3
    <3> QED BY <2>8, <3>4 DEF CompletionIsTrue, SavedBy
  <2> QED BY <2>12, <2>14, <2>15, <2>16 DEF TabInv
<1> QED BY <1>4, <1>5

\* The cookie, or what is asked of the service, changes, and no run does.
LEMMA AsksInv ==
  ASSUME TabInv, SignsInElsewhere \/ AsksForBacklog \/ DropsBacklog
  PROVE  TabInv'
<1>1. UNCHANGED <<runs, completion, saved>>
  BY DEF SignsInElsewhere, AsksForBacklog, DropsBacklog
<1>2. manager \in ManagerRows
  BY DEF TabInv, TabTypeOK, ManagerRows
<1>3. PICK backlog \in [games : SUBSET Games] :
          manager' = manager \/ manager' = [manager EXCEPT !.backlog = backlog]
  <2>1. NoBacklog \in [games : SUBSET Games]
    BY DEF NoBacklog
  <2>2. CASE AsksForBacklog
    BY <2>2 DEF AsksForBacklog
  <2> QED BY <2>1, <2>2 DEF SignsInElsewhere, DropsBacklog
<1>4. /\ manager' \in ManagerRows /\ manager'.active = manager.active /\ manager'.owner = manager.owner
      /\ manager'.last = manager.last
  BY <1>2, <1>3 DEF ManagerRows
<1>5. cookie' \in Accounts
  BY DEF SignsInElsewhere, AsksForBacklog, DropsBacklog, TabInv, TabTypeOK
<1>6. TabTypeOK'
  BY <1>1, <1>4, <1>5 DEF TabInv, TabTypeOK, ManagerRows
<1>7. RunsOK'
  BY <1>1, <1>4 DEF TabInv, RunsOK
<1>8. SavedAnalysesAreOwn' /\ CompletionIsTrue'
  BY <1>1, <1>4 DEF TabInv, SavedAnalysesAreOwn, CompletionIsTrue
<1> QED BY <1>6, <1>7, <1>8 DEF TabInv

LEMMA EnqueueInv == ASSUME TabInv, EnqueueGames \/ EnqueueBacklog PROVE TabInv'
<1>1. PICK games \in SUBSET Games, answered \in BOOLEAN : Enqueues(games, answered)
  <2>1. manager.backlog.games \in SUBSET Games
    BY DEF TabInv, TabTypeOK
  <2>2. CASE EnqueueGames
    <3>1. PICK g \in Games : Enqueues({g}, FALSE)
      BY <2>2 DEF EnqueueGames
    <3>2. {g} \in SUBSET Games /\ FALSE \in BOOLEAN
      OBVIOUS
    <3> QED BY <3>1, <3>2
  <2>3. CASE EnqueueBacklog
    <3>1. Enqueues(manager.backlog.games, TRUE) /\ TRUE \in BOOLEAN
      BY <2>3 DEF EnqueueBacklog
    <3> QED BY <2>1, <3>1
  <2> QED BY <2>2, <2>3
<1> QED BY <1>1, EnqueuesInv DEF EnqueueGames, EnqueueBacklog

(* A result is saved for the account that its run was started for and that owns the game, *)
(* what is told of a run accounts for each of its games, and no run that was given up     *)
(* keeps an engine unless it was then reading a game: for any runs, and any accounts that *)
(* sign in meanwhile.                                                                     *)
THEOREM TabKept == TabSpec => []TabHolds
<1>1. TabInv => TabHolds
  BY DEF TabInv, RunsOK, RunOK, TabHolds, EnginesEnd, IsCurrentRun, EngineOK
<1>2. TabInv /\ [TabNext]_tabVars => TabInv'
  <2> SUFFICES ASSUME TabInv, [TabNext]_tabVars PROVE TabInv'
    OBVIOUS
  <2>1. CASE TabNext
    BY <2>1, GivesUpInv, AsksInv, EnqueueInv, PreferencesLoadInv, NextGameInv, GameLoadsInv, GameReadInv, GameAnalysedInv,
       SaveInv, SaveAnsweredInv, FailsInv, CountedInv DEF TabNext
  <2>2. CASE UNCHANGED tabVars
    <3>1. UNCHANGED <<cookie, manager, runs, completion, saved>>
      BY <2>2 DEF tabVars
    <3> QED BY <3>1 DEF TabInv, TabTypeOK, RunsOK, SavedAnalysesAreOwn, CompletionIsTrue
  <2> QED BY <2>1, <2>2
<1> QED BY TabStarts, <1>1, <1>2, PTL DEF TabSpec

-----------------------------------------------------------------------------
(* What a page tells of its imports.                                       *)

JobRows == [owner : Nat, provider : Providers, status : {"QUEUED", "RUNNING"} \cup Ended, created : Nat]
ReadRows == [generation : Nat, ended : Nat, served : BOOLEAN]
MonitorRows == [jobs : SUBSET Jobs, silent : BOOLEAN, polls : Nat, complete : BOOLEAN, awaiting : BOOLEAN]
FeedbackKinds == {"idle", "syncing", "error", "success", "in background", "attention",
                  "imported", "up to date"}

MonitorTypeOK ==
  /\ owner \in 0..MaxOwners /\ owner \in Nat /\ syncJobs \in Seq(JobRows)
  /\ feedback \in [owner : Nat, kind : FeedbackKinds, jobs : SUBSET Jobs, left : BOOLEAN]
  /\ reads \in SUBSET ReadRows /\ statusGeneration \in Nat
  /\ shown \in [owner : Nat, state : {"loading", "ready", "error"}, some : BOOLEAN, ended : Nat]
  /\ newest \in [1..MaxOwners -> Nat]

\* A job of an answer is the owner's, and there is one unless nothing was due.
ResultOK(result) ==
  \A p \in DOMAIN result : /\ result[p].job = 0 <=> result[p].state = "up-to-date"
                           /\ result[p].job # 0 => result[p].job \in OfOwner(owner)

RequestOK(q) ==
  \/ q.state \in {"none", "asked"}
  \/ q.state = "answered" /\ ResultOK(q.result)

MonitorOK ==
  Watching => /\ monitor \in MonitorRows /\ monitor.jobs # {}
              /\ monitor.jobs \subseteq OfOwner(owner)
              /\ monitor.complete => AllEnded(monitor.jobs)

\* What is said of jobs is said of jobs that have ended, and end once.
FeedbackOK ==
  /\ feedback.jobs \subseteq OfOwner(feedback.owner)
  /\ feedback.kind \in {"imported", "up to date"} =>
       \A j \in feedback.jobs : syncJobs[j].status = "SUCCEEDED"
  /\ feedback.kind = "up to date" => \A j \in feedback.jobs : ~(syncJobs[j].created > 0)
  /\ feedback.kind = "attention" =>
       \E j \in feedback.jobs : syncJobs[j].status \in {"FAILED", "CANCELLED"}

\* One read at a time; what it was served is not older than what was shown.
StatusOK ==
  /\ shown.state = "ready" => shown.owner \in 1..MaxOwners /\ shown.ended = newest[shown.owner]
  /\ \A o \in 1..MaxOwners : newest[o] <= EndedOf(o)
  /\ \A r \in reads : reads = {r} /\ owner # 0
  /\ \A r \in reads : r.served => newest[owner] <= r.ended /\ r.ended <= EndedOf(owner)

\* NobodyAsks asks for anything.
NobodyAsks == owner = 0 => manual = NoRequest /\ appOpen = NoRequest /\ monitor = NoMonitor

MonitorInv ==
  /\ MonitorTypeOK /\ NobodyAsks /\ RequestOK(manual) /\ RequestOK(appOpen)
  /\ MonitorOK /\ FeedbackOK /\ NoneStuck /\ StatusOK

LEMMA CountOfEnded == ASSUME MonitorTypeOK, NEW o PROVE EndedOf(o) \in Nat
<1>1. Jobs = 1..Len(syncJobs) /\ Len(syncJobs) \in Nat
  BY LenProperties DEF MonitorTypeOK, Jobs
<1>2. IsFiniteSet(Jobs)
  BY <1>1, FS_Interval
<1>3. {j \in OfOwner(o) : syncJobs[j].status \in Ended} \in SUBSET Jobs
  BY DEF OfOwner
<1> QED BY <1>2, <1>3, FS_Subset, FS_CardinalityType DEF EndedOf

\* How the jobs may move: more are made, none changes its owner or is undone.
JobsAdvance ==
  /\ syncJobs' \in Seq(JobRows) /\ Jobs \subseteq Jobs'
  /\ \A j \in Jobs : /\ syncJobs'[j].owner = syncJobs[j].owner
                     /\ syncJobs[j].status \in Ended => syncJobs'[j] = syncJobs[j]

LEMMA OwnersKept ==
  ASSUME JobsAdvance, NEW o
  PROVE  \A j \in OfOwner(o) : j \in Jobs' /\ syncJobs'[j].owner = o
BY DEF JobsAdvance, OfOwner

LEMMA EndedGrows ==
  ASSUME MonitorTypeOK, JobsAdvance, NEW CONSTANT o
  PROVE  EndedOf(o) \in Nat /\ EndedOf(o)' \in Nat /\ EndedOf(o) <= EndedOf(o)'
<1>1. Jobs' = 1..Len(syncJobs') /\ Len(syncJobs') \in Nat
  BY LenProperties DEF JobsAdvance, Jobs
<1>2. IsFiniteSet(Jobs')
  BY <1>1, FS_Interval
<1> DEFINE before == {j \in OfOwner(o) : syncJobs[j].status \in Ended}
           after == {j \in Jobs' : syncJobs'[j].owner = o /\ syncJobs'[j].status \in Ended}
<1>3. EndedOf(o) = Cardinality(before)
  BY DEF EndedOf
<1>4. EndedOf(o)' = Cardinality(after)
  <2>1. after = {j \in OfOwner(o) : syncJobs[j].status \in Ended}'
    BY DEF OfOwner
  <2> QED BY <2>1 DEF EndedOf
<1>5. before \in SUBSET after
  BY DEF JobsAdvance, OfOwner
<1>6. IsFiniteSet(after)
  BY <1>2, FS_Subset
<1>7. IsFiniteSet(before) /\ Cardinality(before) <= Cardinality(after)
  BY <1>5, <1>6, FS_Subset
<1>8. Cardinality(before) \in Nat /\ Cardinality(after) \in Nat
  BY <1>6, <1>7, FS_CardinalityType
<1> QED BY <1>3, <1>4, <1>7, <1>8

LEMMA ResultKept ==
  ASSUME JobsAdvance, UNCHANGED owner, NEW result, ResultOK(result)
  PROVE  ResultOK(result)'
BY OwnersKept DEF ResultOK, OfOwner

LEMMA RequestsKeptOK ==
  ASSUME MonitorInv, JobsAdvance, UNCHANGED owner
  PROVE  /\ UNCHANGED manual => RequestOK(manual)'
         /\ UNCHANGED appOpen => RequestOK(appOpen)'
BY OwnersKept DEF RequestOK, ResultOK, OfOwner, MonitorInv

LEMMA WatchKept ==
  ASSUME MonitorInv, JobsAdvance, UNCHANGED <<owner, monitor>>
  PROVE  MonitorOK'
<1>1. CASE ~Watching
  BY <1>1 DEF MonitorOK, Watching
<1>2. CASE Watching
  <2>1. /\ monitor \in MonitorRows /\ monitor.jobs # {} /\ monitor.jobs \subseteq OfOwner(owner)
        /\ monitor.complete => AllEnded(monitor.jobs)
    BY <1>2 DEF MonitorInv, MonitorOK
  <2>2. monitor \in MonitorRows'
    BY <2>1 DEF MonitorRows, JobsAdvance
  <2>3. monitor.jobs \subseteq OfOwner(owner)'
    BY <2>1, OwnersKept DEF OfOwner
  <2>4. monitor.complete => AllEnded(monitor.jobs)'
    BY <2>1 DEF AllEnded, JobsAdvance, OfOwner
  <2> QED BY <2>1, <2>2, <2>3, <2>4 DEF MonitorOK
<1> QED BY <1>1, <1>2

LEMMA FeedbackKept ==
  ASSUME MonitorInv, JobsAdvance, UNCHANGED <<owner, feedback>>
  PROVE  FeedbackOK' /\ feedback' \in [owner : Nat, kind : FeedbackKinds, jobs : SUBSET Jobs', left : BOOLEAN]
<1>1. feedback.jobs \subseteq OfOwner(feedback.owner) /\ feedback.jobs \subseteq Jobs
  BY DEF MonitorInv, FeedbackOK, OfOwner
<1>2. feedback.jobs \subseteq OfOwner(feedback.owner)'
  BY <1>1, OwnersKept DEF OfOwner
<1>3. \A j \in feedback.jobs : syncJobs[j].status \in Ended => syncJobs'[j] = syncJobs[j]
  BY <1>1 DEF JobsAdvance
<1>4. FeedbackOK'
  BY <1>1, <1>2, <1>3 DEF FeedbackOK, MonitorInv, Ended
<1>5. feedback' \in [owner : Nat, kind : FeedbackKinds, jobs : SUBSET Jobs', left : BOOLEAN]
  BY <1>1 DEF JobsAdvance, MonitorInv, MonitorTypeOK
<1> QED BY <1>4, <1>5

LEMMA StatusKept ==
  ASSUME MonitorInv, JobsAdvance, UNCHANGED <<owner, reads, shown, newest>>
  PROVE  StatusOK'
<1>1. \A o \in 0..MaxOwners :
        EndedOf(o) \in Nat /\ EndedOf(o)' \in Nat /\ EndedOf(o) <= EndedOf(o)'
  BY EndedGrows DEF MonitorInv
<1>2. newest \in [1..MaxOwners -> Nat] /\ owner \in 0..MaxOwners /\ \A r \in reads : r.ended \in Nat
  BY DEF MonitorInv, MonitorTypeOK, ReadRows
<1>3. \A o \in 1..MaxOwners : o \in 0..MaxOwners /\ newest[o] \in Nat /\ newest[o] <= EndedOf(o)
  BY <1>2, OwnersAssumption DEF MonitorInv, StatusOK
<1>4. \A o \in 1..MaxOwners : newest[o] <= EndedOf(o)'
  BY <1>1, <1>3
<1>5. PICK o : o = owner
  OBVIOUS
<1>6. \A r \in reads : r.served => newest[o] <= r.ended /\ r.ended <= EndedOf(o)'
  <2>1. \A r \in reads : r.served => newest[o] <= r.ended /\ r.ended <= EndedOf(o)
    BY <1>5 DEF MonitorInv, StatusOK
  <2> QED BY <1>1, <1>2, <1>5, <2>1
<1>7. \A r \in reads' : r.served => newest'[owner'] <= r.ended /\ r.ended <= EndedOf(owner)'
  BY <1>5, <1>6
<1>8. (\A x \in 1..MaxOwners : newest[x] <= EndedOf(x))'
  BY <1>4
<1> QED BY <1>7, <1>8 DEF MonitorInv, StatusOK

\* The jobs move, and the page does not.
LEMMA JobsMove ==
  ASSUME MonitorInv, JobsAdvance,
         UNCHANGED <<owner, monitor, feedback, reads, shown, newest, statusGeneration>>,
         RequestOK(manual)', RequestOK(appOpen)',
         manual # NoRequest => manual' # NoRequest,
         owner = 0 => UNCHANGED <<manual, appOpen>>
  PROVE  MonitorInv'
<1>1. MonitorOK' /\ StatusOK'
  BY WatchKept, StatusKept
<1>2. FeedbackOK' /\ feedback' \in [owner : Nat, kind : FeedbackKinds, jobs : SUBSET Jobs', left : BOOLEAN]
  BY FeedbackKept
<1>3. NoneStuck'
  BY DEF MonitorInv, NoneStuck, Watching
<1>4. MonitorTypeOK'
  BY <1>2 DEF MonitorInv, MonitorTypeOK, JobsAdvance
<1> QED BY <1>1, <1>2, <1>3, <1>4 DEF MonitorInv, NobodyAsks

LEMMA JobRow ==
  ASSUME MonitorTypeOK
  PROVE  \A j \in Jobs : syncJobs[j] \in JobRows /\ j \in Nat /\ j # 0
<1>1. syncJobs \in Seq(JobRows)
  BY DEF MonitorTypeOK
<1>2. Jobs = 1..Len(syncJobs) /\ Len(syncJobs) \in Nat
  BY <1>1, LenProperties DEF Jobs
<1>3. \A j \in Jobs : syncJobs[j] \in JobRows
  BY <1>1, SeqRows DEF Jobs
<1> QED BY <1>2, <1>3

LEMMA RunJobInv ==
  ASSUME MonitorInv, NEW j \in Jobs, RunJob(j)
  PROVE  MonitorInv'
<1>1. syncJobs[j] \in JobRows /\ syncJobs \in Seq(JobRows)
  BY JobRow DEF MonitorInv, MonitorTypeOK
<1>2. PICK s \in {"RUNNING", "CANCELLED", "SUCCEEDED", "FAILED"}, n \in Nat :
        syncJobs' = [syncJobs EXCEPT ![j] = [syncJobs[j] EXCEPT !.status = s, !.created = n]]
  <2>1. CASE syncJobs' = [syncJobs EXCEPT ![j].status = "RUNNING"]
    <3>1. [syncJobs[j] EXCEPT !.status = "RUNNING"]
            = [syncJobs[j] EXCEPT !.status = "RUNNING", !.created = syncJobs[j].created]
          /\ syncJobs[j].created \in Nat
      BY <1>1 DEF JobRows
    <3>2. syncJobs' = [syncJobs EXCEPT ![j] = [syncJobs[j] EXCEPT !.status = "RUNNING"]]
      BY <2>1, Zenon
    <3> QED BY <3>1, <3>2
  <2>2. CASE syncJobs' = [syncJobs EXCEPT ![j].status = "CANCELLED"]
    <3>1. [syncJobs[j] EXCEPT !.status = "CANCELLED"]
            = [syncJobs[j] EXCEPT !.status = "CANCELLED", !.created = syncJobs[j].created]
          /\ syncJobs[j].created \in Nat
      BY <1>1 DEF JobRows
    <3>2. syncJobs' = [syncJobs EXCEPT ![j] = [syncJobs[j] EXCEPT !.status = "CANCELLED"]]
      BY <2>2, Zenon
    <3> QED BY <3>1, <3>2
  <2>3. CASE \E s \in {"SUCCEEDED", "FAILED"}, n \in {0, 1} :
               syncJobs' = [syncJobs EXCEPT ![j].status = s, ![j].created = n]
    <3>1. PICK s \in {"SUCCEEDED", "FAILED"}, n \in {0, 1} :
            syncJobs' = [syncJobs EXCEPT ![j].status = s, ![j].created = n]
      BY <2>3
    <3>2. syncJobs' = [syncJobs EXCEPT ![j] = [syncJobs[j] EXCEPT !.status = s, !.created = n]]
      BY <3>1, Zenon
    <3> QED BY <3>2
  <2> QED BY <2>1, <2>2, <2>3 DEF RunJob
<1>3. syncJobs[j].status \notin Ended
      /\ UNCHANGED <<owner, manual, appOpen, monitor, feedback, reads, statusGeneration, shown, newest>>
  BY DEF RunJob, Ended
<1> DEFINE row == [syncJobs[j] EXCEPT !.status = s, !.created = n]
<1>4. row \in JobRows /\ row.owner = syncJobs[j].owner
  BY <1>1, <1>2 DEF JobRows, Ended
<1>5. syncJobs' = [syncJobs EXCEPT ![j] = row]
  BY <1>2
<1> HIDE DEF row
<1>6. syncJobs' \in Seq(JobRows) /\ DOMAIN syncJobs' = DOMAIN syncJobs /\ syncJobs'[j] = row
      /\ \A i \in DOMAIN syncJobs : i # j => syncJobs'[i] = syncJobs[i]
  BY <1>1, <1>4, <1>5, Updated DEF Jobs
<1>7. JobsAdvance
  BY <1>3, <1>4, <1>6 DEF JobsAdvance, Jobs
<1> QED BY <1>3, <1>7, JobsMove, RequestsKeptOK DEF MonitorInv

\* The order of the new jobs numbers each of their providers.
LEMMA Ordered ==
  ASSUME NEW new, IsFiniteSet(new)
  PROVE  /\ Cardinality(new) \in Nat
         /\ InOrder(new) \in [1..Cardinality(new) -> new]
         /\ \A p \in new : Place(p, InOrder(new)) \in 1..Cardinality(new)
                           /\ InOrder(new)[Place(p, InOrder(new))] = p
<1>1. Cardinality(new) \in Nat /\ ExistsBijection(1..Cardinality(new), new)
  BY FS_CardinalityType
<1>2. \E s \in [1..Cardinality(new) -> new] : \A p \in new : \E i \in DOMAIN s : s[i] = p
  <2>1. PICK s \in Bijection(1..Cardinality(new), new) : TRUE
    BY <1>1 DEF ExistsBijection
  <2>2. s \in [1..Cardinality(new) -> new] /\ \A p \in new : \E i \in 1..Cardinality(new) : s[i] = p
    BY <2>1 DEF Bijection, Injection, Surjection
  <2>3. DOMAIN s = 1..Cardinality(new)
    BY <2>2
  <2> QED BY <2>2, <2>3
<1>3. InOrder(new) \in [1..Cardinality(new) -> new]
      /\ \A p \in new : \E i \in DOMAIN InOrder(new) : InOrder(new)[i] = p
  BY <1>2, Zenon DEF InOrder
<1>4. \A p \in new : Place(p, InOrder(new)) \in DOMAIN InOrder(new)
                     /\ InOrder(new)[Place(p, InOrder(new))] = p
  BY <1>3, Zenon DEF Place
<1>5. DOMAIN InOrder(new) = 1..Cardinality(new)
  BY <1>3
<1> QED BY <1>1, <1>3, <1>4, <1>5

LEMMA Found ==
  ASSUME NEW p, ActiveJob(p) # {}
  PROVE  FoundJob(p) \in OfOwner(owner) /\ syncJobs[FoundJob(p)].status \notin Ended
<1>1. FoundJob(p) \in ActiveJob(p)
  BY Zenon DEF FoundJob
<1> QED BY <1>1 DEF ActiveJob

\* A request makes jobs of the owner, and answers with jobs of the owner.
LEMMA Dispatched ==
  ASSUME MonitorTypeOK, NEW ps \in SUBSET Providers, NEW ifStale, NEW unpublished,
         NEW result, result = Dispatch(ps, ifStale, unpublished).result,
         syncJobs' = Dispatch(ps, ifStale, unpublished).jobs, UNCHANGED owner
  PROVE  JobsAdvance /\ ResultOK(result)'
<1>1. PICK new : new = NewOf(ps, ifStale)
  OBVIOUS
<1>2. PICK order : order = InOrder(new)
  OBVIOUS
<1>3. new \in SUBSET Providers /\ IsFiniteSet(new)
  BY <1>1, ProvidersAssumption, FS_Subset DEF NewOf
<1>4. PICK n : n = Cardinality(new)
  OBVIOUS
<1>5. /\ n \in Nat /\ order \in [1..n -> new]
      /\ \A p \in new : Place(p, order) \in 1..n /\ order[Place(p, order)] = p
  BY <1>2, <1>3, <1>4, Ordered
<1>6. PICK made : made = [i \in 1..n |-> Created(order[i])]
  OBVIOUS
<1>7. \A p \in Providers : Created(p) \in JobRows /\ Created(p).owner = owner
  BY DEF Created, JobRows, MonitorTypeOK
<1>8. made \in Seq(JobRows) /\ Len(made) = n /\ \A i \in 1..n : made[i].owner = owner
  <2>1. \A i \in 1..n : order[i] \in Providers
    BY <1>3, <1>5
  <2>2. made \in [1..n -> JobRows]
    BY <1>6, <1>7, <2>1
  <2> QED BY <1>5, <1>6, <1>7, <2>1, <2>2, SeqDef, LenProperties
<1>9. syncJobs' = syncJobs \o made
  BY <1>1, <1>2, <1>5, <1>6 DEF Dispatch
<1>10. syncJobs \in Seq(JobRows) /\ Len(syncJobs) \in Nat /\ Jobs = 1..Len(syncJobs)
  BY LenProperties DEF MonitorTypeOK, Jobs
<1>11. /\ syncJobs' \in Seq(JobRows) /\ Len(syncJobs') = Len(syncJobs) + n
       /\ \A i \in 1..(Len(syncJobs) + n) :
            syncJobs'[i] = IF i <= Len(syncJobs) THEN syncJobs[i] ELSE made[i - Len(syncJobs)]
  <2>1. /\ syncJobs \o made \in Seq(JobRows) /\ Len(syncJobs \o made) = Len(syncJobs) + Len(made)
        /\ \A i \in 1..(Len(syncJobs) + Len(made)) :
             (syncJobs \o made)[i] = IF i <= Len(syncJobs) THEN syncJobs[i] ELSE made[i - Len(syncJobs)]
    BY <1>8, <1>10, ConcatProperties
  <2> QED BY <1>8, <1>9, <2>1
<1>12. Jobs' = 1..(Len(syncJobs) + n)
  BY <1>11, LenProperties DEF Jobs
<1>13. JobsAdvance
  <2>1. Jobs \subseteq Jobs'
    BY <1>5, <1>10, <1>12
  <2>2. \A j \in Jobs : j \in 1..(Len(syncJobs) + n) /\ j <= Len(syncJobs)
    BY <1>5, <1>10
  <2>3. \A j \in Jobs : syncJobs'[j] = syncJobs[j]
    BY <1>11, <2>2
  <2> QED BY <1>11, <2>1, <2>3 DEF JobsAdvance
<1>14. \A i \in 1..n : Len(syncJobs) + i \in OfOwner(owner)'
  <2>1. ASSUME NEW i \in 1..n PROVE Len(syncJobs) + i \in Jobs' /\ syncJobs'[Len(syncJobs) + i].owner = owner
    <3>1. Len(syncJobs) + i \in 1..(Len(syncJobs) + n) /\ ~(Len(syncJobs) + i <= Len(syncJobs))
          /\ (Len(syncJobs) + i) - Len(syncJobs) = i
      BY <1>5, <1>10
    <3> QED BY <1>8, <1>11, <1>12, <3>1
  <2> QED BY <2>1 DEF OfOwner
<1>15. \A j \in OfOwner(owner) : j \in OfOwner(owner)'
  BY <1>13, OwnersKept DEF OfOwner
<1>17. ASSUME NEW p \in ps
       PROVE  /\ result[p].job = 0 <=> result[p].state = "up-to-date"
              /\ result[p].job # 0 => result[p].job \in OfOwner(owner)'
  <2>1. PICK next : next = IF p \in new THEN Len(syncJobs) + Place(p, order) ELSE 0
    OBVIOUS
  <2> PICK published : published = (p \notin unpublished)
    OBVIOUS
  <2>2. result[p] = Planned(p, ifStale, next, published)
    BY <1>1, <1>2, <2>1 DEF Dispatch
  <2>3. next \in Nat /\ (p \in new => next # 0 /\ next \in OfOwner(owner)')
    <3>1. CASE p \in new
      <4>1. Place(p, order) \in 1..n /\ next = Len(syncJobs) + Place(p, order)
        BY <1>5, <2>1, <3>1
      <4>2. next \in Nat /\ next # 0
        BY <1>5, <1>10, <4>1
      <4> QED BY <1>14, <4>1, <4>2
    <3>2. CASE p \notin new
      BY <2>1, <3>2
    <3> QED BY <3>1, <3>2
  <2>4. ActiveJob(p) = {} /\ ~(ifStale /\ UpToDate(p)) => p \in new
    BY <1>1 DEF NewOf, Planned
  <2>5. \A j \in OfOwner(owner) : j # 0
    BY <1>10 DEF OfOwner
  <2>6. \/ result[p].job \in OfOwner(owner) /\ result[p].state # "up-to-date"
        \/ result[p].job = 0 /\ result[p].state = "up-to-date"
        \/ p \in new /\ result[p].job = next /\ result[p].state # "up-to-date"
    <3>1. \/ /\ Planned(p, ifStale, next, published).job \in OfOwner(owner)
             /\ Planned(p, ifStale, next, published).state # "up-to-date"
          \/ /\ Planned(p, ifStale, next, published).job = 0
             /\ Planned(p, ifStale, next, published).state = "up-to-date"
          \/ /\ ActiveJob(p) = {} /\ ~(ifStale /\ UpToDate(p))
             /\ Planned(p, ifStale, next, published).job = next
             /\ Planned(p, ifStale, next, published).state # "up-to-date"
      BY <2>3, Found DEF Planned, JobState
    <3> QED BY <2>2, <2>4, <3>1
  <2> QED BY <1>15, <2>3, <2>5, <2>6
<1>18. DOMAIN result = ps
  BY DEF Dispatch
<1>19. ResultOK(result)'
  BY <1>17, <1>18 DEF ResultOK
<1> QED BY <1>13, <1>19

\* The jobs do not move.
LEMMA JobsStay ==
  ASSUME MonitorInv, UNCHANGED syncJobs
  PROVE  /\ JobsAdvance /\ Jobs' = Jobs
         /\ \A o : OfOwner(o)' = OfOwner(o) /\ EndedOf(o)' = EndedOf(o)
         /\ \A js : AllEnded(js)' = AllEnded(js)
<1>1. \A o : OfOwner(o)' = OfOwner(o)
  BY DEF OfOwner, Jobs
<1>2. \A o : EndedOf(o)' = EndedOf(o)
  BY <1>1 DEF EndedOf
<1> QED BY <1>1, <1>2 DEF MonitorInv, MonitorTypeOK, JobsAdvance, Jobs, AllEnded

\* A read that takes the place of the others has not been served.
LEMMA FreshReads ==
  ASSUME statusGeneration \in Nat, RefreshStatus
  PROVE  /\ statusGeneration' \in Nat /\ reads' \in SUBSET ReadRows
         /\ \A r \in reads' : reads' = {r} /\ r.served = FALSE
<1>1. PICK read : read = [generation |-> statusGeneration + 1, ended |-> 0, served |-> FALSE]
  OBVIOUS
<1>2. statusGeneration + 1 \in Nat
  OBVIOUS
<1>3. read \in ReadRows /\ read.served = FALSE
  BY <1>1, <1>2 DEF ReadRows
<1>4. reads' = {read} \/ reads' = {}
  BY <1>1 DEF RefreshStatus
<1> QED BY <1>2, <1>3, <1>4 DEF RefreshStatus

LEMMA Refreshed ==
  ASSUME MonitorInv, RefreshStatus, UNCHANGED <<owner, syncJobs, shown, newest>>, owner # 0
  PROVE  StatusOK' /\ reads' \in SUBSET ReadRows /\ statusGeneration' \in Nat
<1>1. \A o : EndedOf(o)' = EndedOf(o)
  BY JobsStay
<1>2. statusGeneration \in Nat
  BY DEF MonitorInv, MonitorTypeOK
<1>3. statusGeneration' \in Nat /\ reads' \in SUBSET ReadRows
      /\ \A r \in reads' : reads' = {r} /\ r.served = FALSE
  BY <1>2, FreshReads
<1> QED BY <1>1, <1>3 DEF MonitorInv, StatusOK

LEMMA ServeStatusInv == ASSUME MonitorInv, ServeStatus PROVE MonitorInv'
<1>1. UNCHANGED <<owner, syncJobs, manual, appOpen, monitor, feedback, statusGeneration, shown, newest>>
  BY DEF ServeStatus
<1>2. PICK r \in reads :
        ~r.served /\ reads' = (reads \ {r}) \cup {[r EXCEPT !.ended = EndedOf(owner), !.served = TRUE]}
  BY DEF ServeStatus
<1>3. EndedOf(owner) \in Nat /\ (\A o : EndedOf(o)' = EndedOf(o)) /\ JobsAdvance
  BY <1>1, CountOfEnded, JobsStay DEF MonitorInv
<1>4. PICK served : served = [r EXCEPT !.ended = EndedOf(owner), !.served = TRUE]
  OBVIOUS
<1>5. served \in ReadRows /\ served.ended = EndedOf(owner)
  BY <1>2, <1>3, <1>4 DEF MonitorInv, MonitorTypeOK, ReadRows
<1>6. reads' = {served}
  BY <1>2, <1>4 DEF MonitorInv, StatusOK
<1>7. StatusOK'
  <2>1. owner \in 1..MaxOwners /\ EndedOf(owner)' = EndedOf(owner)
    <3>1. owner # 0 /\ owner \in 0..MaxOwners /\ MaxOwners \in Nat
      BY <1>2, OwnersAssumption DEF MonitorInv, MonitorTypeOK, StatusOK
    <3>2. EndedOf(owner)' = EndedOf(owner)
      <4>1. PICK o : o = owner
        OBVIOUS
      <4> QED BY <1>1, <1>3, <4>1
    <3> QED BY <3>1, <3>2
  <2>2. newest[owner] <= EndedOf(owner) /\ EndedOf(owner) <= EndedOf(owner)
    BY <1>3, <2>1 DEF MonitorInv, StatusOK
  <2>3. \A r2 \in reads' : reads' = {r2} /\ owner' # 0
                           /\ newest'[owner'] <= r2.ended /\ r2.ended <= EndedOf(owner)'
    BY <1>1, <1>5, <1>6, <2>1, <2>2
  <2> QED BY <1>1, <1>3, <2>3 DEF MonitorInv, StatusOK
<1>8. MonitorOK' /\ FeedbackOK' /\ RequestOK(manual)' /\ RequestOK(appOpen)'
      /\ feedback' \in [owner : Nat, kind : FeedbackKinds, jobs : SUBSET Jobs', left : BOOLEAN]
  BY <1>1, <1>3, WatchKept, FeedbackKept, RequestsKeptOK
<1>9. NoneStuck'
  BY <1>1 DEF MonitorInv, NoneStuck, Watching
<1>10. MonitorTypeOK'
  BY <1>1, <1>5, <1>6, <1>8 DEF MonitorInv, MonitorTypeOK
<1> QED BY <1>1, <1>7, <1>8, <1>9, <1>10 DEF MonitorInv, NobodyAsks

LEMMA ShowStatusInv == ASSUME MonitorInv, ShowStatus PROVE MonitorInv'
<1>1. UNCHANGED <<owner, syncJobs, manual, monitor, feedback, statusGeneration>> /\ appOpen' = NoRequest
  BY DEF ShowStatus
<1>2. PICK r \in reads :
        /\ r.served /\ reads' = reads \ {r}
        /\ shown' = [owner |-> owner, state |-> "ready", some |-> TRUE, ended |-> r.ended]
        /\ newest' = [newest EXCEPT ![owner] = IF r.ended > @ THEN r.ended ELSE @]
  BY DEF ShowStatus
<1>3. (\A o : EndedOf(o)' = EndedOf(o)) /\ JobsAdvance
  BY <1>1, JobsStay
<1>4. r.ended \in Nat /\ newest \in [1..MaxOwners -> Nat] /\ owner \in Nat /\ owner \in 1..MaxOwners
  <2>1. owner # 0
    BY DEF MonitorInv, StatusOK
  <2> QED BY <2>1, OwnersAssumption DEF MonitorInv, MonitorTypeOK, ReadRows
<1>5. reads' = {} /\ newest[owner] <= r.ended /\ r.ended <= EndedOf(owner)
  BY <1>2 DEF MonitorInv, StatusOK
<1>6. newest' = [newest EXCEPT ![owner] = r.ended]
  <2>1. (IF r.ended > newest[owner] THEN r.ended ELSE newest[owner]) = r.ended
    <3>1. newest[owner] \in Nat
      BY <1>4
    <3> QED BY <1>4, <1>5, <3>1
  <2>2. newest' = [newest EXCEPT ![owner] = IF r.ended > newest[owner] THEN r.ended ELSE newest[owner]]
    BY <1>2
  <2> QED BY <2>1, <2>2, Zenon
<1>7. StatusOK'
  <2>1. \A o \in 1..MaxOwners : newest'[o] <= EndedOf(o)
    BY <1>4, <1>5, <1>6 DEF MonitorInv, StatusOK
  <2>2. (\A o \in 1..MaxOwners : newest[o] <= EndedOf(o))'
    BY <1>3, <2>1
  <2>3. shown'.owner = owner /\ shown'.ended = newest'[owner]
    BY <1>2, <1>4, <1>6
  <2> QED BY <1>4, <1>5, <2>2, <2>3 DEF StatusOK
<1>8. MonitorOK' /\ FeedbackOK' /\ RequestOK(manual)'
      /\ feedback' \in [owner : Nat, kind : FeedbackKinds, jobs : SUBSET Jobs', left : BOOLEAN]
  BY <1>1, <1>3, WatchKept, FeedbackKept, RequestsKeptOK
<1>9. NoneStuck' /\ RequestOK(appOpen)'
  BY <1>1 DEF MonitorInv, NoneStuck, Watching, RequestOK, NoRequest
<1>10. MonitorTypeOK'
  <2>1. shown' \in [owner : Nat, state : {"loading", "ready", "error"}, some : BOOLEAN, ended : Nat]
    BY <1>2, <1>4
  <2>2. newest' \in [1..MaxOwners -> Nat]
    BY <1>4, <1>6
  <2> QED BY <1>1, <1>5, <1>8, <2>1, <2>2 DEF MonitorInv, MonitorTypeOK
<1> QED BY <1>1, <1>4, <1>7, <1>8, <1>9, <1>10 DEF MonitorInv, NobodyAsks

\* A read that failed, or is made again.
LEMMA StatusAgainInv == ASSUME MonitorInv, StatusFails \/ TryAgain PROVE MonitorInv'
<1>1. UNCHANGED <<owner, syncJobs, manual, appOpen, monitor, feedback, newest>>
  BY DEF StatusFails, TryAgain
<1>2. owner \in Nat /\ shown \in [owner : Nat, state : {"loading", "ready", "error"}, some : BOOLEAN, ended : Nat]
      /\ statusGeneration \in Nat
  BY DEF MonitorInv, MonitorTypeOK
<1>3. /\ shown' \in [owner : Nat, state : {"loading", "ready", "error"}, some : BOOLEAN, ended : Nat]
      /\ shown'.state # "ready"
  BY <1>2 DEF StatusFails, TryAgain
<1>4. /\ statusGeneration' \in Nat /\ reads' \in SUBSET ReadRows
      /\ \A r \in reads' : reads' = {r} /\ r.served = FALSE /\ owner # 0
  <2>1. CASE StatusFails
    BY <1>2, <2>1 DEF StatusFails
  <2>2. CASE TryAgain
    BY <1>2, <2>2, FreshReads DEF TryAgain
  <2> QED BY <2>1, <2>2
<1>5. (\A o : EndedOf(o)' = EndedOf(o)) /\ JobsAdvance
  BY <1>1, JobsStay
<1>6. StatusOK'
  <2>1. (\A o \in 1..MaxOwners : newest[o] <= EndedOf(o))'
    BY <1>1, <1>5 DEF MonitorInv, StatusOK
  <2> QED BY <1>1, <1>3, <1>4, <2>1 DEF StatusOK
<1>7. MonitorOK' /\ FeedbackOK' /\ RequestOK(manual)' /\ RequestOK(appOpen)'
      /\ feedback' \in [owner : Nat, kind : FeedbackKinds, jobs : SUBSET Jobs', left : BOOLEAN]
  BY <1>1, <1>5, WatchKept, FeedbackKept, RequestsKeptOK
<1>8. NoneStuck'
  BY <1>1 DEF MonitorInv, NoneStuck, Watching
<1>9. MonitorTypeOK'
  BY <1>1, <1>3, <1>4, <1>7 DEF MonitorInv, MonitorTypeOK
<1> QED BY <1>1, <1>6, <1>7, <1>8, <1>9 DEF MonitorInv, NobodyAsks

\* Of the owner before, nothing is in the air, and nothing is waited for.
LEMMA ChangeOwnerInv == ASSUME MonitorInv, ChangeOwner PROVE MonitorInv'
<1>1. /\ owner' \in 0..MaxOwners /\ manual' = NoRequest /\ appOpen' = NoRequest /\ monitor' = NoMonitor
      /\ feedback' = [feedback EXCEPT !.left = TRUE] /\ UNCHANGED <<syncJobs, shown, newest>>
  BY DEF ChangeOwner
<1>2. statusGeneration' \in Nat /\ reads' \in SUBSET ReadRows
      /\ \A r \in reads' : reads' = {r} /\ r.served = FALSE /\ owner' # 0
  <2>1. statusGeneration \in Nat
    BY DEF MonitorInv, MonitorTypeOK
  <2>2. CASE owner' # 0
    <3>1. RefreshStatus
      BY <2>2 DEF ChangeOwner
    <3> QED BY <2>1, <2>2, <3>1, FreshReads
  <2>3. CASE owner' = 0
    BY <2>1, <2>3 DEF ChangeOwner
  <2> QED BY <2>2, <2>3
<1>3. Jobs' = Jobs /\ \A o : OfOwner(o)' = OfOwner(o) /\ EndedOf(o)' = EndedOf(o)
  BY <1>1, JobsStay
<1>4. /\ feedback'.owner = feedback.owner /\ feedback'.kind = feedback.kind
      /\ feedback'.jobs = feedback.jobs /\ feedback'.left = TRUE
      /\ feedback' \in [owner : Nat, kind : FeedbackKinds, jobs : SUBSET Jobs, left : BOOLEAN]
  BY <1>1 DEF MonitorInv, MonitorTypeOK
<1>5. FeedbackOK'
  <2>1. OfOwner(feedback.owner)' = OfOwner(feedback.owner)
    BY <1>1, <1>4 DEF OfOwner, Jobs
  <2> QED BY <1>1, <1>4, <2>1 DEF MonitorInv, FeedbackOK
<1>6. StatusOK'
  <2>1. (\A o \in 1..MaxOwners : newest[o] <= EndedOf(o))'
    BY <1>1, <1>3 DEF MonitorInv, StatusOK
  <2> QED BY <1>1, <1>2, <2>1 DEF MonitorInv, StatusOK
<1>7. MonitorOK' /\ NoneStuck' /\ RequestOK(manual)' /\ RequestOK(appOpen)'
  BY <1>1, <1>4 DEF MonitorOK, Watching, NoneStuck, RequestOK, NoRequest
<1>8. MonitorTypeOK'
  BY <1>1, <1>2, <1>3, <1>4, OwnersAssumption DEF MonitorInv, MonitorTypeOK
<1> QED BY <1>1, <1>5, <1>6, <1>7, <1>8 DEF MonitorInv, NobodyAsks

\* The page writes, and no job moves.
LEMMA PageWrites ==
  ASSUME MonitorInv, owner # 0, UNCHANGED <<owner, syncJobs>>,
         StatusOK', reads' \in SUBSET ReadRows, statusGeneration' \in Nat,
         UNCHANGED <<shown, newest>>,
         feedback' \in [owner : Nat, kind : FeedbackKinds, jobs : SUBSET Jobs, left : BOOLEAN],
         FeedbackOK', NoneStuck', MonitorOK', RequestOK(manual)', RequestOK(appOpen)'
  PROVE  MonitorInv'
<1>1. Jobs' = Jobs
  BY JobsStay
<1> QED BY <1>1 DEF MonitorInv, MonitorTypeOK, NobodyAsks

\* What is said of the owner's jobs before they end, or of none.
LEMMA SaysNothing ==
  ASSUME MonitorInv, UNCHANGED <<owner, syncJobs>>,
         NEW kind \in {"idle", "syncing", "error", "success", "in background"},
         NEW js \in SUBSET OfOwner(owner), feedback' = Feedback(owner, kind, js)
  PROVE  FeedbackOK' /\ feedback' \in [owner : Nat, kind : FeedbackKinds, jobs : SUBSET Jobs, left : BOOLEAN]
<1>2. owner \in Nat /\ OfOwner(owner) \subseteq Jobs
  BY DEF MonitorInv, MonitorTypeOK, OfOwner
<1>3. feedback'.owner = owner /\ feedback'.kind = kind /\ feedback'.jobs = js
  BY DEF Feedback
<1>4. FeedbackOK'
  <2>1. feedback'.jobs \subseteq OfOwner(feedback.owner)'
    BY <1>3 DEF OfOwner, Jobs
  <2> QED BY <1>3, <2>1 DEF FeedbackOK
<1>5. feedback' \in [owner : Nat, kind : FeedbackKinds, jobs : SUBSET Jobs, left : BOOLEAN]
  BY <1>2 DEF Feedback, FeedbackKinds
<1> QED BY <1>4, <1>5

\* Nothing that is read or shown changes.
LEMMA StatusStays ==
  ASSUME MonitorInv, UNCHANGED <<owner, syncJobs, reads, statusGeneration, shown, newest>>
  PROVE  StatusOK' /\ reads' \in SUBSET ReadRows /\ statusGeneration' \in Nat
BY JobsStay, StatusKept DEF MonitorInv, MonitorTypeOK

\* The requests that are as they were, or new, or over.
LEMMA RequestsStay ==
  ASSUME MonitorInv, UNCHANGED <<owner, syncJobs>>
  PROVE  /\ manual' \in {manual, NoRequest, [state |-> "asked"]} => RequestOK(manual)'
         /\ appOpen' \in {appOpen, NoRequest, [state |-> "asked"]} => RequestOK(appOpen)'
<1>1. /\ UNCHANGED manual => RequestOK(manual)'
      /\ UNCHANGED appOpen => RequestOK(appOpen)'
  BY JobsStay, RequestsKeptOK
<1>2. /\ manual' \in {NoRequest, [state |-> "asked"]} => RequestOK(manual)'
      /\ appOpen' \in {NoRequest, [state |-> "asked"]} => RequestOK(appOpen)'
  BY DEF RequestOK, NoRequest
<1> QED BY <1>1, <1>2

LEMMA SyncNowInv == ASSUME MonitorInv, SyncNow PROVE MonitorInv'
<1>0. owner # 0
  BY DEF SyncNow, SyncReady, HasStatus
<1>1. /\ manual' = [state |-> "asked"] /\ feedback' = Feedback(owner, "syncing", {})
      /\ UNCHANGED <<owner, syncJobs, appOpen, monitor, reads, statusGeneration, shown, newest>>
  BY DEF SyncNow
<1>2. FeedbackOK' /\ feedback' \in [owner : Nat, kind : FeedbackKinds, jobs : SUBSET Jobs, left : BOOLEAN]
  <2>1. {} \in SUBSET OfOwner(owner)
    OBVIOUS
  <2> QED BY <1>1, <2>1, SaysNothing, Zenon
<1>3. StatusOK' /\ reads' \in SUBSET ReadRows /\ statusGeneration' \in Nat
  BY <1>1, StatusStays
<1>4. RequestOK(manual)' /\ RequestOK(appOpen)'
  BY <1>1, RequestsStay
<1>5. MonitorOK'
  BY <1>1, JobsStay, WatchKept
<1>6. NoneStuck'
  <2>1. manual'.state = "asked" /\ NoRequest.state = "none"
    BY <1>1 DEF NoRequest
  <2> QED BY <2>1 DEF NoneStuck
<1> QED BY <1>0, <1>1, <1>2, <1>3, <1>4, <1>5, <1>6, PageWrites

LEMMA SyncNowFailsInv == ASSUME MonitorInv, SyncNowFails PROVE MonitorInv'
<1>0. owner # 0
  BY DEF SyncNowFails, MonitorInv, NobodyAsks, NoRequest
<1>1. /\ manual' = NoRequest /\ feedback' = Feedback(owner, "error", {})
      /\ UNCHANGED <<owner, syncJobs, appOpen, monitor, reads, statusGeneration, shown, newest>>
  BY DEF SyncNowFails
<1>2. FeedbackOK' /\ feedback' \in [owner : Nat, kind : FeedbackKinds, jobs : SUBSET Jobs, left : BOOLEAN]
  <2>1. {} \in SUBSET OfOwner(owner)
    OBVIOUS
  <2> QED BY <1>1, <2>1, SaysNothing, Zenon
<1>3. StatusOK' /\ reads' \in SUBSET ReadRows /\ statusGeneration' \in Nat
  BY <1>1, StatusStays
<1>4. RequestOK(manual)' /\ RequestOK(appOpen)'
  BY <1>1, RequestsStay
<1>5. MonitorOK'
  BY <1>1, JobsStay, WatchKept
<1>6. NoneStuck'
  BY <1>1 DEF NoneStuck, Feedback
<1> QED BY <1>0, <1>1, <1>2, <1>3, <1>4, <1>5, <1>6, PageWrites

LEMMA AppOpenInv == ASSUME MonitorInv, AppOpen PROVE MonitorInv'
<1>0. owner # 0
  BY DEF AppOpen, HasStatus
<1>1. /\ appOpen' \in {appOpen, [state |-> "asked"]}
      /\ UNCHANGED <<owner, syncJobs, manual, monitor, feedback, reads, statusGeneration, shown, newest>>
  BY DEF AppOpen
<1>2. FeedbackOK' /\ feedback' \in [owner : Nat, kind : FeedbackKinds, jobs : SUBSET Jobs, left : BOOLEAN]
  BY <1>1, JobsStay, FeedbackKept
<1>3. StatusOK' /\ reads' \in SUBSET ReadRows /\ statusGeneration' \in Nat
  BY <1>1, StatusStays
<1>4. RequestOK(manual)' /\ RequestOK(appOpen)'
  BY <1>1, RequestsStay
<1>5. MonitorOK'
  BY <1>1, JobsStay, WatchKept
<1>6. NoneStuck'
  BY <1>1 DEF NoneStuck, MonitorInv, Watching
<1> QED BY <1>0, <1>1, <1>2, <1>3, <1>4, <1>5, <1>6, PageWrites

LEMMA ServeInv ==
  ASSUME MonitorInv, ServeSyncNow \/ ServeAppOpen
  PROVE  MonitorInv'
<1>1. UNCHANGED <<owner, monitor, feedback, reads, statusGeneration, shown, newest>> /\ owner # 0
  <2>1. CASE ServeSyncNow
    BY <2>1 DEF ServeSyncNow, MonitorInv, NobodyAsks, NoRequest
  <2>2. CASE ServeAppOpen
    BY <2>2 DEF ServeAppOpen, MonitorInv, NobodyAsks, NoRequest, Answered
  <2> QED BY <2>1, <2>2
<1>2. CASE ServeSyncNow
  <2>1. PICK unpublished \in SUBSET Providers :
          /\ syncJobs' = Dispatch(Providers, FALSE, unpublished).jobs
          /\ manual' = [state |-> "answered", result |-> Dispatch(Providers, FALSE, unpublished).result]
    BY <1>2 DEF ServeSyncNow, Answered
  <2>2. PICK result : result = Dispatch(Providers, FALSE, unpublished).result
    OBVIOUS
  <2>3. JobsAdvance /\ ResultOK(result)'
    BY <1>1, <2>1, <2>2, Dispatched DEF MonitorInv
  <2>4. RequestOK(manual)' /\ manual' # NoRequest
    <3>1. manual'.state = "answered" /\ manual'.result = result /\ NoRequest.state = "none"
      BY <2>1, <2>2 DEF NoRequest
    <3> QED BY <2>3, <3>1 DEF RequestOK
  <2>5. UNCHANGED appOpen
    BY <1>2 DEF ServeSyncNow
  <2> QED BY <1>1, <2>3, <2>4, <2>5, RequestsKeptOK, JobsMove
<1>3. CASE ServeAppOpen
  <2>1. UNCHANGED manual
    BY <1>3 DEF ServeAppOpen
  <2>2. CASE Answered(Automatic, TRUE, appOpen)
    <3>1. PICK unpublished \in SUBSET Automatic :
            /\ syncJobs' = Dispatch(Automatic, TRUE, unpublished).jobs
            /\ appOpen' = [state |-> "answered", result |-> Dispatch(Automatic, TRUE, unpublished).result]
      BY <2>2 DEF Answered
    <3>2. PICK result : result = Dispatch(Automatic, TRUE, unpublished).result
      OBVIOUS
    <3>3. JobsAdvance /\ ResultOK(result)'
      BY <1>1, <3>1, <3>2, Dispatched, ProvidersAssumption DEF MonitorInv
    <3>4. RequestOK(appOpen)'
      BY <3>1, <3>2, <3>3 DEF RequestOK
    <3> QED BY <1>1, <2>1, <3>3, <3>4, RequestsKeptOK, JobsMove
  <2>3. CASE appOpen' = NoRequest /\ UNCHANGED syncJobs
    BY <1>1, <2>1, <2>3, JobsStay, RequestsStay, JobsMove
  <2> QED BY <1>3, <2>2, <2>3 DEF ServeAppOpen
<1> QED BY <1>2, <1>3

LEMMA IdsOfResult ==
  ASSUME NEW result, ResultOK(result)
  PROVE  JobIds(result) \subseteq OfOwner(owner)
BY DEF JobIds, ResultOK

\* There is a job to wait for, unless the page is told that nothing was due.
LEMMA NothingDue ==
  ASSUME NEW result, ResultOK(result), ResultState(result) = "started"
  PROVE  JobIds(result) # {}
<1>1. PICK p \in DOMAIN result : result[p].state # "up-to-date"
  BY DEF ResultState, All
<1> QED BY <1>1 DEF JobIds, ResultOK

LEMMA Monitors ==
  ASSUME MonitorInv, NEW result, ResultOK(result), NEW silent \in BOOLEAN,
         monitor' = Monitored(result, silent), UNCHANGED <<owner, syncJobs>>
  PROVE  MonitorOK' /\ (JobIds(result) # {} \/ Watching => Watching')
<1>1. CASE JobIds(result) = {}
  <2>1. UNCHANGED monitor
    BY <1>1 DEF Monitored
  <2> QED BY <1>1, <2>1, JobsStay, WatchKept DEF Watching
<1>2. CASE JobIds(result) # {}
  <2>1. monitor' = [jobs |-> JobIds(result), silent |-> silent, polls |-> 0, complete |-> FALSE,
                    awaiting |-> Some(result, "awaiting-worker")]
    BY <1>2 DEF Monitored
  <2>2. Some(result, "awaiting-worker") \in BOOLEAN
    BY DEF Some
  <2>3. JobIds(result) \subseteq OfOwner(owner) /\ JobIds(result) \subseteq Jobs
    BY IdsOfResult DEF OfOwner
  <2>4. monitor' \in MonitorRows /\ monitor'.jobs = JobIds(result) /\ monitor'.complete = FALSE
    BY <2>1, <2>2, <2>3 DEF MonitorRows
  <2>5. monitor' # NoMonitor
    BY <1>2, <2>4 DEF NoMonitor
  <2>6. MonitorRows' = MonitorRows /\ OfOwner(owner)' = OfOwner(owner)
    BY JobsStay DEF MonitorRows, OfOwner, Jobs
  <2> QED BY <1>2, <2>3, <2>4, <2>5, <2>6 DEF MonitorOK, Watching
<1> QED BY <1>1, <1>2

LEMMA ResultOfRequest ==
  ASSUME NEW q, RequestOK(q), q.state = "answered"
  PROVE  ResultOK(q.result)
BY DEF RequestOK

LEMMA SyncNowAnsweredInv == ASSUME MonitorInv, SyncNowAnswered PROVE MonitorInv'
<1>0. owner # 0
  BY DEF SyncNowAnswered, MonitorInv, NobodyAsks, NoRequest
<1>1. PICK r : r = manual.result
  OBVIOUS
<1>2. ResultOK(r)
  BY <1>1, ResultOfRequest DEF SyncNowAnswered, MonitorInv
<1>3. PICK kind : kind = IF ResultState(r) = "awaiting-worker" THEN "error"
                         ELSE IF JobIds(r) # {} THEN "syncing" ELSE "success"
  OBVIOUS
<1>4. /\ manual' = NoRequest /\ feedback' = Feedback(owner, kind, JobIds(r))
      /\ monitor' = Monitored(r, FALSE)
      /\ IF JobIds(r) = {} THEN RefreshStatus ELSE UNCHANGED <<reads, statusGeneration>>
      /\ UNCHANGED <<owner, syncJobs, appOpen, shown, newest>>
  BY <1>1, <1>3 DEF SyncNowAnswered
<1>5. kind \in {"idle", "syncing", "error", "success", "in background"}
      /\ (kind = "syncing" => JobIds(r) # {})
  BY <1>3
<1>6. FeedbackOK' /\ feedback' \in [owner : Nat, kind : FeedbackKinds, jobs : SUBSET Jobs, left : BOOLEAN]
  <2>1. JobIds(r) \in SUBSET OfOwner(owner)
    BY <1>2, IdsOfResult
  <2> QED BY <1>4, <1>5, <2>1, SaysNothing, Zenon
<1>7. MonitorOK' /\ (JobIds(r) # {} => Watching')
  BY <1>2, <1>4, Monitors
<1>8. StatusOK' /\ reads' \in SUBSET ReadRows /\ statusGeneration' \in Nat
  BY <1>0, <1>4, Refreshed, StatusStays
<1>9. RequestOK(manual)' /\ RequestOK(appOpen)'
  BY <1>4, RequestsStay
<1>10. NoneStuck'
  BY <1>4, <1>5, <1>7 DEF NoneStuck, Feedback
<1> QED BY <1>0, <1>4, <1>6, <1>7, <1>8, <1>9, <1>10, PageWrites

LEMMA AppOpenAnsweredInv == ASSUME MonitorInv, AppOpenAnswered PROVE MonitorInv'
<1>0. owner # 0
  BY DEF AppOpenAnswered, MonitorInv, NobodyAsks, NoRequest
<1>1. PICK r : r = appOpen.result
  OBVIOUS
<1>2. ResultOK(r) /\ JobIds(r) \in SUBSET OfOwner(owner)
  <2>1. ResultOK(r)
    BY <1>1, ResultOfRequest DEF AppOpenAnswered, MonitorInv
  <2> QED BY <2>1, IdsOfResult
<1>3. /\ appOpen' = NoRequest /\ monitor' = Monitored(r, TRUE)
      /\ \/ feedback' = Feedback(owner, "error", JobIds(r))
         \/ feedback' = Feedback(owner, "syncing", JobIds(r)) /\ ResultState(r) = "started"
         \/ feedback' = feedback
      /\ UNCHANGED <<owner, syncJobs, manual, reads, statusGeneration, shown, newest>>
  BY <1>1 DEF AppOpenAnswered
<1>4. MonitorOK' /\ (JobIds(r) # {} \/ Watching => Watching')
  BY <1>2, <1>3, Monitors
<1>5. StatusOK' /\ reads' \in SUBSET ReadRows /\ statusGeneration' \in Nat
  BY <1>3, StatusStays
<1>6. RequestOK(manual)' /\ RequestOK(appOpen)'
  BY <1>3, RequestsStay
<1>7. FeedbackOK' /\ feedback' \in [owner : Nat, kind : FeedbackKinds, jobs : SUBSET Jobs, left : BOOLEAN]
  <2>1. CASE feedback' = feedback
    <3>1. JobsAdvance /\ Jobs' = Jobs
      BY <1>3, JobsStay
    <3> QED BY <1>3, <2>1, <3>1, FeedbackKept
  <2>2. CASE feedback' = Feedback(owner, "error", JobIds(r))
    BY <1>2, <1>3, <2>2, SaysNothing, Zenon
  <2>3. CASE feedback' = Feedback(owner, "syncing", JobIds(r))
    BY <1>2, <1>3, <2>3, SaysNothing, Zenon
  <2> QED BY <1>3, <2>1, <2>2, <2>3
<1>8. NoneStuck'
  <2>1. CASE feedback' = feedback
    BY <1>3, <1>4, <2>1 DEF MonitorInv, NoneStuck
  <2>2. CASE feedback' = Feedback(owner, "error", JobIds(r))
    BY <1>3, <2>2 DEF NoneStuck, Feedback
  <2>3. CASE ResultState(r) = "started"
    BY <1>2, <1>4, <2>3, NothingDue DEF NoneStuck
  <2> QED BY <1>3, <2>1, <2>2, <2>3
<1> QED BY <1>0, <1>3, <1>4, <1>5, <1>6, <1>7, <1>8, PageWrites

\* A monitor that is still watching, as it was or after one more look.
LEMMA Looks ==
  ASSUME MonitorInv, Watching, NEW complete \in BOOLEAN, complete => AllEnded(monitor.jobs),
         UNCHANGED <<owner, syncJobs>>,
         \/ monitor' = [monitor EXCEPT !.polls = @ + 1, !.complete = complete]
         \/ monitor' = [monitor EXCEPT !.polls = @ + 1] /\ ~monitor.complete
  PROVE  MonitorOK' /\ Watching'
<1>1. /\ monitor \in MonitorRows /\ monitor.jobs # {} /\ monitor.jobs \subseteq OfOwner(owner)
  BY DEF MonitorInv, MonitorOK
<1>2. monitor' \in MonitorRows /\ monitor'.jobs = monitor.jobs /\ (monitor'.complete => AllEnded(monitor.jobs))
  <2>1. monitor.polls + 1 \in Nat
    BY <1>1 DEF MonitorRows
  <2> QED BY <1>1, <2>1 DEF MonitorRows
<1>3. monitor' # NoMonitor
  BY <1>1, <1>2 DEF NoMonitor
<1>4. MonitorRows' = MonitorRows /\ OfOwner(owner)' = OfOwner(owner)
  BY DEF MonitorRows, OfOwner, Jobs
<1>5. AllEnded(monitor.jobs) => AllEnded(monitor.jobs)'
  BY <1>2 DEF AllEnded
<1> QED BY <1>1, <1>2, <1>3, <1>4, <1>5 DEF MonitorOK, Watching

\* The monitor is over.
LEMMA Unwatched ==
  ASSUME monitor' = NoMonitor
  PROVE  MonitorOK' /\ ~Watching'
BY DEF MonitorOK, Watching

LEMMA PollJobsInv == ASSUME MonitorInv, PollJobs PROVE MonitorInv'
<1>0. owner # 0
  BY DEF PollJobs, MonitorInv, NobodyAsks, Watching
<1>1. UNCHANGED <<owner, syncJobs, manual, appOpen, reads, statusGeneration, shown, newest>>
      /\ Watching /\ ~monitor.complete
  BY DEF PollJobs
<1>2. StatusOK' /\ reads' \in SUBSET ReadRows /\ statusGeneration' \in Nat
  BY <1>1, StatusStays
<1>3. RequestOK(manual)' /\ RequestOK(appOpen)'
  BY <1>1, RequestsStay
<1>4. CASE /\ UNCHANGED feedback
           /\ \/ monitor' = [monitor EXCEPT !.polls = @ + 1, !.complete = AllEnded(monitor.jobs)]
              \/ monitor' = [monitor EXCEPT !.polls = @ + 1]
  <2>1. AllEnded(monitor.jobs) \in BOOLEAN
    BY DEF AllEnded
  <2>2. MonitorOK' /\ Watching'
    BY <1>1, <1>4, <2>1, Looks
  <2>3. FeedbackOK' /\ feedback' \in [owner : Nat, kind : FeedbackKinds, jobs : SUBSET Jobs, left : BOOLEAN]
    <3>1. JobsAdvance /\ Jobs' = Jobs
      BY <1>1, JobsStay
    <3> QED BY <1>1, <1>4, <3>1, FeedbackKept
  <2>4. NoneStuck'
    BY <2>2 DEF NoneStuck
  <2> QED BY <1>0, <1>1, <1>2, <1>3, <2>2, <2>3, <2>4, PageWrites
<1>5. CASE monitor' = NoMonitor /\ feedback' = Feedback(owner, "error", {})
  <2>1. FeedbackOK' /\ feedback' \in [owner : Nat, kind : FeedbackKinds, jobs : SUBSET Jobs, left : BOOLEAN]
    <3>1. {} \in SUBSET OfOwner(owner)
      OBVIOUS
    <3> QED BY <1>1, <1>5, <3>1, SaysNothing, Zenon
  <2>2. NoneStuck'
    BY <1>5 DEF NoneStuck, Feedback
  <2> QED BY <1>0, <1>1, <1>2, <1>3, <1>5, <2>1, <2>2, Unwatched, PageWrites
<1> QED BY <1>4, <1>5 DEF PollJobs

LEMMA TimedOutInv == ASSUME MonitorInv, TimedOut PROVE MonitorInv'
<1>0. owner # 0
  BY DEF TimedOut, MonitorInv, NobodyAsks, Watching
<1>1. PICK kind : kind = IF monitor.awaiting THEN "error" ELSE "in background"
  OBVIOUS
<1>2. /\ UNCHANGED <<owner, syncJobs, manual, appOpen, shown, newest>> /\ Watching /\ RefreshStatus
      /\ monitor' = NoMonitor /\ feedback' = Feedback(owner, kind, monitor.jobs)
  BY <1>1 DEF TimedOut
<1>3. StatusOK' /\ reads' \in SUBSET ReadRows /\ statusGeneration' \in Nat
  BY <1>0, <1>2, Refreshed
<1>4. RequestOK(manual)' /\ RequestOK(appOpen)'
  BY <1>2, RequestsStay
<1>5. kind \in {"idle", "syncing", "error", "success", "in background"} /\ kind # "syncing"
  BY <1>1
<1>6. FeedbackOK' /\ feedback' \in [owner : Nat, kind : FeedbackKinds, jobs : SUBSET Jobs, left : BOOLEAN]
  <2>1. monitor.jobs \in SUBSET OfOwner(owner)
    BY <1>2 DEF MonitorInv, MonitorOK
  <2> QED BY <1>2, <1>5, <2>1, SaysNothing, Zenon
<1>7. NoneStuck'
  BY <1>2, <1>5 DEF NoneStuck, Feedback
<1> QED BY <1>0, <1>2, <1>3, <1>4, <1>6, <1>7, Unwatched, PageWrites

\* The jobs that the monitor waited for have all ended, and what the page says is of their ends.
LEMMA CompletedInv == ASSUME MonitorInv, Completed PROVE MonitorInv'
<1>0. owner # 0
  BY DEF Completed, MonitorInv, NobodyAsks, Watching
<1>1. PICK js : js = monitor.jobs
  OBVIOUS
<1>2. /\ UNCHANGED <<owner, syncJobs, manual, appOpen, shown, newest>> /\ Watching /\ RefreshStatus
      /\ monitor' = NoMonitor /\ monitor.complete
      /\ \/ /\ In(js, "FAILED") \cup In(js, "CANCELLED") # {}
            /\ feedback' = Feedback(owner, "attention", js)
         \/ /\ In(js, "FAILED") \cup In(js, "CANCELLED") = {} /\ ImportedBy(js) # {}
            /\ feedback' = Feedback(owner, "imported", js)
         \/ /\ In(js, "FAILED") \cup In(js, "CANCELLED") = {} /\ ImportedBy(js) = {}
            /\ feedback' = Feedback(owner, "up to date", js)
         \/ feedback' = Feedback(owner, "idle", {})
  <2>1. feedback' = IF In(js, "FAILED") \cup In(js, "CANCELLED") # {} THEN Feedback(owner, "attention", js)
                    ELSE IF ImportedBy(js) # {} THEN Feedback(owner, "imported", js)
                    ELSE IF monitor.silent THEN Feedback(owner, "idle", {})
                    ELSE Feedback(owner, "up to date", js)
    BY <1>1 DEF Completed
  <2>2. \/ feedback' = Feedback(owner, "attention", js) /\ In(js, "FAILED") \cup In(js, "CANCELLED") # {}
        \/ /\ In(js, "FAILED") \cup In(js, "CANCELLED") = {}
           /\ \/ feedback' = Feedback(owner, "imported", js) /\ ImportedBy(js) # {}
              \/ feedback' = Feedback(owner, "up to date", js) /\ ImportedBy(js) = {}
              \/ feedback' = Feedback(owner, "idle", {})
    BY <2>1, Zenon
  <2>3. UNCHANGED <<owner, syncJobs, manual, appOpen, shown, newest>> /\ Watching /\ RefreshStatus
        /\ monitor' = NoMonitor /\ monitor.complete
    BY DEF Completed
  <2> QED BY <2>2, <2>3
<1>3. StatusOK' /\ reads' \in SUBSET ReadRows /\ statusGeneration' \in Nat
  BY <1>0, <1>2, Refreshed
<1>4. RequestOK(manual)' /\ RequestOK(appOpen)'
  BY <1>2, RequestsStay
<1>5. js \subseteq OfOwner(owner) /\ AllEnded(js)
  BY <1>1, <1>2 DEF MonitorInv, MonitorOK
<1>6. owner \in Nat /\ js \subseteq Jobs
  BY <1>5 DEF MonitorInv, MonitorTypeOK, OfOwner
<1>7. ASSUME NEW kind \in {"attention", "imported", "up to date"}, feedback' = Feedback(owner, kind, js),
             kind # "attention" => In(js, "FAILED") \cup In(js, "CANCELLED") = {},
             kind = "attention" => In(js, "FAILED") \cup In(js, "CANCELLED") # {},
             kind = "up to date" => ImportedBy(js) = {}
      PROVE  FeedbackOK' /\ NoneStuck'
             /\ feedback' \in [owner : Nat, kind : FeedbackKinds, jobs : SUBSET Jobs, left : BOOLEAN]
  <2>1. feedback'.owner = owner /\ feedback'.kind = kind /\ feedback'.jobs = js
    BY <1>7 DEF Feedback
  <2>2. feedback' \in [owner : Nat, kind : FeedbackKinds, jobs : SUBSET Jobs, left : BOOLEAN]
    BY <1>6, <1>7 DEF Feedback, FeedbackKinds
  <2>3. feedback'.jobs \subseteq OfOwner(feedback.owner)'
    BY <1>2, <1>5, <2>1 DEF OfOwner, Jobs
  <2>5. \A j \in js : kind # "attention" => syncJobs[j].status = "SUCCEEDED"
    BY <1>5, <1>7 DEF AllEnded, Ended, In
  <2>6. kind = "up to date" => \A j \in js : ~(syncJobs[j].created > 0)
    BY <1>7 DEF ImportedBy
  <2>7. kind = "attention" => \E j \in js : syncJobs[j].status \in {"FAILED", "CANCELLED"}
    BY <1>7 DEF In
  <2>8. FeedbackOK'
    BY <1>2, <1>7, <2>1, <2>3, <2>5, <2>6, <2>7 DEF FeedbackOK
  <2>9. NoneStuck'
    BY <1>7, <2>1 DEF NoneStuck
  <2> QED BY <2>2, <2>8, <2>9
<1>8. ASSUME feedback' = Feedback(owner, "idle", {})
      PROVE  FeedbackOK' /\ NoneStuck'
             /\ feedback' \in [owner : Nat, kind : FeedbackKinds, jobs : SUBSET Jobs, left : BOOLEAN]
  <2>1. {} \in SUBSET OfOwner(owner)
    OBVIOUS
  <2>2. FeedbackOK' /\ feedback' \in [owner : Nat, kind : FeedbackKinds, jobs : SUBSET Jobs, left : BOOLEAN]
    BY <1>2, <1>8, <2>1, SaysNothing, Zenon
  <2> QED BY <1>8, <2>2 DEF NoneStuck, Feedback
<1>9. FeedbackOK' /\ NoneStuck' /\ feedback' \in [owner : Nat, kind : FeedbackKinds, jobs : SUBSET Jobs, left : BOOLEAN]
  BY <1>2, <1>7, <1>8
<1> QED BY <1>0, <1>2, <1>3, <1>4, <1>9, Unwatched, PageWrites

LEMMA MonitorStarts == MonitorInit => MonitorInv
<1> SUFFICES ASSUME MonitorInit PROVE MonitorInv
  OBVIOUS
<1>1. syncJobs = <<>> /\ Jobs = {} /\ <<>> \in Seq(JobRows)
  BY DEF MonitorInit, Jobs
<1>2. \A o \in 1..MaxOwners : EndedOf(o) \in Nat
  <2> TAKE o \in 1..MaxOwners
  <2>1. {j \in OfOwner(o) : syncJobs[j].status \in Ended} = {}
    BY <1>1 DEF OfOwner
  <2> QED BY <2>1, FS_EmptySet DEF EndedOf
<1>3. MonitorTypeOK
  BY <1>1, OwnersAssumption DEF MonitorInit, MonitorTypeOK, Feedback, FeedbackKinds, NoStatus, ReadRows
<1>4. RequestOK(manual) /\ RequestOK(appOpen) /\ MonitorOK /\ NoneStuck /\ NobodyAsks
  BY DEF MonitorInit, NobodyAsks, RequestOK, NoRequest, MonitorOK, Watching, NoneStuck, Feedback
<1>5. FeedbackOK
  BY DEF MonitorInit, FeedbackOK, Feedback
<1>6. StatusOK
  BY <1>2 DEF MonitorInit, StatusOK, NoStatus
<1> QED BY <1>3, <1>4, <1>5, <1>6 DEF MonitorInv

(* The page never waits for nothing, what it says of the end of its imports is so of each *)
(* of their jobs, and its status is never older than one before: for any providers and    *)
(* accounts, and whatever was lost or late.                                               *)
THEOREM ImportsTold == MonitorSpec => []SyncIsTold
<1>1. MonitorInv => SyncIsTold
  <2>1. ASSUME MonitorInv PROVE FeedbackIsTrue
    <3>1. /\ feedback.kind \in {"imported", "up to date"} =>
                \A j \in feedback.jobs : syncJobs[j].status = "SUCCEEDED"
          /\ feedback.kind = "attention" =>
               \E j \in feedback.jobs : syncJobs[j].status \in {"FAILED", "CANCELLED"}
          /\ feedback.kind = "up to date" => \A j \in feedback.jobs : ~(syncJobs[j].created > 0)
          /\ feedback.jobs \subseteq OfOwner(feedback.owner)
      BY <2>1 DEF MonitorInv, FeedbackOK
    <3> QED BY <3>1 DEF FeedbackIsTrue, In, ImportedBy
  <2> QED BY <2>1 DEF MonitorInv, StatusOK, SyncIsTold, StatusIsNewest, SyncReady, HasStatus
<1>2. MonitorInv /\ [MonitorNext]_monitorVars => MonitorInv'
  <2> SUFFICES ASSUME MonitorInv, [MonitorNext]_monitorVars PROVE MonitorInv'
    OBVIOUS
  <2>1. CASE MonitorNext
    BY <2>1, ServeStatusInv, ShowStatusInv, StatusAgainInv, ChangeOwnerInv, SyncNowInv, ServeInv, SyncNowAnsweredInv,
       SyncNowFailsInv, AppOpenInv, AppOpenAnsweredInv, PollJobsInv, TimedOutInv, CompletedInv, RunJobInv
       DEF MonitorNext
  <2>2. CASE UNCHANGED monitorVars
    <3>1. UNCHANGED <<owner, syncJobs, manual, appOpen, monitor, feedback, reads, statusGeneration, shown, newest>>
      BY <2>2 DEF monitorVars
    <3>2. RequestOK(manual)' /\ RequestOK(appOpen)' /\ JobsAdvance
      BY <3>1, RequestsStay, JobsStay
    <3> QED BY <3>1, <3>2, JobsMove
  <2> QED BY <2>1, <2>2
<1> QED BY MonitorStarts, <1>1, <1>2, PTL DEF MonitorSpec

-----------------------------------------------------------------------------
(* The engine of the server.                                               *)

SomeAnalysis == Analyses \cup {NoAnalysis}
EngineCommands == [kind : {"ready", "go", "stop"}, job : SomeAnalysis]
EngineAnswers == [kind : {"ready", "best"}, job : SomeAnalysis]
ChildRows == [state : {"starting", "up", "dead"}, inbox : Seq(EngineCommands), search : SomeAnalysis,
              outbox : Seq(EngineAnswers)]

EngineTypes ==
  /\ analysis \in [Analyses -> [state : {"new", "pending", "failed", "done"}, got : SomeAnalysis, of : Nat]]
  /\ chain \in Seq(Analyses)
  /\ turn \in [id : SomeAnalysis, on : Nat,
               stage : {"idle", "start", "engine", "again", "ready", "go", "search"}]
  /\ searching \in [id : SomeAnalysis, settled : BOOLEAN]
  /\ cancellations \in Nat
  /\ process \in Seq(ChildRows)
  /\ child = Nothing \/ child \in DOMAIN process

\* No line of a kind, and one, of an analysis.
NoLineOf(q, kind) == \A i \in DOMAIN q : q[i].kind # kind
OneLineOf(q, kind, a) ==
  \E i \in DOMAIN q : /\ q[i].kind = kind /\ q[i].job = a
                      /\ \A j \in DOMAIN q : j # i => q[j].kind # kind

\* A search is on its way to the process, under way in it, or its best move is on the way back.
NoSearchIn(p) == NoLineOf(p.inbox, "go") /\ p.search = NoAnalysis /\ NoLineOf(p.outbox, "best")
SearchSent(p, a) == OneLineOf(p.inbox, "go", a) /\ p.search = NoAnalysis /\ NoLineOf(p.outbox, "best")
SearchUnderWay(p, a) == NoLineOf(p.inbox, "go") /\ p.search = a /\ NoLineOf(p.outbox, "best")
BestMoveSent(p, a) == NoLineOf(p.inbox, "go") /\ p.search = NoAnalysis /\ OneLineOf(p.outbox, "best", a)

\* The process of enginePromise has no search but the one under way; the others are gone.
RowKept(p) ==
  \/ NoSearchIn(p)
  \/ /\ searching # NoSearch
     /\ SearchSent(p, searching.id) \/ SearchUnderWay(p, searching.id) \/ BestMoveSent(p, searching.id)
ProcessKept(r) ==
  IF r = child THEN RowKept(process[r])
  ELSE process[r].state = "dead" /\ process[r].search = NoAnalysis
       /\ process[r].inbox = <<>> /\ process[r].outbox = <<>>

SearchKept == searching # NoSearch => searching.id \in Analyses /\ child # Nothing

\* Who waits for readyok waits for that process, and has waited for the search before.
TurnKept ==
  /\ turn.stage # "idle" => turn.id \in Analyses
  /\ turn.stage \in {"engine", "again"} => turn.on \in DOMAIN process
  /\ turn.stage \in {"ready", "go"} => child # Nothing /\ turn.on = child
  /\ turn.stage \in {"again", "ready", "go"} => searching = NoSearch

EngineInv ==
  /\ EngineTypes /\ SearchKept /\ TurnKept /\ AnalysesAreOwn
  /\ \A r \in DOMAIN process : ProcessKept(r)

-----------------------------------------------------------------------------
\* What reading a line and writing one leave of the lines of a kind.
LEMMA LineRead ==
  ASSUME NEW Lines, NEW q \in Seq(Lines), q # <<>>, NEW kind
  PROVE  /\ Tail(q) \in Seq(Lines) /\ Head(q) \in Lines
         /\ NoLineOf(q, kind) => Head(q).kind # kind /\ NoLineOf(Tail(q), kind)
         /\ \A a : OneLineOf(q, kind, a) =>
              IF Head(q).kind = kind THEN Head(q).job = a /\ NoLineOf(Tail(q), kind)
                                     ELSE OneLineOf(Tail(q), kind, a)
<1>1. /\ Tail(q) \in Seq(Lines) /\ Head(q) \in Lines /\ Head(q) = q[1] /\ 1 \in DOMAIN q
      /\ Len(q) \in Nat /\ DOMAIN q = 1..Len(q) /\ DOMAIN Tail(q) = 1..(Len(q) - 1)
      /\ \A i \in DOMAIN Tail(q) : Tail(q)[i] = q[i + 1] /\ i + 1 \in DOMAIN q
  BY Shifted
<1>2. NoLineOf(q, kind) => Head(q).kind # kind /\ NoLineOf(Tail(q), kind)
  BY <1>1 DEF NoLineOf
<1>3. ASSUME NEW a, OneLineOf(q, kind, a)
      PROVE  IF Head(q).kind = kind THEN Head(q).job = a /\ NoLineOf(Tail(q), kind)
                                    ELSE OneLineOf(Tail(q), kind, a)
  <2>1. PICK i \in DOMAIN q : /\ q[i].kind = kind /\ q[i].job = a
                              /\ \A j \in DOMAIN q : j # i => q[j].kind # kind
    BY <1>3 DEF OneLineOf
  <2>2. CASE i = 1
    <3>1. \A k \in DOMAIN Tail(q) : k + 1 # 1
      BY <1>1
    <3> QED BY <1>1, <2>1, <2>2, <3>1 DEF NoLineOf
  <2>3. CASE i # 1
    <3>1. i - 1 \in DOMAIN Tail(q) /\ (i - 1) + 1 = i
      BY <1>1, <2>3
    <3>2. Tail(q)[i - 1] = q[i]
      BY <1>1, <3>1
    <3>3. \A j \in DOMAIN Tail(q) : j # i - 1 => j + 1 # i /\ j + 1 \in DOMAIN q /\ Tail(q)[j] = q[j + 1]
      BY <1>1
    <3>4. Head(q).kind # kind
      BY <1>1, <2>1, <2>3
    <3> QED BY <2>1, <3>1, <3>2, <3>3, <3>4 DEF OneLineOf
  <2> QED BY <2>2, <2>3
<1> QED BY <1>1, <1>2, <1>3

LEMMA LineWritten ==
  ASSUME NEW Lines, NEW q \in Seq(Lines), NEW line \in Lines, NEW kind
  PROVE  /\ q \o <<line>> = Append(q, line) /\ q \o <<>> = q
         /\ Append(q, line) \in Seq(Lines)
         /\ NoLineOf(q, kind) =>
              IF line.kind = kind THEN OneLineOf(Append(q, line), kind, line.job)
                                  ELSE NoLineOf(Append(q, line), kind)
         /\ \A a : OneLineOf(q, kind, a) /\ line.kind # kind => OneLineOf(Append(q, line), kind, a)
<1>1. /\ Append(q, line) \in Seq(Lines)
      /\ Len(q) \in Nat /\ DOMAIN q = 1..Len(q)
      /\ DOMAIN Append(q, line) = 1..(Len(q) + 1)
      /\ \A i \in DOMAIN q : Append(q, line)[i] = q[i]
      /\ Append(q, line)[Len(q) + 1] = line
  BY Appended
<1>2. q \o <<line>> = Append(q, line) /\ q \o <<>> = q
  OBVIOUS
<1> DEFINE n == Len(q) + 1
           s == Append(q, line)
<1>3. /\ n \in DOMAIN s /\ s[n] = line /\ n \notin DOMAIN q
      /\ \A i \in DOMAIN s : i = n \/ i \in DOMAIN q
      /\ \A i \in DOMAIN q : i \in DOMAIN s /\ i # n /\ s[i] = q[i]
  BY <1>1
<1> HIDE DEF n, s
<1>4. ASSUME NoLineOf(q, kind)
      PROVE  IF line.kind = kind THEN OneLineOf(s, kind, line.job) ELSE NoLineOf(s, kind)
  BY <1>3, <1>4 DEF NoLineOf, OneLineOf
<1>5. ASSUME NEW a, OneLineOf(q, kind, a), line.kind # kind PROVE OneLineOf(s, kind, a)
  BY <1>3, <1>5 DEF OneLineOf
<1> QED BY <1>1, <1>2, <1>4, <1>5 DEF s

\* What a call is told.
LEMMA Settled ==
  ASSUME EngineInv, NEW a \in Analyses, NEW state \in {"failed", "done"}, NEW got \in SomeAnalysis,
         Settle(a, state, got), state = "done" => got = a
  PROVE  /\ analysis' \in [Analyses -> [state : {"new", "pending", "failed", "done"},
                                        got : SomeAnalysis, of : Nat]]
         /\ AnalysesAreOwn'
<1> DEFINE R == [state : {"new", "pending", "failed", "done"}, got : SomeAnalysis, of : Nat]
           row == [analysis[a] EXCEPT !.state = state, !.got = got]
<1>1. analysis \in [Analyses -> R]
  BY DEF EngineInv, EngineTypes
<1>2. analysis[a] \in R
  BY <1>1
<1>3. row \in R /\ row.state = state /\ row.got = got
  BY <1>2
<1>4. analysis' = [analysis EXCEPT ![a] = row]
  BY <1>1, <1>2 DEF Settle
<1> HIDE DEF row
<1>5. /\ analysis' \in [Analyses -> R] /\ analysis'[a] = row
      /\ \A b \in Analyses : b # a => analysis'[b] = analysis[b]
  BY <1>1, <1>3, <1>4
<1> HIDE DEF R
<1>6. AnalysesAreOwn'
  BY <1>3, <1>5 DEF AnalysesAreOwn, EngineInv
<1> QED BY <1>5, <1>6 DEF R

\* A turn that rests, or is at its beginning, needs nothing.
LEMMA RestingTurn ==
  /\ Resting \in [id : SomeAnalysis, on : Nat,
                  stage : {"idle", "start", "engine", "again", "ready", "go", "search"}]
  /\ turn' = Resting => TurnKept'
<1>1. Resting.stage = "idle"
  BY DEF Resting
<1>2. Resting \in [id : SomeAnalysis, on : Nat,
                   stage : {"idle", "start", "engine", "again", "ready", "go", "search"}]
  BY DEF Resting, SomeAnalysis, Nothing
<1> QED BY <1>1, <1>2 DEF TurnKept

\* A step that leaves the processes and the search alone.
LEMMA CallStep ==
  ASSUME EngineInv, UNCHANGED <<searching, process, child>>, TurnKept', AnalysesAreOwn',
         analysis' \in [Analyses -> [state : {"new", "pending", "failed", "done"},
                                     got : SomeAnalysis, of : Nat]],
         chain' \in Seq(Analyses), cancellations' \in Nat,
         turn' \in [id : SomeAnalysis, on : Nat,
                    stage : {"idle", "start", "engine", "again", "ready", "go", "search"}]
  PROVE  EngineInv'
<1>1. EngineTypes' /\ SearchKept'
  BY DEF EngineInv, EngineTypes, SearchKept
<1>2. \A r \in DOMAIN process' : ProcessKept(r)'
  BY DEF EngineInv, ProcessKept, RowKept
<1> QED BY <1>1, <1>2 DEF EngineInv

\* A step that changes the row of one process.
LEMMA RowStep ==
  ASSUME EngineInv, NEW r \in DOMAIN process, NEW p \in ChildRows,
         process' = [process EXCEPT ![r] = p], UNCHANGED <<child, chain>>, cancellations' \in Nat,
         searching' \in [id : SomeAnalysis, settled : BOOLEAN], SearchKept',
         TurnKept', AnalysesAreOwn',
         analysis' \in [Analyses -> [state : {"new", "pending", "failed", "done"},
                                     got : SomeAnalysis, of : Nat]],
         turn' \in [id : SomeAnalysis, on : Nat,
                    stage : {"idle", "start", "engine", "again", "ready", "go", "search"}],
         r = child, RowKept(p)'
  PROVE  EngineInv'
<1>1. process \in Seq(ChildRows)
  BY DEF EngineInv, EngineTypes
<1>2. /\ process' \in Seq(ChildRows) /\ DOMAIN process' = DOMAIN process /\ process'[r] = p
      /\ \A i \in DOMAIN process : i # r => process'[i] = process[i]
  BY <1>1, Updated
<1>3. EngineTypes'
  BY <1>2 DEF EngineInv, EngineTypes
<1>4. ASSUME NEW i \in DOMAIN process' PROVE ProcessKept(i)'
  <2>1. CASE i = r
    BY <1>2, <2>1 DEF ProcessKept, RowKept
  <2>2. CASE i # r
    BY <1>2, <1>4, <2>2 DEF ProcessKept, EngineInv
  <2> QED BY <2>1, <2>2
<1> QED BY <1>3, <1>4 DEF EngineInv

\* The process of enginePromise is lost, and the search with it.
LEMMA DropStep ==
  ASSUME EngineInv, child # Nothing, DropProcess, searching' = NoSearch, UNCHANGED chain,
         cancellations' \in Nat, TurnKept', AnalysesAreOwn',
         analysis' \in [Analyses -> [state : {"new", "pending", "failed", "done"},
                                     got : SomeAnalysis, of : Nat]],
         turn' \in [id : SomeAnalysis, on : Nat,
                    stage : {"idle", "start", "engine", "again", "ready", "go", "search"}]
  PROVE  EngineInv'
<1> DEFINE p == [Child EXCEPT !.state = "dead"]
<1>1. process \in Seq(ChildRows) /\ child \in DOMAIN process
  BY DEF EngineInv, EngineTypes
<1>2. Child \in ChildRows /\ Child.inbox = <<>> /\ Child.outbox = <<>> /\ Child.search = NoAnalysis
  <2>1. <<>> \in Seq(EngineCommands) /\ <<>> \in Seq(EngineAnswers)
    OBVIOUS
  <2> QED BY <2>1 DEF Child, ChildRows, SomeAnalysis
<1>3. /\ p \in ChildRows /\ p.state = "dead" /\ p.inbox = <<>> /\ p.outbox = <<>>
      /\ p.search = NoAnalysis
  BY <1>2 DEF ChildRows
<1>4. process' = [process EXCEPT ![child] = p] /\ child' = Nothing
  BY DEF DropProcess
<1> HIDE DEF p
<1>5. /\ process' \in Seq(ChildRows) /\ DOMAIN process' = DOMAIN process /\ process'[child] = p
      /\ \A i \in DOMAIN process : i # child => process'[i] = process[i]
  BY <1>1, <1>3, <1>4, Updated
<1>6. 0 \notin DOMAIN process
  <2>1. DOMAIN process = 1..Len(process)
    BY <1>1, LenProperties
  <2> QED BY <2>1
<1>7. NoSearch \in [id : SomeAnalysis, settled : BOOLEAN]
  BY DEF NoSearch, SomeAnalysis
<1>8. EngineTypes' /\ SearchKept'
  BY <1>4, <1>5, <1>7 DEF EngineInv, EngineTypes, SearchKept, Nothing
<1>9. ASSUME NEW i \in DOMAIN process' PROVE ProcessKept(i)'
  <2>1. i # child' /\ i \in DOMAIN process
    BY <1>4, <1>5, <1>6 DEF Nothing
  <2>2. CASE i = child
    BY <1>3, <1>5, <2>1, <2>2 DEF ProcessKept
  <2>3. CASE i # child
    BY <1>5, <2>1, <2>3 DEF ProcessKept, EngineInv
  <2> QED BY <2>2, <2>3
<1> QED BY <1>8, <1>9 DEF EngineInv

\* The process that is there, or a new one.
LEMMA EnsuresStep ==
  ASSUME EngineInv, NEW stage \in {"engine", "again"}, turn.stage \in {"start", "engine"},
         stage = "again" => searching = NoSearch, Ensures(stage),
         UNCHANGED <<analysis, chain, searching, cancellations>>
  PROVE  EngineInv'
<1> DEFINE n == Len(process) + 1
<1>1. /\ process \in Seq(ChildRows) /\ DOMAIN process = 1..Len(process) /\ Len(process) \in Nat
      /\ child = Nothing \/ child \in DOMAIN process
  BY LenProperties DEF EngineInv, EngineTypes
<1>2. Child \in ChildRows /\ NoSearchIn(Child)
  <2>1. <<>> \in Seq(EngineCommands) /\ <<>> \in Seq(EngineAnswers)
    OBVIOUS
  <2>2. Child.inbox = <<>> /\ Child.outbox = <<>> /\ Child.search = NoAnalysis
    BY DEF Child
  <2> QED BY <2>1, <2>2 DEF Child, ChildRows, SomeAnalysis, NoSearchIn, NoLineOf
<1>3. /\ turn \in [id : SomeAnalysis, on : Nat,
                   stage : {"idle", "start", "engine", "again", "ready", "go", "search"}]
      /\ turn.id \in Analyses
  BY DEF EngineInv, EngineTypes, TurnKept
<1>4. CASE child # Nothing
  <2>1. turn' = [turn EXCEPT !.stage = stage, !.on = child] /\ UNCHANGED <<process, child>>
    BY <1>4 DEF Ensures
  <2>2. child \in DOMAIN process /\ child \in Nat
    BY <1>1, <1>4
  <2>3. /\ turn' \in [id : SomeAnalysis, on : Nat,
                      stage : {"idle", "start", "engine", "again", "ready", "go", "search"}]
        /\ turn'.stage = stage /\ turn'.on = child /\ turn'.id = turn.id
    BY <1>3, <2>1, <2>2
  <2>4. TurnKept'
    BY <1>3, <2>1, <2>2, <2>3 DEF TurnKept
  <2>5. AnalysesAreOwn' /\ analysis' \in [Analyses -> [state : {"new", "pending", "failed", "done"},
                                                       got : SomeAnalysis, of : Nat]]
        /\ chain' \in Seq(Analyses) /\ cancellations' \in Nat
    BY DEF EngineInv, AnalysesAreOwn, EngineTypes
  <2> QED BY <2>1, <2>3, <2>4, <2>5, CallStep
<1>5. CASE child = Nothing
  <2>1. /\ process' = Append(process, Child) /\ child' = n
        /\ turn' = [turn EXCEPT !.stage = stage, !.on = n]
    BY <1>5 DEF Ensures
  <2>2. n \in Nat /\ n \notin DOMAIN process /\ n # 0
    BY <1>1
  <2>3. /\ process' \in Seq(ChildRows) /\ DOMAIN process' = 1..n /\ process'[n] = Child
        /\ \A i \in DOMAIN process : process'[i] = process[i]
    BY <1>1, <1>2, <2>1, Appended
  <2>4. n \in DOMAIN process' /\ \A i \in DOMAIN process' : i = n \/ i \in DOMAIN process
    BY <1>1, <2>3
  <2> HIDE DEF n
  <2>5. /\ turn' \in [id : SomeAnalysis, on : Nat,
                      stage : {"idle", "start", "engine", "again", "ready", "go", "search"}]
        /\ turn'.stage = stage /\ turn'.on = n /\ turn'.id = turn.id
    BY <1>3, <2>1, <2>2
  <2>6. searching = NoSearch
    BY <1>5 DEF EngineInv, SearchKept
  <2>7. EngineTypes' /\ SearchKept' /\ TurnKept' /\ AnalysesAreOwn'
    <3>1. EngineTypes'
      BY <2>1, <2>3, <2>4, <2>5 DEF EngineInv, EngineTypes
    <3>2. SearchKept' /\ TurnKept'
      BY <1>3, <2>1, <2>2, <2>4, <2>5, <2>6 DEF SearchKept, TurnKept
    <3>3. AnalysesAreOwn'
      BY DEF EngineInv, AnalysesAreOwn
    <3> QED BY <3>1, <3>2, <3>3
  <2>8. ASSUME NEW i \in DOMAIN process' PROVE ProcessKept(i)'
    <3>1. CASE i = n
      BY <1>2, <2>1, <2>3, <3>1 DEF ProcessKept, RowKept
    <3>2. CASE i # n
      <4>1. i \in DOMAIN process /\ process'[i] = process[i] /\ i # 0
        BY <1>1, <2>3, <2>4, <2>8, <3>2
      <4> QED BY <1>5, <2>1, <3>2, <4>1 DEF ProcessKept, EngineInv, Nothing
    <3> QED BY <3>1, <3>2
  <2> QED BY <2>7, <2>8 DEF EngineInv
<1> QED BY <1>4, <1>5

LEMMA AsksStep ==
  ASSUME EngineInv, NEW a \in Analyses, AsksForAnalysis(a)
  PROVE  EngineInv'
<1> DEFINE R == [state : {"new", "pending", "failed", "done"}, got : SomeAnalysis, of : Nat]
           row == [state |-> "pending", got |-> NoAnalysis, of |-> cancellations]
<1>1. /\ analysis' = [analysis EXCEPT ![a] = row] /\ chain' = Append(chain, a)
      /\ UNCHANGED <<turn, searching, cancellations, process, child>>
  BY DEF AsksForAnalysis
<1>2. analysis \in [Analyses -> R] /\ cancellations \in Nat /\ chain \in Seq(Analyses)
  BY DEF EngineInv, EngineTypes
<1>3. row \in R /\ row.state = "pending"
  BY <1>2 DEF SomeAnalysis
<1> HIDE DEF row
<1>4. analysis' \in [Analyses -> R] /\ analysis'[a] = row /\ \A b \in Analyses : b # a => analysis'[b] = analysis[b]
  BY <1>1, <1>2, <1>3
<1>5. chain' \in Seq(Analyses)
  BY <1>1, <1>2, Appended
<1> HIDE DEF R
<1>6. AnalysesAreOwn'
  BY <1>3, <1>4 DEF AnalysesAreOwn, EngineInv
<1>7. TurnKept' /\ turn' \in [id : SomeAnalysis, on : Nat,
                    stage : {"idle", "start", "engine", "again", "ready", "go", "search"}]
  BY <1>1 DEF EngineInv, EngineTypes, TurnKept
<1> QED BY <1>1, <1>2, <1>4, <1>5, <1>6, <1>7, CallStep DEF R

LEMMA BeginsStep ==
  ASSUME EngineInv, Begins
  PROVE  EngineInv'
<1>1. /\ chain # <<>> /\ chain' = Tail(chain)
      /\ UNCHANGED <<searching, cancellations, process, child>>
  BY DEF Begins
<1>2. chain \in Seq(Analyses) /\ cancellations \in Nat
  BY DEF EngineInv, EngineTypes
<1>3. PICK a \in Analyses : a = Head(chain)
  BY <1>1, <1>2, Shifted
<1>4. chain' \in Seq(Analyses)
  BY <1>1, <1>2, Shifted
<1>5. CASE analysis[a].of # cancellations
  <2>1. Settle(a, "failed", NoAnalysis) /\ UNCHANGED turn
    BY <1>3, <1>5 DEF Begins
  <2>2. AnalysesAreOwn' /\ analysis' \in [Analyses -> [state : {"new", "pending", "failed", "done"},
                                                       got : SomeAnalysis, of : Nat]]
    BY <2>1, Settled DEF SomeAnalysis
  <2>3. TurnKept' /\ turn' \in [id : SomeAnalysis, on : Nat,
                      stage : {"idle", "start", "engine", "again", "ready", "go", "search"}]
    BY <1>1, <2>1 DEF EngineInv, EngineTypes, TurnKept
  <2> QED BY <1>1, <1>2, <1>4, <2>2, <2>3, CallStep
<1>6. CASE analysis[a].of = cancellations
  <2>1. turn' = [Resting EXCEPT !.id = a, !.stage = "start"] /\ UNCHANGED analysis
    BY <1>3, <1>6 DEF Begins
  <2>2. /\ turn' \in [id : SomeAnalysis, on : Nat,
                      stage : {"idle", "start", "engine", "again", "ready", "go", "search"}]
        /\ turn'.id = a /\ turn'.stage = "start"
    BY <2>1, RestingTurn DEF SomeAnalysis
  <2>3. TurnKept'
    BY <2>2 DEF TurnKept
  <2>4. AnalysesAreOwn' /\ analysis' \in [Analyses -> [state : {"new", "pending", "failed", "done"},
                                                       got : SomeAnalysis, of : Nat]]
    BY <2>1 DEF EngineInv, AnalysesAreOwn, EngineTypes
  <2> QED BY <1>1, <1>2, <1>4, <2>2, <2>3, <2>4, CallStep
<1> QED BY <1>5, <1>6

\* The turn fails: what it asked for is told, and the next one may begin.
LEMMA TurnFails ==
  ASSUME EngineInv, NEW a \in Analyses, Settle(a, "failed", NoAnalysis), turn' = Resting
  PROVE  /\ TurnKept' /\ AnalysesAreOwn'
         /\ analysis' \in [Analyses -> [state : {"new", "pending", "failed", "done"},
                                        got : SomeAnalysis, of : Nat]]
         /\ turn' \in [id : SomeAnalysis, on : Nat,
                       stage : {"idle", "start", "engine", "again", "ready", "go", "search"}]
  BY Settled, RestingTurn DEF SomeAnalysis

\* A line that is written to the process of enginePromise.
LEMMA WritesRow ==
  ASSUME EngineInv, child # Nothing, NEW line \in EngineCommands, Writes(child, <<line>>)
  PROVE  \E p \in ChildRows :
           /\ process' = [process EXCEPT ![child] = p]
           /\ p = [process[child] EXCEPT !.inbox = Append(process[child].inbox, line)]
           /\ p.inbox = Append(process[child].inbox, line) /\ p.outbox = process[child].outbox
           /\ p.search = process[child].search
           /\ line.kind # "go" /\ RowKept(process[child]) => RowKept(p)
           /\ line.kind = "go" /\ NoSearchIn(process[child]) => SearchSent(p, line.job)
<1> DEFINE q == process[child]
           p == [q EXCEPT !.inbox = Append(q.inbox, line)]
<1>1. process \in Seq(ChildRows) /\ child \in DOMAIN process
  BY DEF EngineInv, EngineTypes
<1>2. q \in ChildRows /\ q.inbox \in Seq(EngineCommands)
  <2>1. q \in ChildRows
    BY <1>1, SeqRows
  <2> QED BY <2>1 DEF ChildRows
<1>3. q.inbox \o <<line>> = Append(q.inbox, line) /\ Append(q.inbox, line) \in Seq(EngineCommands)
  BY <1>2, LineWritten
<1>4. process' = [process EXCEPT ![child].inbox = @ \o <<line>>]
  BY DEF Writes
<1>5. process' = [process EXCEPT ![child] = p]
  BY <1>1, <1>3, <1>4
<1>6. /\ p \in ChildRows /\ p.inbox = Append(q.inbox, line) /\ p.outbox = q.outbox
      /\ p.search = q.search
  BY <1>2, <1>3 DEF ChildRows
<1>7. line.kind # "go" /\ RowKept(q) => RowKept(p)
  <2>1. ASSUME line.kind # "go"
        PROVE  /\ NoLineOf(q.inbox, "go") => NoLineOf(p.inbox, "go")
               /\ \A a : OneLineOf(q.inbox, "go", a) => OneLineOf(p.inbox, "go", a)
    BY <1>2, <1>6, <2>1, LineWritten
  <2> HIDE DEF p, q
  <2> QED BY <1>6, <2>1 DEF RowKept, NoSearchIn, SearchSent, SearchUnderWay, BestMoveSent
<1>8. line.kind = "go" /\ NoSearchIn(q) => SearchSent(p, line.job)
  <2>1. line.kind = "go" /\ NoLineOf(q.inbox, "go") => OneLineOf(p.inbox, "go", line.job)
    BY <1>2, <1>6, LineWritten
  <2> HIDE DEF p, q
  <2> QED BY <1>6, <2>1 DEF NoSearchIn, SearchSent
<1> QED BY <1>5, <1>6, <1>7, <1>8

LEMMA AsksReadyStep ==
  ASSUME EngineInv, AsksReady
  PROVE  EngineInv'
<1>1. /\ turn.stage = "again" /\ searching = NoSearch /\ turn.on \in DOMAIN process /\ turn.id \in Analyses
      /\ UNCHANGED <<chain, searching, cancellations, child>>
  BY DEF AsksReady, EngineInv, TurnKept
<1>2. chain' \in Seq(Analyses) /\ cancellations' \in Nat
      /\ searching' \in [id : SomeAnalysis, settled : BOOLEAN] /\ SearchKept'
  BY <1>1 DEF EngineInv, EngineTypes, SearchKept
<1>3. CASE process[turn.on].state = "up"
  <2> DEFINE line == [kind |-> "ready", job |-> NoAnalysis]
  <2>1. turn.on = child /\ child # Nothing
    <3>1. turn.on = child
      BY <1>1, <1>3 DEF EngineInv, ProcessKept
    <3>2. 0 \notin DOMAIN process
      <4>1. DOMAIN process = 1..Len(process)
        BY LenProperties DEF EngineInv, EngineTypes
      <4> QED BY <4>1
    <3> QED BY <1>1, <3>1, <3>2 DEF Nothing
  <2>2. /\ Writes(child, <<line>>) /\ turn' = [turn EXCEPT !.stage = "ready"] /\ UNCHANGED analysis
    BY <1>3, <2>1 DEF AsksReady
  <2>3. line \in EngineCommands /\ line.kind # "go"
    BY DEF EngineCommands, SomeAnalysis
  <2> HIDE DEF line
  <2>4. PICK p \in ChildRows :
           /\ process' = [process EXCEPT ![child] = p]
           /\ RowKept(process[child]) => RowKept(p)
    BY <2>1, <2>2, <2>3, WritesRow
  <2>5. child \in DOMAIN process /\ RowKept(process[child])
    BY <1>1, <2>1 DEF EngineInv, ProcessKept
  <2>6. RowKept(p)'
    BY <1>1, <2>4, <2>5 DEF RowKept
  <2>7. turn \in [id : SomeAnalysis, on : Nat,
                  stage : {"idle", "start", "engine", "again", "ready", "go", "search"}]
    BY DEF EngineInv, EngineTypes
  <2>8. /\ turn' \in [id : SomeAnalysis, on : Nat,
                      stage : {"idle", "start", "engine", "again", "ready", "go", "search"}]
        /\ turn'.stage = "ready" /\ turn'.on = child /\ turn'.id = turn.id
    BY <2>1, <2>2, <2>7
  <2>9. TurnKept'
    BY <1>1, <2>1, <2>8 DEF TurnKept
  <2>10. AnalysesAreOwn' /\ analysis' \in [Analyses -> [state : {"new", "pending", "failed", "done"},
                                                        got : SomeAnalysis, of : Nat]]
    BY <2>2 DEF EngineInv, AnalysesAreOwn, EngineTypes
  <2> QED BY <1>1, <1>2, <2>4, <2>5, <2>6, <2>8, <2>9, <2>10, RowStep
<1>4. CASE process[turn.on].state # "up"
  <2>1. Settle(turn.id, "failed", NoAnalysis) /\ turn' = Resting /\ UNCHANGED process
    BY <1>4 DEF AsksReady
  <2> QED BY <1>1, <1>2, <2>1, TurnFails, CallStep
<1> QED BY <1>3, <1>4

LEMMA GoesStep ==
  ASSUME EngineInv, Goes
  PROVE  EngineInv'
<1>1. /\ turn.stage = "go" /\ searching = NoSearch /\ child # Nothing /\ turn.on = child
      /\ turn.id \in Analyses /\ UNCHANGED <<chain, cancellations, child>>
  BY DEF Goes, EngineInv, TurnKept
<1>2. chain' \in Seq(Analyses) /\ cancellations' \in Nat
  BY <1>1 DEF EngineInv, EngineTypes
<1>3. CASE searching' = [id |-> turn.id, settled |-> FALSE] /\ Writes(turn.on, <<[kind |-> "go", job |-> turn.id]>>)
           /\ turn' = [turn EXCEPT !.stage = "search"] /\ UNCHANGED analysis
  <2> DEFINE line == [kind |-> "go", job |-> turn.id]
  <2>1. Writes(child, <<line>>)
    BY <1>1, <1>3
  <2>2. line \in EngineCommands /\ line.kind = "go" /\ line.job = turn.id
    BY <1>1 DEF EngineCommands, SomeAnalysis
  <2> HIDE DEF line
  <2>3. PICK p \in ChildRows :
           /\ process' = [process EXCEPT ![child] = p]
           /\ NoSearchIn(process[child]) => SearchSent(p, turn.id)
    BY <1>1, <2>1, <2>2, WritesRow
  <2>4. child \in DOMAIN process /\ NoSearchIn(process[child])
    BY <1>1 DEF EngineInv, EngineTypes, ProcessKept, RowKept
  <2>5. /\ searching' \in [id : SomeAnalysis, settled : BOOLEAN] /\ searching'.id = turn.id
        /\ searching' # NoSearch
    BY <1>1, <1>3, AnalysesAssumption DEF SomeAnalysis, NoSearch
  <2>6. RowKept(p)'
    BY <2>3, <2>4, <2>5 DEF RowKept, SearchSent, NoSearch
  <2>7. turn \in [id : SomeAnalysis, on : Nat,
                  stage : {"idle", "start", "engine", "again", "ready", "go", "search"}]
    BY DEF EngineInv, EngineTypes
  <2>8. /\ turn' \in [id : SomeAnalysis, on : Nat,
                      stage : {"idle", "start", "engine", "again", "ready", "go", "search"}]
        /\ turn'.stage = "search" /\ turn'.id = turn.id
    BY <1>3, <2>7
  <2>9. TurnKept' /\ SearchKept'
    BY <1>1, <2>5, <2>8 DEF TurnKept, SearchKept
  <2>10. AnalysesAreOwn' /\ analysis' \in [Analyses -> [state : {"new", "pending", "failed", "done"},
                                                        got : SomeAnalysis, of : Nat]]
    BY <1>3 DEF EngineInv, AnalysesAreOwn, EngineTypes
  <2> QED BY <1>1, <1>2, <2>3, <2>4, <2>5, <2>6, <2>8, <2>9, <2>10, RowStep
<1>4. CASE Settle(turn.id, "failed", NoAnalysis) /\ turn' = Resting /\ UNCHANGED <<searching, process>>
  BY <1>1, <1>2, <1>4, TurnFails, CallStep
<1> QED BY <1>3, <1>4 DEF Goes

\* A stop leaves the search where it is, until the process has answered it.
LEMMA StopStep ==
  ASSUME EngineInv, StopAndReject, cancellations' \in Nat
  PROVE  EngineInv'
<1>1. /\ searching # NoSearch /\ searching' = [searching EXCEPT !.settled = TRUE]
      /\ UNCHANGED <<chain, child>>
  BY DEF StopAndReject
<1>2. searching.id \in Analyses /\ child # Nothing /\ child \in DOMAIN process
      /\ searching \in [id : SomeAnalysis, settled : BOOLEAN]
  BY <1>1 DEF EngineInv, EngineTypes, SearchKept
<1>3. /\ searching' \in [id : SomeAnalysis, settled : BOOLEAN] /\ searching'.id = searching.id
      /\ searching' # NoSearch
  BY <1>1, <1>2, AnalysesAssumption DEF NoSearch
<1>4. /\ AnalysesAreOwn' /\ analysis' \in [Analyses -> [state : {"new", "pending", "failed", "done"},
                                                        got : SomeAnalysis, of : Nat]]
      /\ turn' = turn \/ turn' = Resting
  <2>1. CASE searching.settled
    BY <2>1 DEF StopAndReject, EngineInv, AnalysesAreOwn, EngineTypes
  <2>2. CASE ~searching.settled
    <3>1. Settle(searching.id, "failed", NoAnalysis) /\ turn' = Resting
      BY <2>2 DEF StopAndReject
    <3> QED BY <1>2, <3>1, Settled DEF SomeAnalysis
  <2> QED BY <2>1, <2>2
<1>5. PICK p \in ChildRows :
        /\ process' = [process EXCEPT ![child] = p]
        /\ RowKept(process[child]) => RowKept(p)
  <2>1. CASE process[child].state = "up"
    <3> DEFINE line == [kind |-> "stop", job |-> NoAnalysis]
    <3>1. Writes(child, <<line>>)
      BY <2>1 DEF StopAndReject
    <3>2. line \in EngineCommands /\ line.kind # "go"
      BY DEF EngineCommands, SomeAnalysis
    <3> HIDE DEF line
    <3> QED BY <1>2, <3>1, <3>2, WritesRow
  <2>2. CASE process[child].state # "up"
    <3>1. process' = process /\ process \in Seq(ChildRows)
      BY <2>2 DEF StopAndReject, EngineInv, EngineTypes
    <3>2. process[child] \in ChildRows
      BY <1>2, <3>1, SeqRows
    <3>3. process = [process EXCEPT ![child] = process[child]]
      BY <1>2, <3>1
    <3> QED BY <3>1, <3>2, <3>3
  <2> QED BY <2>1, <2>2
<1>6. DOMAIN process' = DOMAIN process
  <2>1. process \in Seq(ChildRows)
    BY DEF EngineInv, EngineTypes
  <2> QED BY <1>2, <1>5, <2>1, Updated
<1>7. RowKept(p)'
  <2>1. RowKept(process[child])
    BY <1>2 DEF EngineInv, ProcessKept
  <2> QED BY <1>1, <1>3, <1>5, <2>1 DEF RowKept, NoSearch
<1>8. turn' \in [id : SomeAnalysis, on : Nat,
                 stage : {"idle", "start", "engine", "again", "ready", "go", "search"}]
  BY <1>4, RestingTurn DEF EngineInv, EngineTypes
<1>9. TurnKept'
  <2>1. CASE turn' = Resting
    BY <2>1, RestingTurn
  <2>2. CASE turn' = turn
    BY <1>1, <1>6, <2>2 DEF EngineInv, TurnKept
  <2> QED BY <1>4, <2>1, <2>2
<1>10. SearchKept'
  BY <1>1, <1>2, <1>3 DEF SearchKept
<1> QED BY <1>1, <1>2, <1>3, <1>4, <1>5, <1>7, <1>8, <1>9, <1>10, RowStep

LEMMA CancelsStep ==
  ASSUME EngineInv, CancelsAll
  PROVE  EngineInv'
<1>1. cancellations' \in Nat
  BY DEF CancelsAll, EngineInv, EngineTypes
<1>2. CASE StopAndReject
  BY <1>1, <1>2, StopStep
<1>3. CASE UNCHANGED <<analysis, chain, turn, searching, watchdog, process, child, deaths>>
  BY <1>1, <1>3, CallStep DEF EngineInv, EngineTypes, TurnKept, AnalysesAreOwn
<1> QED BY <1>2, <1>3 DEF CancelsAll

\* What a lost process leaves of the turn: it waits for no line of it.
LEMMA DroppedTurn ==
  ASSUME EngineInv, child # Nothing, DropProcess, searching' = NoSearch,
         turn' = Resting \/ (turn' = turn /\ turn.stage \notin {"ready", "go"})
  PROVE  /\ TurnKept'
         /\ turn' \in [id : SomeAnalysis, on : Nat,
                       stage : {"idle", "start", "engine", "again", "ready", "go", "search"}]
<1>1. DOMAIN process' = DOMAIN process
  BY DEF DropProcess, EngineInv, EngineTypes
<1>2. CASE turn' = Resting
  BY <1>2, RestingTurn
<1>3. CASE turn' = turn /\ turn.stage \notin {"ready", "go"}
  BY <1>1, <1>3 DEF EngineInv, EngineTypes, TurnKept
<1> QED BY <1>2, <1>3

LEMMA WatchdogStep ==
  ASSUME EngineInv, WatchdogFires
  PROVE  EngineInv'
<1>1. UNCHANGED <<analysis, chain, turn, cancellations>> /\ watchdog # NoAnalysis
  BY DEF WatchdogFires
<1>2. /\ AnalysesAreOwn' /\ analysis' \in [Analyses -> [state : {"new", "pending", "failed", "done"},
                                                        got : SomeAnalysis, of : Nat]]
      /\ chain' \in Seq(Analyses) /\ cancellations' \in Nat
  BY <1>1 DEF EngineInv, AnalysesAreOwn, EngineTypes
<1>3. CASE searching.id = watchdog
  <2>1. DropProcess /\ searching' = NoSearch
    BY <1>3 DEF WatchdogFires
  <2>2. searching # NoSearch
    BY <1>1, <1>3 DEF NoSearch
  <2>3. child # Nothing /\ turn.stage \notin {"ready", "go"}
    BY <2>2 DEF EngineInv, SearchKept, TurnKept
  <2> QED BY <1>1, <1>2, <2>1, <2>3, DroppedTurn, DropStep
<1>4. CASE searching.id # watchdog
  <2>1. UNCHANGED <<process, child, searching>>
    BY <1>4 DEF WatchdogFires
  <2> QED BY <1>1, <1>2, <2>1, CallStep DEF EngineInv, EngineTypes, TurnKept
<1> QED BY <1>3, <1>4

LEMMA DiesStep ==
  ASSUME EngineInv, NEW r \in DOMAIN process, ProcessDies(r)
  PROVE  EngineInv'
<1>1. /\ r = child /\ DropProcess /\ searching' = NoSearch /\ UNCHANGED <<chain, cancellations>>
      /\ turn.stage \notin {"start", "go"}
  BY DEF ProcessDies, Rests
<1>2. child # Nothing
  <2>1. DOMAIN process = 1..Len(process)
    BY LenProperties DEF EngineInv, EngineTypes
  <2> QED BY <1>1, <2>1 DEF Nothing
<1>3. chain' \in Seq(Analyses) /\ cancellations' \in Nat
  BY <1>1 DEF EngineInv, EngineTypes
<1>4. CASE turn.on = r /\ turn.stage \in {"engine", "again", "ready", "search"} /\ ~searching.settled
  <2>1. Settle(turn.id, "failed", NoAnalysis) /\ turn' = Resting
    BY <1>4 DEF ProcessDies
  <2>2. turn.id \in Analyses
    BY <1>4 DEF EngineInv, TurnKept
  <2> QED BY <1>1, <1>2, <1>3, <2>1, <2>2, TurnFails, DroppedTurn, DropStep
<1>5. CASE ~(turn.on = r /\ turn.stage \in {"engine", "again", "ready", "search"} /\ ~searching.settled)
  <2>1. UNCHANGED <<analysis, turn>>
    BY <1>5 DEF ProcessDies
  <2>2. turn.stage # "ready"
    BY <1>1, <1>5 DEF EngineInv, TurnKept, NoSearch
  <2>3. /\ AnalysesAreOwn' /\ analysis' \in [Analyses -> [state : {"new", "pending", "failed", "done"},
                                                          got : SomeAnalysis, of : Nat]]
    BY <2>1 DEF EngineInv, AnalysesAreOwn, EngineTypes
  <2> QED BY <1>1, <1>2, <1>3, <2>1, <2>2, <2>3, DroppedTurn, DropStep
<1> QED BY <1>4, <1>5

\* A process that reads, searches and answers, or is up: its row alone changes.
LEMMA ChildStep ==
  ASSUME EngineInv, NEW p \in ChildRows, child \in DOMAIN process,
         process' = [process EXCEPT ![child] = p], RowKept(process[child]) => RowKept(p),
         UNCHANGED <<analysis, chain, turn, searching, cancellations, child>>
  PROVE  EngineInv'
<1>1. RowKept(process[child])
  BY DEF EngineInv, ProcessKept
<1>2. RowKept(p)'
  BY <1>1 DEF RowKept
<1>3. DOMAIN process' = DOMAIN process
  BY DEF EngineInv, EngineTypes
<1>4. /\ SearchKept' /\ TurnKept' /\ AnalysesAreOwn'
      /\ searching' \in [id : SomeAnalysis, settled : BOOLEAN] /\ cancellations' \in Nat
      /\ analysis' \in [Analyses -> [state : {"new", "pending", "failed", "done"},
                                     got : SomeAnalysis, of : Nat]]
      /\ turn' \in [id : SomeAnalysis, on : Nat,
                    stage : {"idle", "start", "engine", "again", "ready", "go", "search"}]
  BY <1>3 DEF EngineInv, EngineTypes, SearchKept, TurnKept, AnalysesAreOwn
<1> QED BY <1>2, <1>4, RowStep

\* Who does something is the process of enginePromise.
LEMMA LiveProcess ==
  ASSUME EngineInv, NEW r \in DOMAIN process,
         \/ process[r].state # "dead" \/ process[r].search # NoAnalysis \/ process[r].outbox # <<>>
  PROVE  r = child /\ process[r] \in ChildRows
<1>1. r = child
  BY DEF EngineInv, ProcessKept
<1>2. process[r] \in ChildRows
  BY SeqRows DEF EngineInv, EngineTypes
<1> QED BY <1>1, <1>2

LEMMA StartsStep ==
  ASSUME EngineInv, NEW r \in DOMAIN process, ProcessStarts(r)
  PROVE  EngineInv'
<1> DEFINE p == [process[r] EXCEPT !.state = "up"]
<1>1. /\ process[r].state = "starting" /\ process' = [process EXCEPT ![r] = p]
      /\ UNCHANGED <<analysis, chain, turn, searching, cancellations, child>>
  BY DEF ProcessStarts, EngineInv, EngineTypes
<1>2. r = child /\ process[r] \in ChildRows
  BY <1>1, LiveProcess
<1>3. /\ p \in ChildRows /\ p.inbox = process[r].inbox /\ p.outbox = process[r].outbox
      /\ p.search = process[r].search
  BY <1>2 DEF ChildRows
<1> HIDE DEF p
<1>4. RowKept(process[r]) => RowKept(p)
  BY <1>3 DEF RowKept, NoSearchIn, SearchSent, SearchUnderWay, BestMoveSent
<1> QED BY <1>1, <1>2, <1>3, <1>4, ChildStep

\* The lines a process answers with, and the best moves among them.
LEMMA LineSaid ==
  ASSUME NEW q \in Seq(EngineAnswers), NEW line \in EngineAnswers
  PROVE  /\ q \o <<line>> \in Seq(EngineAnswers)
         /\ line.kind # "best" =>
              /\ NoLineOf(q, "best") => NoLineOf(q \o <<line>>, "best")
              /\ \A a : OneLineOf(q, "best", a) => OneLineOf(q \o <<line>>, "best", a)
         /\ line.kind = "best" /\ NoLineOf(q, "best") => OneLineOf(q \o <<line>>, "best", line.job)
<1>1. q \o <<line>> = Append(q, line)
  OBVIOUS
<1>2. /\ Append(q, line) \in Seq(EngineAnswers)
      /\ NoLineOf(q, "best") =>
           IF line.kind = "best" THEN OneLineOf(Append(q, line), "best", line.job)
                                 ELSE NoLineOf(Append(q, line), "best")
      /\ \A a : OneLineOf(q, "best", a) /\ line.kind # "best" => OneLineOf(Append(q, line), "best", a)
  BY LineWritten
<1> QED BY <1>1, <1>2

LEMMA ReadsStep ==
  ASSUME EngineInv, NEW r \in DOMAIN process, ProcessReads(r), NEW q, q = process[r]
  PROVE  EngineInv'
<1> DEFINE m == Head(q.inbox)
           says == IF m.kind = "ready" THEN <<[kind |-> "ready", job |-> NoAnalysis]>>
                   ELSE IF m.kind = "stop" /\ q.search # NoAnalysis
                        THEN <<[kind |-> "best", job |-> q.search]>> ELSE <<>>
           search == IF m.kind = "go" THEN m.job ELSE IF m.kind = "stop" THEN NoAnalysis ELSE q.search
           p == [q EXCEPT !.inbox = Tail(q.inbox), !.outbox = q.outbox \o says, !.search = search]
<1>1. /\ q.state = "up" /\ q.inbox # <<>>
      /\ UNCHANGED <<analysis, chain, turn, searching, cancellations, child>>
  BY DEF ProcessReads
<1>2. r = child /\ q \in ChildRows
  BY <1>1, LiveProcess
<1>3. q.inbox \in Seq(EngineCommands) /\ q.outbox \in Seq(EngineAnswers) /\ q.search \in SomeAnalysis
  BY <1>2 DEF ChildRows
<1>4. process' = [process EXCEPT ![r] = p]
  BY DEF ProcessReads
<1>5. /\ Tail(q.inbox) \in Seq(EngineCommands) /\ m \in EngineCommands
      /\ NoLineOf(q.inbox, "go") => m.kind # "go" /\ NoLineOf(Tail(q.inbox), "go")
      /\ \A a : OneLineOf(q.inbox, "go", a) =>
           IF m.kind = "go" THEN m.job = a /\ NoLineOf(Tail(q.inbox), "go")
                            ELSE OneLineOf(Tail(q.inbox), "go", a)
  BY <1>1, <1>3, LineRead
<1> HIDE DEF m
<1>6. /\ q.outbox \o says \in Seq(EngineAnswers)
      /\ ~(m.kind = "stop" /\ q.search # NoAnalysis) =>
           /\ NoLineOf(q.outbox, "best") => NoLineOf(q.outbox \o says, "best")
           /\ \A a : OneLineOf(q.outbox, "best", a) => OneLineOf(q.outbox \o says, "best", a)
      /\ m.kind = "stop" /\ q.search # NoAnalysis /\ NoLineOf(q.outbox, "best") =>
           OneLineOf(q.outbox \o says, "best", q.search)
  <2>1. CASE m.kind = "ready"
    <3> DEFINE line == [kind |-> "ready", job |-> NoAnalysis]
    <3>1. says = <<line>> /\ line \in EngineAnswers /\ line.kind = "ready"
      BY <2>1 DEF EngineAnswers, SomeAnalysis
    <3> HIDE DEF says, line
    <3>2. /\ q.outbox \o <<line>> \in Seq(EngineAnswers)
          /\ NoLineOf(q.outbox, "best") => NoLineOf(q.outbox \o <<line>>, "best")
          /\ \A a : OneLineOf(q.outbox, "best", a) => OneLineOf(q.outbox \o <<line>>, "best", a)
      BY <1>3, <3>1, LineSaid
    <3> QED BY <2>1, <3>1, <3>2
  <2>2. CASE m.kind = "stop" /\ q.search # NoAnalysis
    <3> DEFINE line == [kind |-> "best", job |-> q.search]
    <3>1. says = <<line>> /\ line \in EngineAnswers /\ line.kind = "best" /\ line.job = q.search
      BY <1>3, <2>2 DEF EngineAnswers
    <3> HIDE DEF says, line
    <3>2. /\ q.outbox \o <<line>> \in Seq(EngineAnswers)
          /\ NoLineOf(q.outbox, "best") => OneLineOf(q.outbox \o <<line>>, "best", q.search)
      BY <1>3, <3>1, LineSaid
    <3> QED BY <2>2, <3>1, <3>2
  <2>3. CASE m.kind # "ready" /\ ~(m.kind = "stop" /\ q.search # NoAnalysis)
    <3>1. says = <<>>
      BY <2>3
    <3> HIDE DEF says
    <3>2. q.outbox \o <<>> = q.outbox
      BY <1>3, ConcatEmptySeq
    <3>3. q.outbox \o says = q.outbox
      BY <3>1, <3>2
    <3> QED BY <1>3, <2>3, <3>3
  <2> QED BY <2>1, <2>2, <2>3
<1>7. search \in SomeAnalysis
  BY <1>3, <1>5 DEF EngineCommands, SomeAnalysis
<1> DEFINE outbox == q.outbox \o says
<1> HIDE DEF says, search
<1>8. outbox \in Seq(EngineAnswers)
  BY <1>6
<1>9. p = [q EXCEPT !.inbox = Tail(q.inbox), !.outbox = outbox, !.search = search]
  OBVIOUS
<1> HIDE DEF outbox
<1>10. /\ p \in ChildRows /\ p.inbox = Tail(q.inbox) /\ p.outbox = outbox /\ p.search = search
  BY <1>2, <1>5, <1>7, <1>8, <1>9 DEF ChildRows
<1> HIDE DEF p
<1>11. ASSUME RowKept(q) PROVE RowKept(p)
  <2>1. CASE m.kind = "go"
    <3>1. /\ SearchSent(q, searching.id) /\ searching # NoSearch
          /\ search = searching.id
      BY <1>5, <1>11, <2>1 DEF RowKept, NoSearchIn, SearchSent, SearchUnderWay, BestMoveSent, search
    <3>2. SearchUnderWay(p, searching.id)
      BY <1>5, <1>6, <1>10, <2>1, <3>1 DEF SearchSent, SearchUnderWay, outbox
    <3> QED BY <3>1, <3>2 DEF RowKept
  <2>2. CASE m.kind = "stop" /\ q.search # NoAnalysis
    <3>1. SearchUnderWay(q, searching.id) /\ searching # NoSearch /\ search = NoAnalysis
      BY <1>11, <2>2 DEF RowKept, NoSearchIn, SearchSent, SearchUnderWay, BestMoveSent, search
    <3>2. BestMoveSent(p, searching.id)
      BY <1>5, <1>6, <1>10, <2>2, <3>1 DEF BestMoveSent, SearchUnderWay, outbox
    <3> QED BY <3>1, <3>2 DEF RowKept
  <2>3. CASE m.kind # "go" /\ ~(m.kind = "stop" /\ q.search # NoAnalysis)
    <3>1. search = q.search
      BY <2>3 DEF search
    <3>2. /\ NoLineOf(q.inbox, "go") => NoLineOf(p.inbox, "go")
          /\ \A a : OneLineOf(q.inbox, "go", a) => OneLineOf(p.inbox, "go", a)
      BY <1>5, <1>10, <2>3
    <3>3. /\ NoLineOf(q.outbox, "best") => NoLineOf(p.outbox, "best")
          /\ \A a : OneLineOf(q.outbox, "best", a) => OneLineOf(p.outbox, "best", a)
      BY <1>6, <1>10, <2>3 DEF outbox
    <3> QED BY <1>10, <1>11, <3>1, <3>2, <3>3 DEF RowKept, NoSearchIn, SearchSent, SearchUnderWay, BestMoveSent
  <2> QED BY <2>1, <2>2, <2>3
<1> QED BY <1>1, <1>2, <1>4, <1>10, <1>11, ChildStep

LEMMA EndsStep ==
  ASSUME EngineInv, NEW r \in DOMAIN process, ProcessEnds(r), NEW q, q = process[r]
  PROVE  EngineInv'
<1> DEFINE line == [kind |-> "best", job |-> q.search]
           p == [q EXCEPT !.search = NoAnalysis, !.outbox = Append(q.outbox, line)]
<1>1. /\ q.search # NoAnalysis
      /\ UNCHANGED <<analysis, chain, turn, searching, cancellations, child>>
  BY DEF ProcessEnds
<1>2. r = child /\ q \in ChildRows
  BY <1>1, LiveProcess
<1>3. q.outbox \in Seq(EngineAnswers) /\ q.search \in SomeAnalysis
  BY <1>2 DEF ChildRows
<1>4. process' = [process EXCEPT ![r] = p]
  BY DEF ProcessEnds, EngineInv, EngineTypes
<1>5. line \in EngineAnswers /\ line.kind = "best" /\ line.job = q.search
  BY <1>3 DEF EngineAnswers
<1> HIDE DEF line
<1>6. /\ Append(q.outbox, line) \in Seq(EngineAnswers)
      /\ NoLineOf(q.outbox, "best") => OneLineOf(Append(q.outbox, line), "best", q.search)
  BY <1>3, <1>5, LineWritten
<1>7. /\ p \in ChildRows /\ p.inbox = q.inbox /\ p.outbox = Append(q.outbox, line)
      /\ p.search = NoAnalysis
  BY <1>2, <1>6 DEF ChildRows, SomeAnalysis
<1> HIDE DEF p
<1>8. RowKept(q) => RowKept(p)
  BY <1>1, <1>6, <1>7 DEF RowKept, NoSearchIn, SearchSent, SearchUnderWay, BestMoveSent
<1> QED BY <1>1, <1>2, <1>4, <1>7, <1>8, ChildStep

\* A best move is of the search under way, and ends it.
LEMMA LineStep ==
  ASSUME EngineInv, NEW r \in DOMAIN process, Line(r), NEW q, q = process[r]
  PROVE  EngineInv'
<1> DEFINE line == Head(q.outbox)
           p == [q EXCEPT !.outbox = Tail(q.outbox)]
<1>1. /\ q.outbox # <<>> /\ UNCHANGED <<chain, cancellations, child>>
      /\ process' = [process EXCEPT ![r] = p]
  BY DEF Line, EngineInv, EngineTypes
<1>2. r = child /\ q \in ChildRows
  BY <1>1, LiveProcess
<1>3. q.outbox \in Seq(EngineAnswers)
  BY <1>2 DEF ChildRows
<1>4. /\ Tail(q.outbox) \in Seq(EngineAnswers) /\ line \in EngineAnswers
      /\ NoLineOf(q.outbox, "best") => line.kind # "best" /\ NoLineOf(Tail(q.outbox), "best")
      /\ \A a : OneLineOf(q.outbox, "best", a) =>
           IF line.kind = "best" THEN line.job = a /\ NoLineOf(Tail(q.outbox), "best")
                                 ELSE OneLineOf(Tail(q.outbox), "best", a)
  BY <1>1, <1>3, LineRead
<1>5. p \in ChildRows /\ p.inbox = q.inbox /\ p.outbox = Tail(q.outbox) /\ p.search = q.search
  BY <1>2, <1>4 DEF ChildRows
<1> HIDE DEF p
<1>6. RowKept(q) /\ child # Nothing
  <2>1. DOMAIN process = 1..Len(process)
    BY LenProperties DEF EngineInv, EngineTypes
  <2> QED BY <1>2, <2>1 DEF EngineInv, ProcessKept, Nothing
<1>7. DOMAIN process' = DOMAIN process
  BY <1>1 DEF EngineInv, EngineTypes
<1>8. CASE line.kind = "ready"
  <2>1. /\ turn' = IF turn.stage = "ready" /\ turn.on = r THEN [turn EXCEPT !.stage = "go"] ELSE turn
        /\ UNCHANGED <<analysis, searching>>
    BY <1>8 DEF Line
  <2> HIDE DEF line
  <2>2. turn \in [id : SomeAnalysis, on : Nat,
                  stage : {"idle", "start", "engine", "again", "ready", "go", "search"}]
    BY DEF EngineInv, EngineTypes
  <2>3. /\ turn' \in [id : SomeAnalysis, on : Nat,
                      stage : {"idle", "start", "engine", "again", "ready", "go", "search"}]
        /\ turn'.id = turn.id /\ turn'.on = turn.on
        /\ turn'.stage = turn.stage \/ (turn.stage = "ready" /\ turn'.stage = "go")
    BY <2>1, <2>2
  <2>4. TurnKept' /\ SearchKept'
    BY <1>1, <1>7, <2>1, <2>3 DEF EngineInv, TurnKept, SearchKept
  <2>5. RowKept(p)
    BY <1>4, <1>5, <1>6, <1>8 DEF RowKept, NoSearchIn, SearchSent, SearchUnderWay, BestMoveSent
  <2>6. RowKept(p)'
    BY <2>1, <2>5 DEF RowKept
  <2>7. /\ AnalysesAreOwn' /\ analysis' \in [Analyses -> [state : {"new", "pending", "failed", "done"},
                                                          got : SomeAnalysis, of : Nat]]
        /\ searching' \in [id : SomeAnalysis, settled : BOOLEAN] /\ cancellations' \in Nat
    BY <1>1, <2>1 DEF EngineInv, AnalysesAreOwn, EngineTypes
  <2> QED BY <1>1, <1>2, <1>5, <2>3, <2>4, <2>6, <2>7, RowStep
<1>9. CASE line.kind # "ready"
  <2>1. /\ searching' = NoSearch
        /\ IF searching = NoSearch \/ searching.settled THEN UNCHANGED <<analysis, turn>>
           ELSE Settle(searching.id, "done", line.job) /\ turn' = Resting
    BY <1>9 DEF Line
  <2>2. line.kind = "best" => NoSearchIn(p)
    BY <1>4, <1>5, <1>6 DEF RowKept, NoSearchIn, SearchSent, SearchUnderWay, BestMoveSent
  <2>3. line.kind = "best" => searching # NoSearch /\ line.job = searching.id
    BY <1>4, <1>6 DEF RowKept, NoSearchIn, SearchSent, SearchUnderWay, BestMoveSent
  <2>4. line.kind = "best"
    BY <1>4, <1>9 DEF EngineAnswers
  <2> HIDE DEF line
  <2>5. searching.id \in Analyses /\ searching # NoSearch
    BY <2>3, <2>4 DEF EngineInv, SearchKept
  <2>6. /\ AnalysesAreOwn' /\ analysis' \in [Analyses -> [state : {"new", "pending", "failed", "done"},
                                                          got : SomeAnalysis, of : Nat]]
        /\ turn' = turn \/ turn' = Resting
    <3>1. CASE searching.settled
      BY <2>1, <3>1 DEF EngineInv, AnalysesAreOwn, EngineTypes
    <3>2. CASE ~searching.settled
      <4>1. Settle(searching.id, "done", searching.id) /\ turn' = Resting
        BY <2>1, <2>3, <2>4, <2>5, <3>2
      <4> QED BY <2>5, <4>1, Settled DEF SomeAnalysis
    <3> QED BY <3>1, <3>2
  <2>7. turn' \in [id : SomeAnalysis, on : Nat,
                   stage : {"idle", "start", "engine", "again", "ready", "go", "search"}]
    BY <2>6, RestingTurn DEF EngineInv, EngineTypes
  <2>8. TurnKept'
    <3>1. CASE turn' = Resting
      BY <3>1, RestingTurn
    <3>2. CASE turn' = turn
      BY <1>1, <1>7, <2>1, <3>2 DEF EngineInv, TurnKept
    <3> QED BY <2>6, <3>1, <3>2
  <2>9. /\ SearchKept' /\ cancellations' \in Nat
        /\ searching' \in [id : SomeAnalysis, settled : BOOLEAN]
    BY <1>1, <2>1 DEF SearchKept, NoSearch, SomeAnalysis, EngineInv, EngineTypes
  <2>10. RowKept(p)'
    BY <2>2, <2>4 DEF RowKept
  <2> QED BY <1>1, <1>2, <1>5, <2>6, <2>7, <2>8, <2>9, <2>10, RowStep
<1> QED BY <1>8, <1>9

LEMMA EngineAtFirst == EngineInit => EngineInv
<1> SUFFICES ASSUME EngineInit PROVE EngineInv
  OBVIOUS
<1>1. EngineTypes
  <2>1. process \in Seq(ChildRows) /\ chain \in Seq(Analyses)
    BY DEF EngineInit
  <2>2. turn \in [id : SomeAnalysis, on : Nat,
                  stage : {"idle", "start", "engine", "again", "ready", "go", "search"}]
    BY DEF EngineInit, Resting, SomeAnalysis, Nothing
  <2>3. searching \in [id : SomeAnalysis, settled : BOOLEAN]
    BY DEF EngineInit, NoSearch, SomeAnalysis
  <2>4. analysis \in [Analyses -> [state : {"new", "pending", "failed", "done"}, got : SomeAnalysis, of : Nat]]
    BY DEF EngineInit, SomeAnalysis
  <2> QED BY <2>1, <2>2, <2>3, <2>4 DEF EngineInit, EngineTypes
<1>2. SearchKept /\ TurnKept /\ AnalysesAreOwn
  BY DEF EngineInit, SearchKept, TurnKept, AnalysesAreOwn, Resting
<1>3. DOMAIN process = {}
  BY DEF EngineInit
<1> QED BY <1>1, <1>2, <1>3 DEF EngineInv

LEMMA EngineStep == EngineInv /\ [EngineNext]_engineVars => EngineInv'
<1> SUFFICES ASSUME EngineInv, [EngineNext]_engineVars PROVE EngineInv'
  OBVIOUS
<1>1. CASE \E a \in Analyses : AsksForAnalysis(a)
  BY <1>1, AsksStep
<1>2. CASE Begins \/ AsksReady \/ Goes \/ CancelsAll \/ WatchdogFires
  BY <1>2, BeginsStep, AsksReadyStep, GoesStep, CancelsStep, WatchdogStep
<1>3. CASE StartsEngine
  BY <1>3, EnsuresStep DEF StartsEngine
<1>4. CASE WaitsForIdle
  BY <1>4, EnsuresStep DEF WaitsForIdle, IsIdle
<1>5. CASE SearchTimesOut
  BY <1>5, StopStep DEF SearchTimesOut, EngineInv, EngineTypes
<1>6. ASSUME NEW r \in DOMAIN process,
             ProcessStarts(r) \/ ProcessDies(r) \/ ProcessReads(r) \/ ProcessEnds(r) \/ Line(r)
      PROVE  EngineInv'
  BY <1>6, StartsStep, DiesStep, ReadsStep, EndsStep, LineStep
<1>7. CASE UNCHANGED engineVars
  BY <1>7, CallStep DEF engineVars, EngineInv, EngineTypes, TurnKept, AnalysesAreOwn
<1> QED BY <1>1, <1>2, <1>3, <1>4, <1>5, <1>6, <1>7 DEF EngineNext

\* An analysis is of the position that was asked for, for any number of analyses, processes
\* and deaths, wherever a search is stopped, cancelled, watched over or cut short.
THEOREM AnalysesOwn == ServerEngineSpec => []AnalysesAreOwn
<1>1. ServerEngineSpec => []EngineInv
  BY EngineAtFirst, EngineStep, PTL DEF ServerEngineSpec
<1>2. EngineInv => AnalysesAreOwn
  BY DEF EngineInv
<1> QED BY <1>1, <1>2, PTL

-----------------------------------------------------------------------------
(* The Maia opponent.                                                      *)

ClientRows ==
  [tab : MaiaTabs, phase : {"idle", "ready", "error", "terminated"}, initializing : BOOLEAN,
   moves : {0, 1},
   preparation : {"none", "matching", "fetching", "opening", "putting", "installing"},
   force : BOOLEAN, cache : Nat,
   worker : {"none", "idle", "open", "verify", "download", "store", "runtime", "fetch", "put", "create"},
   connected : BOOLEAN, bytes : {"none", "good"}, cached : {"none", "good", "bad"},
   modelPersisted : BOOLEAN, runtimePersisted : BOOLEAN, disturbed : BOOLEAN]
ModelRows == [by : Nat, good : BOOLEAN]
RemovalRows == [step : {"no", "waiting", "model", "runtime"}, client : Nat, old : SUBSET Nat]

ClientEnded(k) == k.phase = "terminated"

\* What a client knows is so, unless something was deleted since its worker looked.
KnowsTrue(k, model, files, number) ==
  ~k.disturbed =>
    /\ k.worker = "verify" /\ k.cached = "good" => model.good
    /\ (k.phase = "ready" \/ k.worker \in {"runtime", "fetch", "put", "create"}) /\ k.modelPersisted
         => model.good
    /\ (k.phase = "ready" \/ k.worker = "create") /\ k.runtimePersisted
         => \A f \in MaiaFiles : files[f] # Nobody
    /\ k.worker = "put" => k.cache = number

\* A client: who is terminated has no worker, who prepares one has none yet, and who waits has
\* one or prepares it.
ClientOK(k) ==
  /\ k \in ClientRows
  /\ ClientEnded(k) => k.worker = "none" /\ ~k.initializing /\ k.moves = 0
  /\ k.worker # "none" => k.preparation = "none"
  /\ k.initializing => k.worker # "none" \/ k.preparation # "none"
  /\ k.moves > 0 => k.phase = "ready"
  /\ k.phase = "ready" => k.worker = "idle" /\ k.bytes = "good"
  /\ k.worker \in {"store", "runtime", "fetch", "put", "create"} => k.bytes = "good"

\* The client of a tab is the one that was not terminated.
OwnersOK ==
  /\ \A t \in MaiaTabs : currentClient[t] # Nobody =>
       currentClient[t] \in Made /\ clients[currentClient[t]].tab = t
  /\ \A c \in Made : ClientEnded(clients[c]) <=> currentClient[clients[c].tab] # c

\* What a removal takes away belongs to clients that were terminated, and who still puts a file
\* of them puts it into a cache that was deleted.
RemovalOK ==
  /\ \A t \in MaiaTabs : \A c \in removal[t].old :
       /\ c \in Made /\ ClientEnded(clients[c])
       /\ removal[t].step = "runtime" => storedModel.by # c
  /\ \A c \in removedFrom :
       /\ c \in Made /\ ClientEnded(clients[c]) /\ storedModel.by # c
       /\ \A f \in MaiaFiles : runtime[f] # c
       /\ clients[c].preparation = "putting" => clients[c].cache # cacheNumber

MaiaTypes ==
  /\ \E n \in Nat : Made = 1..n
  /\ clients \in [Made -> ClientRows]
  /\ currentClient \in [MaiaTabs -> Nat] /\ removal \in [MaiaTabs -> RemovalRows]
  /\ storedModel \in ModelRows /\ runtime \in [MaiaFiles -> Nat] /\ cacheNumber \in Nat

MaiaInv ==
  /\ MaiaTypes /\ OwnersOK /\ RemovalOK
  /\ \A c \in Made :
       /\ ClientOK(clients[c]) /\ clients[c].cache <= cacheNumber
       /\ KnowsTrue(clients[c], storedModel, runtime, cacheNumber)

Client(k, model, files, number) ==
  ClientOK(k) /\ k.cache <= number /\ KnowsTrue(k, model, files, number)

\* What a step may make of a client.
ClientGoes(k, l, model, files, number) ==
  /\ Client(l, model, files, number)
  /\ l.tab = k.tab /\ (ClientEnded(l) <=> ClientEnded(k))
  /\ ClientEnded(k) /\ l.preparation = "putting" => k.preparation = "putting" /\ l.cache = k.cache

\* The model is stored by a client that was not terminated, a file by one whose cache is there.
StoresOwn ==
  /\ storedModel' \in ModelRows /\ runtime' \in [MaiaFiles -> Nat]
  /\ \A d \in Made : ClientEnded(clients[d]) => (storedModel'.by = d => storedModel.by = d)
  /\ \A d \in removedFrom : \A f \in MaiaFiles : runtime'[f] = d => runtime[f] = d

LEMMA ClientOf ==
  ASSUME MaiaInv, NEW c \in Made
  PROVE  /\ Client(clients[c], storedModel, runtime, cacheNumber) /\ clients[c] \in ClientRows
         /\ storedModel \in ModelRows /\ runtime \in [MaiaFiles -> Nat] /\ cacheNumber \in Nat
         /\ clients \in [Made -> ClientRows] /\ c \in Nat /\ c # Nobody /\ Nobody \notin Made
<1>1. Client(clients[c], storedModel, runtime, cacheNumber) /\ clients[c] \in ClientRows
  BY DEF MaiaInv, MaiaTypes, Client
<1>2. c \in Nat /\ c # Nobody /\ Nobody \notin Made
  BY DEF MaiaInv, MaiaTypes, Nobody
<1> QED BY <1>1, <1>2 DEF MaiaInv, MaiaTypes

\* A step that terminates nobody.
LEMMA WorldStep ==
  ASSUME MaiaInv, UNCHANGED <<currentClient, removal, removedFrom, cacheNumber>>, StoresOwn,
         DOMAIN clients' = Made, clients' \in [Made -> ClientRows],
         \A d \in Made : ClientGoes(clients[d], clients'[d], storedModel', runtime', cacheNumber)
  PROVE  MaiaInv'
<1>1. Made' = Made
  BY DEF Made
<1>2. MaiaTypes'
  BY <1>1 DEF MaiaInv, MaiaTypes, StoresOwn
<1>3. OwnersOK'
  BY <1>1 DEF MaiaInv, OwnersOK, ClientGoes
<1>4. RemovalOK'
  <2>1. ASSUME NEW t \in MaiaTabs, NEW c \in removal[t].old
        PROVE  /\ c \in Made /\ ClientEnded(clients'[c])
               /\ removal[t].step = "runtime" => storedModel'.by # c
    BY <2>1 DEF MaiaInv, RemovalOK, ClientGoes, StoresOwn
  <2>2. ASSUME NEW c \in removedFrom
        PROVE  /\ c \in Made /\ ClientEnded(clients'[c]) /\ storedModel'.by # c
               /\ \A f \in MaiaFiles : runtime'[f] # c
               /\ clients'[c].preparation = "putting" => clients'[c].cache # cacheNumber
    <3>1. /\ c \in Made /\ ClientEnded(clients[c]) /\ storedModel.by # c
          /\ \A f \in MaiaFiles : runtime[f] # c
          /\ clients[c].preparation = "putting" => clients[c].cache # cacheNumber
      BY <2>2 DEF MaiaInv, RemovalOK
    <3>2. ClientGoes(clients[c], clients'[c], storedModel', runtime', cacheNumber)
      BY <3>1
    <3> QED BY <3>1, <3>2 DEF ClientGoes, StoresOwn
  <2> QED BY <1>1, <2>1, <2>2 DEF RemovalOK
<1>5. \A c \in Made : Client(clients'[c], storedModel', runtime', cacheNumber')
  BY DEF ClientGoes
<1> QED BY <1>1, <1>2, <1>3, <1>4, <1>5 DEF MaiaInv, Client

\* What a client knows stays so while only more is stored.
LEMMA KnowsMore ==
  ASSUME NEW k, NEW model, NEW files, NEW number, NEW newModel, NEW newFiles,
         Client(k, model, files, number), model.good => newModel.good,
         \A f \in MaiaFiles : files[f] # Nobody => newFiles[f] # Nobody
  PROVE  ClientGoes(k, k, newModel, newFiles, number)
BY DEF Client, ClientGoes, KnowsTrue

\* A step of one client.
LEMMA ClientStep ==
  ASSUME MaiaInv, UNCHANGED <<currentClient, removal, removedFrom, cacheNumber>>, StoresOwn,
         NEW c \in Made, NEW l, clients' = [clients EXCEPT ![c] = l],
         ClientGoes(clients[c], l, storedModel', runtime', cacheNumber),
         storedModel.good => storedModel'.good,
         \A f \in MaiaFiles : runtime[f] # Nobody => runtime'[f] # Nobody
  PROVE  MaiaInv'
<1>1. l \in ClientRows
  BY DEF ClientGoes, Client, ClientOK
<1>2. clients \in [Made -> ClientRows]
  BY DEF MaiaInv, MaiaTypes
<1>3. ASSUME NEW d \in Made PROVE ClientGoes(clients[d], clients'[d], storedModel', runtime', cacheNumber)
  <2>1. CASE d = c
    BY <1>2, <2>1
  <2>2. CASE d # c
    <3>1. ClientGoes(clients[d], clients[d], storedModel', runtime', cacheNumber)
      BY ClientOf, KnowsMore
    <3> QED BY <1>2, <2>2, <3>1
  <2> QED BY <2>1, <2>2
<1> QED BY <1>1, <1>2, <1>3, WorldStep

\* A step of one client that stores nothing.
LEMMA QuietStep ==
  ASSUME MaiaInv, UNCHANGED <<currentClient, removal, removedFrom, cacheNumber, storedModel, runtime>>,
         NEW c \in Made, NEW l, clients' = [clients EXCEPT ![c] = l],
         ClientGoes(clients[c], l, storedModel, runtime, cacheNumber)
  PROVE  MaiaInv'
<1>1. StoresOwn
  BY DEF MaiaInv, MaiaTypes, StoresOwn
<1> QED BY <1>1, ClientStep

-----------------------------------------------------------------------------
\* What becomes of one client.

LEMMA ClientFails ==
  ASSUME NEW k, NEW model, NEW files, NEW number, Client(k, model, files, number), ~ClientEnded(k)
  PROVE  ClientGoes(k, FailAll(k), model, files, number)
<1> DEFINE l == FailAll(k)
<1>1. k \in ClientRows
  BY DEF Client, ClientOK
<1>2. /\ l \in ClientRows /\ l.tab = k.tab /\ l.phase = "error" /\ l.worker = "none" /\ ~l.initializing
      /\ l.moves = 0 /\ l.cache = k.cache /\ l.preparation = k.preparation
  BY <1>1 DEF FailAll, Unserved, ClientRows
<1> HIDE DEF l
<1>3. ClientOK(l) /\ KnowsTrue(l, model, files, number)
  BY <1>2 DEF ClientOK, KnowsTrue, ClientEnded
<1>4. ClientGoes(k, l, model, files, number)
  BY <1>2, <1>3 DEF ClientGoes, Client, ClientEnded
<1> QED BY <1>4 DEF l

LEMMA Prepares ==
  ASSUME NEW k, NEW model, NEW files, NEW number \in Nat, NEW p, NEW n \in Nat,
         Client(k, model, files, number), k.preparation # "none",
         p \in {"fetching", "opening", "putting", "installing"}, n <= number,
         p = "putting" => ~ClientEnded(k)
  PROVE  ClientGoes(k, [k EXCEPT !.preparation = p, !.cache = n], model, files, number)
<1> DEFINE l == [k EXCEPT !.preparation = p, !.cache = n]
<1>1. k \in ClientRows
  BY DEF Client, ClientOK
<1>2. /\ l \in ClientRows /\ l.tab = k.tab /\ l.phase = k.phase /\ l.worker = k.worker
      /\ l.initializing = k.initializing /\ l.moves = k.moves /\ l.cache = n /\ l.preparation = p
      /\ l.bytes = k.bytes /\ l.cached = k.cached /\ l.disturbed = k.disturbed
      /\ l.modelPersisted = k.modelPersisted /\ l.runtimePersisted = k.runtimePersisted
  BY <1>1 DEF ClientRows
<1>3. k.worker = "none"
  BY DEF Client, ClientOK
<1> HIDE DEF l
<1>4. ClientOK(l) /\ KnowsTrue(l, model, files, number)
  BY <1>2, <1>3 DEF Client, ClientOK, KnowsTrue, ClientEnded
<1>5. l.cache <= number
  BY <1>1, <1>2 DEF Client, ClientRows
<1>6. ClientGoes(k, l, model, files, number)
  BY <1>2, <1>4, <1>5 DEF ClientGoes, Client, ClientEnded
<1> QED BY <1>6 DEF l

LEMMA Unprepares ==
  ASSUME NEW k, NEW model, NEW files, NEW number, Client(k, model, files, number),
         k.preparation # "none"
  PROVE  ClientGoes(k, Unprepared(k), model, files, number)
<1>1. k \in ClientRows /\ k.worker = "none"
  BY DEF Client, ClientOK
<1>2. CASE ClientEnded(k)
  <2> DEFINE l == [k EXCEPT !.preparation = "none"]
  <2>1. /\ l \in ClientRows /\ l.tab = k.tab /\ l.phase = k.phase /\ l.worker = "none"
        /\ l.initializing = k.initializing /\ l.moves = k.moves /\ l.cache = k.cache
        /\ l.preparation = "none"
    BY <1>1 DEF ClientRows
  <2>2. Unprepared(k) = l
    BY <1>2 DEF Unprepared, ClientEnded
  <2> HIDE DEF l
  <2>3. ClientOK(l) /\ KnowsTrue(l, model, files, number)
    BY <1>2, <2>1 DEF Client, ClientOK, KnowsTrue, ClientEnded
  <2> QED BY <1>2, <2>1, <2>2, <2>3 DEF ClientGoes, Client, ClientEnded
<1>3. CASE ~ClientEnded(k)
  <2> DEFINE l == [FailAll(k) EXCEPT !.preparation = "none"]
  <2>1. /\ l \in ClientRows /\ l.tab = k.tab /\ l.phase = "error" /\ l.worker = "none"
        /\ ~l.initializing /\ l.moves = 0 /\ l.cache = k.cache /\ l.preparation = "none"
    BY <1>1 DEF FailAll, Unserved, ClientRows
  <2>2. Unprepared(k) = l
    BY <1>3 DEF Unprepared, ClientEnded
  <2> HIDE DEF l
  <2>3. ClientOK(l) /\ KnowsTrue(l, model, files, number)
    BY <2>1 DEF ClientOK, KnowsTrue, ClientEnded
  <2> QED BY <1>3, <2>1, <2>2, <2>3 DEF ClientGoes, Client, ClientEnded
<1> QED BY <1>2, <1>3

-----------------------------------------------------------------------------
\* The preparation of a worker.

LEMMA PreparesStep ==
  ASSUME MaiaInv, NEW c \in Made,
         LoadCachedWorker(c) \/ FetchWorker(c) \/ OpenRuntimeCache(c)
  PROVE  MaiaInv'
<1>1. PICK k : k = clients[c]
  OBVIOUS
<1>2. /\ Client(k, storedModel, runtime, cacheNumber) /\ cacheNumber \in Nat /\ k \in ClientRows
      /\ k.cache \in Nat
  BY <1>1, ClientOf DEF ClientRows
<1>3. /\ k.preparation \in {"matching", "fetching", "opening"}
      /\ UNCHANGED <<currentClient, removal, removedFrom, cacheNumber, storedModel, runtime>>
  BY <1>1 DEF LoadCachedWorker, FetchWorker, OpenRuntimeCache
<1>4. \/ clients' = [clients EXCEPT ![c] = Unprepared(k)]
      \/ \E p \in {"fetching", "installing", "opening"} :
           clients' = [clients EXCEPT ![c] = [k EXCEPT !.preparation = p]]
      \/ ~ClientEnded(k)
         /\ clients' = [clients EXCEPT ![c] = [k EXCEPT !.preparation = "putting", !.cache = cacheNumber]]
  BY <1>1 DEF LoadCachedWorker, FetchWorker, OpenRuntimeCache, Set, StillWanted, ClientEnded
<1>5. CASE clients' = [clients EXCEPT ![c] = Unprepared(k)]
  BY <1>1, <1>2, <1>3, <1>5, Unprepares, QuietStep
<1>6. ASSUME NEW p \in {"fetching", "installing", "opening"},
             clients' = [clients EXCEPT ![c] = [k EXCEPT !.preparation = p]]
      PROVE  MaiaInv'
  <2>1. [k EXCEPT !.preparation = p] = [k EXCEPT !.preparation = p, !.cache = k.cache]
    BY <1>2 DEF ClientRows
  <2>2. ClientGoes(k, [k EXCEPT !.preparation = p, !.cache = k.cache], storedModel, runtime, cacheNumber)
    BY <1>2, <1>3, <1>6, Prepares DEF Client
  <2> QED BY <1>1, <1>3, <1>6, <2>1, <2>2, QuietStep
<1>7. CASE ~ClientEnded(k)
        /\ clients' = [clients EXCEPT ![c] = [k EXCEPT !.preparation = "putting", !.cache = cacheNumber]]
  <2>1. ClientGoes(k, [k EXCEPT !.preparation = "putting", !.cache = cacheNumber],
             storedModel, runtime, cacheNumber)
    <3>1. cacheNumber <= cacheNumber /\ k.preparation # "none"
      BY <1>2, <1>3
    <3> QED BY <1>2, <1>7, <3>1, Prepares
  <2> QED BY <1>1, <1>3, <1>7, <2>1, QuietStep
<1> QED BY <1>4, <1>5, <1>6, <1>7

\* What is put under the name of the cache is of the client that puts it.
LEMMA PutWorkerStep == ASSUME MaiaInv, NEW c \in Made, PutWorker(c) PROVE MaiaInv'
<1>1. PICK k : k = clients[c]
  OBVIOUS
<1>2. /\ Client(k, storedModel, runtime, cacheNumber) /\ cacheNumber \in Nat /\ k \in ClientRows
      /\ runtime \in [MaiaFiles -> Nat] /\ storedModel \in ModelRows
  BY <1>1, ClientOf
<1>3. /\ k.preparation = "putting"
      /\ UNCHANGED <<currentClient, removal, removedFrom, cacheNumber, storedModel>>
      /\ clients' = [clients EXCEPT ![c] = [k EXCEPT !.preparation = "installing", !.cache = 0]]
      /\ runtime' = runtime \/ (k.cache = cacheNumber /\ runtime' = [runtime EXCEPT !["worker"] = c])
  <2>1. runtime' = runtime
          \/ runtime' = IF k.cache = cacheNumber THEN [runtime EXCEPT !["worker"] = c] ELSE runtime
    BY <1>1, Zenon DEF PutWorker
  <2>2. k.preparation = "putting"
        /\ clients' = [clients EXCEPT ![c] = [k EXCEPT !.preparation = "installing", !.cache = 0]]
    BY <1>1 DEF PutWorker, Set
  <2> QED BY <2>1, <2>2 DEF PutWorker
<1>4. c \in Nat /\ c # Nobody
  BY ClientOf
<1>5. /\ runtime' \in [MaiaFiles -> Nat] /\ \A f \in MaiaFiles : runtime'[f] = runtime[f] \/ runtime'[f] = c
      /\ runtime' # runtime => k.cache = cacheNumber
  BY <1>2, <1>3, <1>4 DEF MaiaFiles
<1>a. 0 <= cacheNumber
  BY <1>2
<1>6. ClientGoes(k, [k EXCEPT !.preparation = "installing", !.cache = 0], storedModel, runtime, cacheNumber)
  BY <1>2, <1>3, <1>a, Prepares
<1>7. ClientGoes(k, [k EXCEPT !.preparation = "installing", !.cache = 0], storedModel, runtime', cacheNumber)
  BY <1>4, <1>5, <1>6, KnowsMore DEF ClientGoes
<1>8. StoresOwn
  <2>1. c \in removedFrom => runtime' = runtime
    BY <1>1, <1>3, <1>5 DEF MaiaInv, RemovalOK
  <2> QED BY <1>2, <1>3, <1>5, <2>1 DEF StoresOwn
<1> QED BY <1>1, <1>3, <1>4, <1>5, <1>7, <1>8, ClientStep

LEMMA InstallStep == ASSUME MaiaInv, NEW c \in Made, InstallWorker(c) PROVE MaiaInv'
<1>1. PICK k : k = clients[c]
  OBVIOUS
<1>2. Client(k, storedModel, runtime, cacheNumber) /\ k \in ClientRows
  BY <1>1, ClientOf
<1>3. /\ k.preparation = "installing"
      /\ UNCHANGED <<currentClient, removal, removedFrom, cacheNumber, storedModel, runtime>>
  BY <1>1 DEF InstallWorker
<1>4. CASE ClientEnded(k)
  <2>1. clients' = [clients EXCEPT ![c] = Unprepared(k)]
    BY <1>1, <1>4 DEF InstallWorker, Set, ClientEnded
  <2> QED BY <1>1, <1>2, <1>3, <2>1, Unprepares, QuietStep
<1>5. CASE ~ClientEnded(k)
  <2> DEFINE l == [k EXCEPT !.preparation = "none", !.worker = IF k.initializing THEN "open" ELSE "idle"]
  <2>1. clients' = [clients EXCEPT ![c] = l]
    BY <1>1, <1>5 DEF InstallWorker, Set, ClientEnded
  <2>2. /\ l \in ClientRows /\ l.tab = k.tab /\ l.phase = k.phase /\ l.worker \in {"open", "idle"}
        /\ l.initializing = k.initializing /\ l.moves = k.moves /\ l.cache = k.cache
        /\ l.preparation = "none" /\ k.worker = "none" /\ k.phase # "ready"
    BY <1>2, <1>3 DEF ClientRows, Client, ClientOK
  <2> HIDE DEF l
  <2>3. ClientOK(l) /\ KnowsTrue(l, storedModel, runtime, cacheNumber) /\ l.cache <= cacheNumber
    BY <1>2, <1>5, <2>2 DEF Client, ClientOK, KnowsTrue, ClientEnded
  <2>4. ClientGoes(k, l, storedModel, runtime, cacheNumber)
    BY <1>5, <2>2, <2>3 DEF ClientGoes, Client, ClientEnded
  <2> QED BY <1>1, <1>3, <2>1, <2>4, QuietStep
<1> QED BY <1>4, <1>5

LEMMA RequestFailsStep == ASSUME MaiaInv, NEW c \in Made, RequestFails(c) PROVE MaiaInv'
<1>1. /\ clients' = [clients EXCEPT ![c] = FailAll(clients[c])]
      /\ UNCHANGED <<currentClient, removal, removedFrom, cacheNumber, storedModel, runtime>>
      /\ clients[c].initializing \/ clients[c].moves > 0 \/ clients[c].worker # "none"
  BY DEF RequestFails, Set
<1>2. Client(clients[c], storedModel, runtime, cacheNumber)
  BY ClientOf
<1>3. ~ClientEnded(clients[c])
  BY <1>1, <1>2 DEF Client, ClientOK
<1> QED BY <1>1, <1>2, <1>3, ClientFails, QuietStep

-----------------------------------------------------------------------------
\* The worker.

LEMMA LooksStep ==
  ASSUME MaiaInv, NEW c \in Made, OpenModel(c) \/ DownloadModel(c) \/ ReadRuntime(c)
                                  \/ FetchRuntime(c) \/ CreateSession(c)
  PROVE  MaiaInv'
<1>1. PICK k : k = clients[c]
  OBVIOUS
<1>2. /\ Client(k, storedModel, runtime, cacheNumber) /\ k \in ClientRows /\ cacheNumber \in Nat
      /\ storedModel \in ModelRows /\ k.worker \notin {"none", "idle"}
      /\ UNCHANGED <<currentClient, removal, removedFrom, cacheNumber, storedModel, runtime>>
  BY <1>1, ClientOf DEF OpenModel, DownloadModel, ReadRuntime, FetchRuntime, CreateSession, Working
<1>3. ~ClientEnded(k) /\ k.phase # "ready" /\ k.preparation = "none" /\ k.moves = 0
  BY <1>2 DEF Client, ClientOK, ClientRows
<1>4. ASSUME NEW l, clients' = [clients EXCEPT ![c] = l], l \in ClientRows,
             l.tab = k.tab, ~ClientEnded(l), l.worker # "none", l.preparation = "none", l.moves = 0,
             l.phase = "ready" => l.worker = "idle" /\ l.bytes = "good",
             l.worker \in {"store", "runtime", "fetch", "put", "create"} => l.bytes = "good",
             l.cache <= cacheNumber, KnowsTrue(l, storedModel, runtime, cacheNumber)
      PROVE  MaiaInv'
  <2>1. ClientOK(l)
    BY <1>4 DEF ClientOK
  <2>2. ClientGoes(k, l, storedModel, runtime, cacheNumber)
    BY <1>3, <1>4, <2>1 DEF ClientGoes, Client
  <2> QED BY <1>1, <1>2, <1>4, <2>2, QuietStep
<1>5. CASE clients' = [clients EXCEPT ![c] = FailAll(k)]
  BY <1>1, <1>2, <1>3, <1>5, ClientFails, QuietStep
<1>6. CASE OpenModel(c)
  <2>1. PICK l : /\ clients' = [clients EXCEPT ![c] = l]
                 /\ l \in {[k EXCEPT !.worker = "verify", !.connected = TRUE, !.disturbed = FALSE,
                              !.cached = IF storedModel.by = Nobody THEN "none"
                                         ELSE IF storedModel.good THEN "good" ELSE "bad"],
                           [k EXCEPT !.worker = "download", !.disturbed = FALSE]}
    BY <1>1, <1>6 DEF OpenModel, Set
  <2>2. /\ l \in ClientRows /\ l.tab = k.tab /\ l.phase = k.phase /\ l.worker \in {"verify", "download"}
        /\ l.preparation = k.preparation /\ l.moves = k.moves /\ l.cache = k.cache
        /\ l.worker = "verify" /\ l.cached = "good" => storedModel.good
    <3>1. CASE l = [k EXCEPT !.worker = "download", !.disturbed = FALSE]
      BY <1>2, <3>1 DEF ClientRows
    <3>2. CASE l = [k EXCEPT !.worker = "verify", !.connected = TRUE, !.disturbed = FALSE,
                             !.cached = IF storedModel.by = Nobody THEN "none"
                                        ELSE IF storedModel.good THEN "good" ELSE "bad"]
      <4>1. PICK s \in {"none", "good", "bad"} :
              /\ s = IF storedModel.by = Nobody THEN "none" ELSE IF storedModel.good THEN "good" ELSE "bad"
              /\ s = "good" => storedModel.good
        OBVIOUS
      <4>2. l = [k EXCEPT !.worker = "verify", !.connected = TRUE, !.disturbed = FALSE, !.cached = s]
        BY <3>2, <4>1
      <4>3. k \in ClientRows
        BY <1>2
      <4>4. l \in ClientRows
        <5>1. ASSUME NEW x \in {"none", "good", "bad"}
              PROVE  [k EXCEPT !.worker = "verify", !.connected = TRUE, !.disturbed = FALSE, !.cached = x]
                       \in ClientRows
          BY <4>3 DEF ClientRows
        <5> QED BY <4>1, <4>2, <5>1
      <4>5. /\ l.tab = k.tab /\ l.phase = k.phase /\ l.worker = "verify" /\ l.cached = s
            /\ l.preparation = k.preparation /\ l.moves = k.moves /\ l.cache = k.cache
        BY <4>2, <4>3 DEF ClientRows
      <4> QED BY <4>1, <4>4, <4>5
    <3> QED BY <2>1, <3>1, <3>2
  <2>3. KnowsTrue(l, storedModel, runtime, cacheNumber)
    BY <1>3, <2>2 DEF KnowsTrue
  <2> QED BY <1>2, <1>3, <1>4, <2>1, <2>2, <2>3 DEF Client, ClientEnded
<1>7. CASE DownloadModel(c)
  <2> DEFINE l == [k EXCEPT !.worker = "store", !.bytes = "good"]
  <2>1. clients' = [clients EXCEPT ![c] = l] \/ clients' = [clients EXCEPT ![c] = FailAll(k)]
    BY <1>1, <1>7 DEF DownloadModel, Set
  <2>2. /\ l \in ClientRows /\ l.tab = k.tab /\ l.phase = k.phase /\ l.worker = "store" /\ l.bytes = "good"
        /\ l.preparation = k.preparation /\ l.moves = k.moves /\ l.cache = k.cache
    BY <1>2 DEF ClientRows
  <2> HIDE DEF l
  <2>3. KnowsTrue(l, storedModel, runtime, cacheNumber)
    BY <1>3, <2>2 DEF KnowsTrue
  <2> QED BY <1>2, <1>3, <1>4, <1>5, <2>1, <2>2, <2>3 DEF Client, ClientEnded
<1>8. CASE ReadRuntime(c)
  <2>1. PICK l : /\ clients' = [clients EXCEPT ![c] = l] /\ k.worker = "runtime"
                 /\ \/ /\ l = [k EXCEPT !.worker = "create", !.runtimePersisted = runtime["worker"] # Nobody]
                       /\ runtime["mjs"] # Nobody /\ runtime["wasm"] # Nobody
                    \/ l = [k EXCEPT !.worker = "fetch"]
    BY <1>1, <1>8 DEF ReadRuntime, Set, Working
  <2>2. /\ l \in ClientRows /\ l.tab = k.tab /\ l.phase = k.phase /\ l.worker \in {"create", "fetch"}
        /\ l.bytes = k.bytes /\ l.preparation = k.preparation /\ l.moves = k.moves /\ l.cache = k.cache
        /\ l.disturbed = k.disturbed /\ l.modelPersisted = k.modelPersisted
        /\ l.worker = "create" /\ l.runtimePersisted => \A f \in MaiaFiles : runtime[f] # Nobody
    <3>1. CASE l = [k EXCEPT !.worker = "fetch"]
      BY <1>2, <3>1 DEF ClientRows
    <3>2. CASE /\ l = [k EXCEPT !.worker = "create", !.runtimePersisted = runtime["worker"] # Nobody]
               /\ runtime["mjs"] # Nobody /\ runtime["wasm"] # Nobody
      <4>1. PICK p \in BOOLEAN : p = (runtime["worker"] # Nobody)
        OBVIOUS
      <4>2. l = [k EXCEPT !.worker = "create", !.runtimePersisted = p]
        BY <3>2, <4>1
      <4>3. p => \A f \in MaiaFiles : runtime[f] # Nobody
        BY <3>2, <4>1 DEF MaiaFiles
      <4> QED BY <1>2, <4>1, <4>2, <4>3 DEF ClientRows
    <3> QED BY <2>1, <3>1, <3>2
  <2>3. KnowsTrue(l, storedModel, runtime, cacheNumber) /\ l.bytes = "good"
    BY <1>2, <1>3, <2>1, <2>2 DEF KnowsTrue, Client, ClientOK
  <2> QED BY <1>2, <1>3, <1>4, <2>1, <2>2, <2>3 DEF Client, ClientEnded
<1>9. CASE FetchRuntime(c)
  <2> DEFINE l == [k EXCEPT !.worker = "put", !.cache = cacheNumber]
  <2>1. /\ clients' = [clients EXCEPT ![c] = l] \/ clients' = [clients EXCEPT ![c] = FailAll(k)]
        /\ k.worker = "fetch"
    BY <1>1, <1>9 DEF FetchRuntime, Set, Working
  <2>2. /\ l \in ClientRows /\ l.tab = k.tab /\ l.phase = k.phase /\ l.worker = "put"
        /\ l.bytes = k.bytes /\ l.preparation = k.preparation /\ l.moves = k.moves /\ l.cache = cacheNumber
        /\ l.disturbed = k.disturbed /\ l.modelPersisted = k.modelPersisted
    BY <1>2 DEF ClientRows
  <2> HIDE DEF l
  <2>3. KnowsTrue(l, storedModel, runtime, cacheNumber) /\ l.bytes = "good"
    BY <1>2, <1>3, <2>1, <2>2 DEF KnowsTrue, Client, ClientOK
  <2> QED BY <1>2, <1>3, <1>4, <1>5, <2>1, <2>2, <2>3 DEF ClientEnded
<1>10. CASE CreateSession(c)
  <2> DEFINE l == [k EXCEPT !.worker = "idle", !.phase = "ready", !.initializing = FALSE, !.force = FALSE]
  <2>1. /\ clients' = [clients EXCEPT ![c] = l] \/ clients' = [clients EXCEPT ![c] = FailAll(k)]
        /\ k.worker = "create"
    BY <1>1, <1>10 DEF CreateSession, Set, Working
  <2>2. /\ l \in ClientRows /\ l.tab = k.tab /\ l.phase = "ready" /\ l.worker = "idle"
        /\ l.bytes = k.bytes /\ l.preparation = k.preparation /\ l.moves = k.moves /\ l.cache = k.cache
        /\ l.disturbed = k.disturbed /\ l.modelPersisted = k.modelPersisted
        /\ l.runtimePersisted = k.runtimePersisted
    BY <1>2 DEF ClientRows
  <2> HIDE DEF l
  <2>3. KnowsTrue(l, storedModel, runtime, cacheNumber) /\ l.bytes = "good"
    BY <1>2, <1>3, <2>1, <2>2 DEF KnowsTrue, Client, ClientOK
  <2> QED BY <1>2, <1>3, <1>4, <1>5, <2>1, <2>2, <2>3 DEF Client, ClientEnded
<1> QED BY <1>6, <1>7, <1>8, <1>9, <1>10

\* Who is told that something is gone counts on nothing.
LEMMA DisturbedKnows ==
  ASSUME MaiaInv, NEW d \in Made, NEW model, NEW files, NEW number \in Nat, cacheNumber <= number
  PROVE  /\ Disturbed(clients)[d] \in ClientRows
         /\ ClientGoes(clients[d], Disturbed(clients)[d], model, files, number)
<1>1. PICK k : k = clients[d]
  OBVIOUS
<1> DEFINE l == [k EXCEPT !.disturbed = k.worker # "none"]
<1>2. Client(k, storedModel, runtime, cacheNumber) /\ k \in ClientRows /\ cacheNumber \in Nat
  BY <1>1, ClientOf
<1>3. Disturbed(clients)[d] = l
  BY <1>1 DEF Disturbed, Made
<1>4. /\ l \in ClientRows /\ l.tab = k.tab /\ l.phase = k.phase /\ l.worker = k.worker
      /\ l.initializing = k.initializing /\ l.moves = k.moves /\ l.cache = k.cache
      /\ l.preparation = k.preparation /\ l.bytes = k.bytes /\ k.cache \in Nat
      /\ ~l.disturbed => l.worker = "none"
  BY <1>2 DEF ClientRows
<1> HIDE DEF l
<1>5. ClientOK(l)
  BY <1>2, <1>4 DEF Client, ClientOK, ClientEnded
<1>6. KnowsTrue(l, model, files, number) /\ l.cache <= number
  BY <1>2, <1>4, <1>5 DEF Client, ClientOK, KnowsTrue
<1> QED BY <1>1, <1>3, <1>4, <1>5, <1>6 DEF ClientGoes, Client, ClientEnded

LEMMA ModelIs ==
  /\ NoModel \in ModelRows /\ NoModel.by = Nobody
  /\ \A m \in ModelRows : [m EXCEPT !.good = FALSE] \in ModelRows /\ [m EXCEPT !.good = FALSE].by = m.by
BY DEF NoModel, ModelRows, Nobody

LEMMA DisturbedIs == DOMAIN Disturbed(clients) = Made
BY DEF Disturbed, Made

\* Something stored is gone, or is not what it was.
LEMMA GoneStep ==
  ASSUME MaiaInv, UNCHANGED <<currentClient, removal, removedFrom, cacheNumber, runtime>>,
         storedModel' \in ModelRows, storedModel'.by \in {Nobody, storedModel.by},
         clients' = Disturbed(clients)
  PROVE  MaiaInv'
<1>1. cacheNumber \in Nat /\ runtime \in [MaiaFiles -> Nat] /\ Nobody \notin Made
  BY DEF MaiaInv, MaiaTypes, Nobody
<1>2. \A d \in Made : /\ clients'[d] \in ClientRows
                      /\ ClientGoes(clients[d], clients'[d], storedModel', runtime', cacheNumber)
  BY <1>1, DisturbedKnows
<1>3. DOMAIN clients' = Made /\ clients' \in [Made -> ClientRows]
  BY <1>2 DEF Disturbed, Made
<1>4. StoresOwn
  BY <1>1 DEF StoresOwn
<1> QED BY <1>2, <1>3, <1>4, WorldStep

LEMMA VerifiesStep == ASSUME MaiaInv, NEW c \in Made, VerifyCached(c) PROVE MaiaInv'
<1>1. PICK k : k = clients[c]
  OBVIOUS
<1>2. PICK good \in BOOLEAN : good = (k.cached = "good")
  OBVIOUS
<1> DEFINE l == [k EXCEPT !.cached = "none", !.bytes = IF good THEN "good" ELSE "none",
                          !.worker = IF good THEN "runtime" ELSE "download",
                          !.modelPersisted = good, !.connected = ~good]
<1>3. /\ Client(k, storedModel, runtime, cacheNumber) /\ k \in ClientRows /\ cacheNumber \in Nat
      /\ storedModel \in ModelRows /\ runtime \in [MaiaFiles -> Nat] /\ Nobody \notin Made
      /\ clients \in [Made -> ClientRows]
  BY <1>1, ClientOf
<1>4. /\ UNCHANGED <<currentClient, removal, removedFrom, cacheNumber, runtime>> /\ k.worker = "verify"
      /\ \/ clients' = [clients EXCEPT ![c] = l] /\ storedModel' = storedModel
         \/ ~good /\ storedModel' = NoModel /\ clients' = [Disturbed(clients) EXCEPT ![c] = l]
  BY <1>1, <1>2 DEF VerifyCached, Set, Working
<1>5. ~ClientEnded(k) /\ k.phase # "ready" /\ k.preparation = "none" /\ k.moves = 0
  BY <1>3, <1>4 DEF Client, ClientOK, ClientRows, ClientEnded
<1>6. /\ l \in ClientRows /\ l.tab = k.tab /\ l.phase = k.phase /\ l.moves = k.moves
      /\ l.preparation = k.preparation /\ l.cache = k.cache /\ l.disturbed = k.disturbed
      /\ l.worker = IF good THEN "runtime" ELSE "download"
      /\ good => l.bytes = "good"
  <2>1. CASE good
    <3>1. l = [k EXCEPT !.cached = "none", !.bytes = "good", !.worker = "runtime",
                        !.modelPersisted = TRUE, !.connected = FALSE]
      BY <2>1
    <3> HIDE DEF l
    <3> QED BY <1>3, <2>1, <3>1 DEF ClientRows
  <2>2. CASE ~good
    <3>1. l = [k EXCEPT !.cached = "none", !.bytes = "none", !.worker = "download",
                        !.modelPersisted = FALSE, !.connected = TRUE]
      BY <2>2
    <3> HIDE DEF l
    <3> QED BY <1>3, <2>2, <3>1 DEF ClientRows
  <2> QED BY <2>1, <2>2
<1> HIDE DEF l
<1>7. ClientOK(l)
  BY <1>5, <1>6 DEF ClientOK, ClientEnded
<1>8. \A model : (good => model = storedModel) => KnowsTrue(l, model, runtime, cacheNumber)
  BY <1>2, <1>3, <1>4, <1>5, <1>6 DEF Client, KnowsTrue
<1>9. \A model : (good => model = storedModel) => ClientGoes(k, l, model, runtime, cacheNumber)
  BY <1>3, <1>5, <1>6, <1>7, <1>8 DEF ClientGoes, Client, ClientEnded
<1>10. CASE clients' = [clients EXCEPT ![c] = l] /\ storedModel' = storedModel
  BY <1>1, <1>4, <1>9, <1>10, QuietStep
<1>11. CASE ~good /\ storedModel' = NoModel /\ clients' = [Disturbed(clients) EXCEPT ![c] = l]
  <2>1. storedModel' \in ModelRows /\ storedModel'.by = Nobody
    BY <1>11 DEF NoModel, ModelRows, Nobody
  <2>2. StoresOwn
    BY <1>3, <1>4, <2>1 DEF StoresOwn
  <2>3. ASSUME NEW d \in Made
        PROVE  clients'[d] \in ClientRows /\ ClientGoes(clients[d], clients'[d], storedModel', runtime', cacheNumber)
    <3>1. CASE d = c
      BY <1>1, <1>4, <1>6, <1>9, <1>11, <3>1, DisturbedIs
    <3>2. CASE d # c
      BY <1>3, <1>11, <3>2, DisturbedIs, DisturbedKnows
    <3> QED BY <3>1, <3>2
  <2>4. DOMAIN clients' = Made /\ clients' = [d \in Made |-> clients'[d]]
    BY <1>11, DisturbedIs DEF Disturbed, Made
  <2>5. clients' \in [Made -> ClientRows]
    BY <2>3, <2>4
  <2> QED BY <1>4, <2>2, <2>3, <2>4, <2>5, WorldStep
<1> QED BY <1>4, <1>10, <1>11

LEMMA StoresModelStep == ASSUME MaiaInv, NEW c \in Made, StoreModel(c) PROVE MaiaInv'
<1>1. PICK k : k = clients[c]
  OBVIOUS
<1>2. PICK p \in BOOLEAN :
        /\ clients' = [clients EXCEPT ![c] = [k EXCEPT !.worker = "runtime", !.modelPersisted = p,
                                                       !.connected = FALSE]]
        /\ IF p THEN storedModel' = [by |-> c, good |-> TRUE] ELSE storedModel' = storedModel
        /\ k.worker = "store"
        /\ UNCHANGED <<currentClient, removal, removedFrom, cacheNumber, runtime>>
  BY <1>1 DEF StoreModel, Set, Working
<1> DEFINE l == [k EXCEPT !.worker = "runtime", !.modelPersisted = p, !.connected = FALSE]
<1>3. /\ Client(k, storedModel, runtime, cacheNumber) /\ k \in ClientRows /\ cacheNumber \in Nat
      /\ storedModel \in ModelRows /\ runtime \in [MaiaFiles -> Nat] /\ c \in Nat
  BY <1>1, ClientOf
<1>4. ~ClientEnded(k) /\ k.phase # "ready" /\ k.preparation = "none" /\ k.moves = 0 /\ k.bytes = "good"
  BY <1>2, <1>3 DEF Client, ClientOK, ClientRows, ClientEnded
<1>5. /\ l \in ClientRows /\ l.tab = k.tab /\ l.phase = k.phase /\ l.moves = k.moves
      /\ l.preparation = k.preparation /\ l.cache = k.cache /\ l.bytes = k.bytes
      /\ l.worker = "runtime" /\ l.modelPersisted = p
  BY <1>3 DEF ClientRows
<1>6. clients' = [clients EXCEPT ![c] = l]
  BY <1>2
<1> HIDE DEF l
<1>7. /\ storedModel' \in ModelRows /\ (p => storedModel'.good)
      /\ storedModel.good => storedModel'.good
      /\ storedModel'.by = storedModel.by \/ storedModel'.by = c
  <2>1. CASE p
    <3>1. storedModel' = [by |-> c, good |-> TRUE]
      BY <1>2, <2>1
    <3> QED BY <1>3, <3>1 DEF ModelRows
  <2>2. CASE ~p
    BY <1>2, <1>3, <2>2
  <2> QED BY <2>1, <2>2
<1>8. ClientOK(l) /\ KnowsTrue(l, storedModel', runtime, cacheNumber)
  BY <1>4, <1>5, <1>7 DEF ClientOK, KnowsTrue, ClientEnded
<1>9. ClientGoes(k, l, storedModel', runtime', cacheNumber)
  BY <1>2, <1>3, <1>4, <1>5, <1>8 DEF ClientGoes, Client, ClientEnded
<1>10. StoresOwn
  BY <1>1, <1>2, <1>3, <1>4, <1>7 DEF StoresOwn
<1> QED BY <1>1, <1>2, <1>6, <1>7, <1>9, <1>10, ClientStep

LEMMA PersistsStep == ASSUME MaiaInv, NEW c \in Made, PersistRuntime(c) PROVE MaiaInv'
<1>1. PICK k : k = clients[c]
  OBVIOUS
<1>2. PICK p \in BOOLEAN :
        /\ clients' = [clients EXCEPT ![c] = [k EXCEPT !.worker = "create", !.cache = 0,
                                                       !.runtimePersisted = p]]
        /\ p => runtime["worker"] # Nobody
        /\ \/ runtime' = runtime /\ (p => k.cache # cacheNumber)
           \/ runtime' = [f \in MaiaFiles |-> IF f = "worker" THEN runtime[f] ELSE c]
        /\ k.worker = "put"
        /\ UNCHANGED <<currentClient, removal, removedFrom, cacheNumber, storedModel>>
  BY <1>1 DEF PersistRuntime, Set, Working
<1> DEFINE l == [k EXCEPT !.worker = "create", !.cache = 0, !.runtimePersisted = p]
<1>3. /\ Client(k, storedModel, runtime, cacheNumber) /\ k \in ClientRows /\ cacheNumber \in Nat
      /\ storedModel \in ModelRows /\ runtime \in [MaiaFiles -> Nat] /\ c \in Nat /\ c # Nobody
  BY <1>1, ClientOf
<1>4. ~ClientEnded(k) /\ k.phase # "ready" /\ k.preparation = "none" /\ k.moves = 0 /\ k.bytes = "good"
  BY <1>2, <1>3 DEF Client, ClientOK, ClientRows, ClientEnded
<1>5. /\ l \in ClientRows /\ l.tab = k.tab /\ l.phase = k.phase /\ l.moves = k.moves
      /\ l.preparation = k.preparation /\ l.cache = 0 /\ l.bytes = k.bytes /\ l.disturbed = k.disturbed
      /\ l.worker = "create" /\ l.runtimePersisted = p /\ l.modelPersisted = k.modelPersisted
  BY <1>3 DEF ClientRows
<1>6. clients' = [clients EXCEPT ![c] = l]
  BY <1>2
<1> HIDE DEF l
<1>7. /\ runtime' \in [MaiaFiles -> Nat]
      /\ \A f \in MaiaFiles : runtime'[f] = runtime[f] \/ runtime'[f] = c
      /\ \/ runtime' = runtime /\ (p => k.cache # cacheNumber)
         \/ p => \A f \in MaiaFiles : runtime'[f] # Nobody
  BY <1>2, <1>3 DEF MaiaFiles
<1>8. KnowsTrue(l, storedModel, runtime', cacheNumber)
  BY <1>2, <1>3, <1>4, <1>5, <1>7 DEF Client, KnowsTrue
<1>9. ClientOK(l)
  BY <1>4, <1>5 DEF ClientOK, ClientEnded
<1>10. ClientGoes(k, l, storedModel', runtime', cacheNumber)
  BY <1>2, <1>3, <1>4, <1>5, <1>8, <1>9 DEF ClientGoes, Client, ClientEnded
<1>11. StoresOwn
  <2>1. c \notin removedFrom
    BY <1>1, <1>4 DEF MaiaInv, RemovalOK
  <2> QED BY <1>2, <1>3, <1>7, <2>1 DEF StoresOwn
<1> QED BY <1>1, <1>2, <1>3, <1>6, <1>7, <1>10, <1>11, ClientStep

\* A move is asked of a client that is ready, and answered.
LEMMA MovesStep ==
  ASSUME MaiaInv, (\E t \in MaiaTabs : SelectMove(t)) \/ (\E c \in Made : AnswerMove(c)) PROVE MaiaInv'
<1>1. PICK c \in Made :
        LET k == clients[c] IN
        /\ UNCHANGED <<currentClient, removal, removedFrom, cacheNumber, storedModel, runtime>>
        /\ k.phase = "ready" \/ k.moves > 0
        /\ \/ clients' = [clients EXCEPT ![c] = [k EXCEPT !.moves = 1]] /\ k.phase = "ready"
           \/ clients' = [clients EXCEPT ![c] = [k EXCEPT !.moves = 0]]
           \/ clients' = [clients EXCEPT ![c] = [k EXCEPT !.moves = 0, !.phase = "error", !.bytes = "none"]]
  BY DEF SelectMove, AnswerMove, Set
<1>2. PICK k : k = clients[c]
  OBVIOUS
<1>3. Client(k, storedModel, runtime, cacheNumber) /\ k \in ClientRows /\ cacheNumber \in Nat
  BY <1>2, ClientOf
<1>4. k.phase = "ready" /\ k.worker = "idle" /\ k.preparation = "none"
  BY <1>1, <1>2, <1>3 DEF Client, ClientOK
<1>a. \E n \in {0, 1} : \E l :
        /\ clients' = [clients EXCEPT ![c] = l]
        /\ \/ l = [k EXCEPT !.moves = n]
           \/ n = 0 /\ l = [k EXCEPT !.moves = n, !.phase = "error", !.bytes = "none"]
  BY <1>1, <1>2
<1>b. PICK n \in {0, 1} : \E l :
        /\ clients' = [clients EXCEPT ![c] = l]
        /\ \/ l = [k EXCEPT !.moves = n]
           \/ n = 0 /\ l = [k EXCEPT !.moves = n, !.phase = "error", !.bytes = "none"]
  BY <1>a
<1>5. PICK l :
        /\ clients' = [clients EXCEPT ![c] = l]
        /\ \/ l = [k EXCEPT !.moves = n]
           \/ n = 0 /\ l = [k EXCEPT !.moves = n, !.phase = "error", !.bytes = "none"]
  BY <1>b
<1>6. /\ l \in ClientRows /\ l.tab = k.tab /\ l.moves = n /\ l.worker = "idle"
      /\ l.initializing = k.initializing
      /\ l.preparation = k.preparation /\ l.cache = k.cache /\ l.disturbed = k.disturbed
      /\ l.modelPersisted = k.modelPersisted /\ l.runtimePersisted = k.runtimePersisted
      /\ \/ l.phase = "ready" /\ l.bytes = k.bytes
         \/ n = 0 /\ l.phase = "error"
  BY <1>3, <1>4, <1>5 DEF ClientRows
<1>7. ClientOK(l) /\ KnowsTrue(l, storedModel, runtime, cacheNumber)
  BY <1>3, <1>4, <1>6 DEF Client, ClientOK, KnowsTrue, ClientEnded
<1>8. ClientGoes(k, l, storedModel, runtime, cacheNumber)
  BY <1>3, <1>4, <1>6, <1>7 DEF ClientGoes, Client, ClientEnded
<1> QED BY <1>1, <1>2, <1>5, <1>8, QuietStep

-----------------------------------------------------------------------------
\* Clients that are made, used and given up.

LEMMA Asked ==
  ASSUME NEW k, NEW model, NEW files, NEW number, NEW force \in BOOLEAN,
         Client(k, model, files, number), ~ClientEnded(k), k.phase # "ready"
  PROVE  ClientGoes(k, [AskMaia(k, force) EXCEPT !.initializing = TRUE, !.force = force], model, files, number)
<1> DEFINE a == AskMaia(k, force)
<1> DEFINE l == [a EXCEPT !.initializing = TRUE, !.force = force]
<1>1. k \in ClientRows
  BY DEF Client, ClientOK
<1>2. /\ a \in ClientRows /\ a.tab = k.tab /\ a.phase = k.phase /\ a.moves = k.moves /\ a.cache = k.cache
      /\ \/ k.worker # "none" /\ a.worker = "open" /\ a.preparation = k.preparation
         \/ /\ k.worker = "none" /\ a.worker = "none" /\ a.preparation # "none"
            /\ a.preparation = k.preparation \/ a.preparation \in {"fetching", "matching"}
  BY <1>1 DEF AskMaia, ClientRows
<1> HIDE DEF a
<1>3. /\ l \in ClientRows /\ l.tab = a.tab /\ l.phase = a.phase /\ l.moves = a.moves /\ l.cache = a.cache
      /\ l.worker = a.worker /\ l.preparation = a.preparation
  BY <1>2 DEF ClientRows
<1> HIDE DEF l
<1>4. ClientOK(l) /\ KnowsTrue(l, model, files, number)
  BY <1>2, <1>3 DEF Client, ClientOK, KnowsTrue, ClientEnded
<1>5. ClientGoes(k, l, model, files, number)
  BY <1>2, <1>3, <1>4 DEF ClientGoes, Client, ClientEnded
<1> QED BY <1>5 DEF l, a

LEMMA NewClientIs ==
  ASSUME NEW t \in MaiaTabs, NEW model, NEW files, NEW number \in Nat
  PROVE  /\ Client(NewClient(t), model, files, number) /\ NewClient(t).tab = t
         /\ NewClient(t).phase = "idle" /\ NewClient(t) \in ClientRows
<1>1. /\ NewClient(t) \in ClientRows /\ NewClient(t).worker = "none" /\ NewClient(t).phase = "idle"
      /\ ~NewClient(t).initializing /\ NewClient(t).moves = 0 /\ NewClient(t).cache = 0
      /\ NewClient(t).tab = t
  BY DEF NewClient, ClientRows
<1> QED BY <1>1 DEF Client, ClientOK, KnowsTrue, ClientEnded

LEMMA InitializesStep ==
  ASSUME MaiaInv, NEW t \in MaiaTabs, NEW force \in BOOLEAN, InitializeMaia(t, force) PROVE MaiaInv'
<1>1. PICK n \in Nat : Made = 1..n
  BY DEF MaiaInv, MaiaTypes
<1>2. Cardinality(Made) = n
  BY <1>1, FS_Interval
<1>3. PICK c \in MaiaClients :
        LET k == IF c \in Made THEN clients[c] ELSE NewClient(t)
            l == [AskMaia(k, force) EXCEPT !.initializing = TRUE, !.force = force]
        IN /\ IF currentClient[t] = Nobody THEN c = n + 1 ELSE c = currentClient[t]
           /\ k.phase # "ready"
           /\ clients' = [d \in Made \cup {c} |-> IF d = c THEN l ELSE clients[d]]
           /\ currentClient' = [currentClient EXCEPT ![t] = c]
           /\ UNCHANGED <<removal, removedFrom, cacheNumber, storedModel, runtime>>
  BY <1>2 DEF InitializeMaia
<1>4. PICK k : k = IF c \in Made THEN clients[c] ELSE NewClient(t)
  OBVIOUS
<1>5. PICK l : l = [AskMaia(k, force) EXCEPT !.initializing = TRUE, !.force = force]
  OBVIOUS
<1>6. /\ clients \in [Made -> ClientRows] /\ currentClient \in [MaiaTabs -> Nat] /\ cacheNumber \in Nat
      /\ OwnersOK /\ RemovalOK
  BY DEF MaiaInv, MaiaTypes
<1>7. /\ currentClient[t] = Nobody => c = n + 1 /\ c \notin Made
      /\ currentClient[t] # Nobody => c = currentClient[t] /\ c \in Made /\ clients[c].tab = t
      /\ c \in Nat /\ c # Nobody
  BY <1>1, <1>3, <1>6 DEF OwnersOK, Nobody
<1>8. /\ Client(k, storedModel, runtime, cacheNumber) /\ ~ClientEnded(k) /\ k.phase # "ready" /\ k.tab = t
  <2>1. CASE c \in Made
    BY <1>3, <1>4, <1>6, <1>7, <2>1, ClientOf DEF OwnersOK
  <2>2. CASE c \notin Made
    BY <1>4, <1>6, <2>2, NewClientIs DEF ClientEnded
  <2> QED BY <2>1, <2>2
<1>9. ClientGoes(k, l, storedModel, runtime, cacheNumber)
  BY <1>5, <1>8, Asked
<1>10. Client(l, storedModel, runtime, cacheNumber) /\ ~ClientEnded(l) /\ l.tab = t /\ l \in ClientRows
  BY <1>8, <1>9 DEF ClientGoes, Client, ClientOK
<1>11. /\ clients' = [d \in Made \cup {c} |-> IF d = c THEN l ELSE clients[d]]
       /\ currentClient' = [currentClient EXCEPT ![t] = c]
       /\ UNCHANGED <<removal, removedFrom, cacheNumber, storedModel, runtime>>
  BY <1>3, <1>4, <1>5
<1>12. Made' = Made \cup {c}
  BY <1>11 DEF Made
<1>13. \E m \in Nat : Made' = 1..m
  <2>1. CASE currentClient[t] = Nobody
    BY <1>1, <1>7, <1>12, <2>1
  <2>2. CASE currentClient[t] # Nobody
    BY <1>1, <1>7, <1>12, <2>2
  <2> QED BY <2>1, <2>2
<1>14. /\ clients'[c] = l
       /\ \A d \in Made : d # c => clients'[d] = clients[d]
       /\ clients' \in [Made' -> ClientRows]
  BY <1>6, <1>10, <1>11, <1>12
<1>15. MaiaTypes'
  BY <1>6, <1>7, <1>11, <1>13, <1>14 DEF MaiaInv, MaiaTypes
<1>16. OwnersOK'
  <2>1. ASSUME NEW u \in MaiaTabs, currentClient'[u] # Nobody
        PROVE  currentClient'[u] \in Made' /\ clients'[currentClient'[u]].tab = u
    <3>1. CASE u = t
      BY <1>6, <1>10, <1>11, <1>12, <1>14, <3>1
    <3>2. CASE u # t
      <4>1. currentClient'[u] = currentClient[u] /\ currentClient[u] \in Made
            /\ clients[currentClient[u]].tab = u
        BY <1>6, <1>11, <2>1, <3>2 DEF OwnersOK
      <4>2. currentClient[u] # c
        BY <1>7, <3>2, <4>1
      <4> QED BY <1>12, <1>14, <4>1, <4>2
    <3> QED BY <3>1, <3>2
  <2>2. ASSUME NEW d \in Made' PROVE ClientEnded(clients'[d]) <=> currentClient'[clients'[d].tab] # d
    <3>1. CASE d = c
      BY <1>6, <1>10, <1>11, <1>14, <3>1
    <3>2. CASE d # c
      <4>1. d \in Made /\ clients'[d] = clients[d] /\ clients[d].tab \in MaiaTabs
        BY <1>6, <1>12, <1>14, <2>2, <3>2 DEF ClientRows
      <4>2. CASE clients[d].tab # t
        BY <1>6, <1>11, <4>1, <4>2 DEF OwnersOK
      <4>3. CASE clients[d].tab = t
        <5>1. currentClient[t] # d
          <6>1. d # Nobody
            BY <1>1, <4>1 DEF Nobody
          <6> QED BY <1>7, <3>2, <6>1
        <5>2. currentClient'[t] = c
          BY <1>6, <1>11
        <5> QED BY <1>6, <3>2, <4>1, <4>3, <5>1, <5>2 DEF OwnersOK
      <4> QED BY <4>2, <4>3
    <3> QED BY <3>1, <3>2
  <2> QED BY <2>1, <2>2 DEF OwnersOK
<1>17. RemovalOK'
  <2>1. \A d \in Made : ClientEnded(clients[d]) => clients'[d] = clients[d] /\ d \in Made'
    BY <1>4, <1>8, <1>12, <1>14
  <2> QED BY <1>6, <1>11, <2>1 DEF RemovalOK
<1>18. \A d \in Made' : Client(clients'[d], storedModel, runtime, cacheNumber)
  BY <1>10, <1>12, <1>14, ClientOf
<1> QED BY <1>11, <1>15, <1>16, <1>17, <1>18 DEF MaiaInv, Client

\* The client of a tab is terminated, if there is one.
LEMMA Terminates ==
  ASSUME MaiaInv, NEW t \in MaiaTabs, UNCHANGED <<cacheNumber, storedModel, runtime, removedFrom>>,
         currentClient' = [currentClient EXCEPT ![t] = Nobody],
         DOMAIN clients' = Made,
         clients' = [c \in Made |-> IF c = currentClient[t] THEN Terminate(clients[c]) ELSE clients[c]]
  PROVE  /\ Made' = Made /\ OwnersOK' /\ clients' \in [Made -> ClientRows]
         /\ currentClient' \in [MaiaTabs -> Nat]
         /\ \A c \in Made :
              /\ Client(clients'[c], storedModel, runtime, cacheNumber) /\ clients'[c].tab = clients[c].tab
              /\ clients'[c].preparation = clients[c].preparation /\ clients'[c].cache = clients[c].cache
              /\ ClientEnded(clients'[c]) <=> ClientEnded(clients[c]) \/ clients[c].tab = t
<1>1. /\ clients \in [Made -> ClientRows] /\ currentClient \in [MaiaTabs -> Nat] /\ cacheNumber \in Nat
      /\ OwnersOK /\ Nobody \notin Made
  BY DEF MaiaInv, MaiaTypes, Nobody
<1>2. Made' = Made
  BY DEF Made
<1>3. ASSUME NEW c \in Made
      PROVE  /\ Client(clients'[c], storedModel, runtime, cacheNumber) /\ clients'[c].tab = clients[c].tab
             /\ clients'[c].preparation = clients[c].preparation /\ clients'[c].cache = clients[c].cache
             /\ ClientEnded(clients'[c]) <=> ClientEnded(clients[c]) \/ clients[c].tab = t
  <2>1. PICK k : k = clients[c]
    OBVIOUS
  <2>2. Client(k, storedModel, runtime, cacheNumber) /\ k \in ClientRows
    BY <2>1, ClientOf
  <2>3. CASE c = currentClient[t]
    <3> DEFINE l == Terminate(k)
    <3>1. /\ l \in ClientRows /\ l.tab = k.tab /\ l.phase = "terminated" /\ l.worker = "none"
          /\ ~l.initializing /\ l.moves = 0 /\ l.cache = k.cache /\ l.preparation = k.preparation
      BY <2>2 DEF Terminate, Unserved, ClientRows
    <3>2. clients'[c] = l
      BY <2>1, <2>3
    <3> HIDE DEF l
    <3>3. Client(l, storedModel, runtime, cacheNumber)
      BY <2>2, <3>1 DEF Client, ClientOK, KnowsTrue, ClientEnded
    <3>4. clients[c].tab = t
      BY <1>1, <2>3 DEF OwnersOK
    <3> QED BY <2>1, <3>1, <3>2, <3>3, <3>4 DEF ClientEnded
  <2>4. CASE c # currentClient[t]
    <3>1. clients'[c] = k
      BY <2>1, <2>4
    <3>2. clients[c].tab = t => ClientEnded(clients[c])
      BY <1>1, <2>4 DEF OwnersOK
    <3> QED BY <2>1, <2>2, <3>1, <3>2
  <2> QED BY <2>3, <2>4
<1>4. \A c \in Made : clients'[c] \in ClientRows
  BY <1>3 DEF Client, ClientOK
<1>5. clients' \in [Made -> ClientRows]
  BY <1>4
<1>6. currentClient' \in [MaiaTabs -> Nat]
  BY <1>1 DEF Nobody
<1>7. OwnersOK'
  <2>1. ASSUME NEW u \in MaiaTabs, currentClient'[u] # Nobody
        PROVE  currentClient'[u] \in Made /\ clients'[currentClient'[u]].tab = u
    BY <1>1, <1>3, <2>1 DEF OwnersOK
  <2>2. ASSUME NEW c \in Made PROVE ClientEnded(clients'[c]) <=> currentClient'[clients'[c].tab] # c
    <3>1. clients[c].tab \in MaiaTabs /\ c # Nobody
      BY <1>1 DEF ClientRows
    <3>2. ClientEnded(clients[c]) <=> currentClient[clients[c].tab] # c
      BY <1>1 DEF OwnersOK
    <3> QED BY <1>1, <1>3, <3>1, <3>2
  <2> QED BY <1>2, <2>1, <2>2 DEF OwnersOK
<1> QED BY <1>2, <1>3, <1>5, <1>6, <1>7

LEMMA ResetStep == ASSUME MaiaInv, NEW t \in MaiaTabs, Reset(t) PROVE MaiaInv'
<1>1. /\ UNCHANGED <<cacheNumber, storedModel, runtime, removedFrom, removal>>
      /\ currentClient' = [currentClient EXCEPT ![t] = Nobody]
      /\ clients' = [clients EXCEPT ![currentClient[t]] = Terminate(clients[currentClient[t]])]
      /\ currentClient[t] # Nobody
  BY DEF Reset, Set
<1>2. clients \in [Made -> ClientRows] /\ currentClient[t] \in Made /\ RemovalOK
  BY <1>1 DEF MaiaInv, MaiaTypes, OwnersOK
<1>3. /\ DOMAIN clients' = Made
      /\ clients' = [c \in Made |-> IF c = currentClient[t] THEN Terminate(clients[c]) ELSE clients[c]]
  BY <1>1, <1>2
<1>4. /\ Made' = Made /\ OwnersOK' /\ clients' \in [Made -> ClientRows]
      /\ currentClient' \in [MaiaTabs -> Nat]
      /\ \A c \in Made :
           /\ Client(clients'[c], storedModel, runtime, cacheNumber) /\ clients'[c].tab = clients[c].tab
           /\ clients'[c].preparation = clients[c].preparation /\ clients'[c].cache = clients[c].cache
           /\ ClientEnded(clients'[c]) <=> ClientEnded(clients[c]) \/ clients[c].tab = t
  BY <1>1, <1>3, Terminates
<1>5. RemovalOK'
  BY <1>1, <1>2, <1>4 DEF RemovalOK
<1>6. MaiaTypes'
  BY <1>1, <1>4 DEF MaiaInv, MaiaTypes
<1> QED BY <1>1, <1>4, <1>5, <1>6 DEF MaiaInv, Client

-----------------------------------------------------------------------------
\* Removals.

\* A removal is of all clients of its tab, and none of them works any more.
LEMMA RemovesStep == ASSUME MaiaInv, NEW t \in MaiaTabs, RemoveOfflineData(t) PROVE MaiaInv'
<1> DEFINE row == [step |-> "waiting", client |-> currentClient[t], old |-> OfTab(t)]
<1>1. /\ UNCHANGED <<cacheNumber, storedModel, runtime, removedFrom>>
      /\ removal' = [removal EXCEPT ![t] = row]
      /\ currentClient' = [currentClient EXCEPT ![t] = Nobody]
      /\ clients' = [c \in Made |-> IF c = currentClient[t] THEN Terminate(clients[c]) ELSE clients[c]]
  BY DEF RemoveOfflineData
<1>2. DOMAIN clients' = Made
  BY <1>1
<1>3. /\ Made' = Made /\ OwnersOK' /\ clients' \in [Made -> ClientRows]
      /\ currentClient' \in [MaiaTabs -> Nat]
      /\ \A c \in Made :
           /\ Client(clients'[c], storedModel, runtime, cacheNumber) /\ clients'[c].tab = clients[c].tab
           /\ clients'[c].preparation = clients[c].preparation /\ clients'[c].cache = clients[c].cache
           /\ ClientEnded(clients'[c]) <=> ClientEnded(clients[c]) \/ clients[c].tab = t
  BY <1>1, <1>2, Terminates
<1>4. /\ row \in RemovalRows /\ row.step = "waiting"
      /\ \A c \in row.old : c \in Made /\ clients[c].tab = t
  BY DEF MaiaInv, MaiaTypes, RemovalRows, OfTab
<1> HIDE DEF row
<1>5. removal \in [MaiaTabs -> RemovalRows] /\ RemovalOK
  BY DEF MaiaInv, MaiaTypes
<1>6. RemovalOK'
  <2>1. ASSUME NEW u \in MaiaTabs, NEW c \in removal'[u].old
        PROVE  /\ c \in Made /\ ClientEnded(clients'[c])
               /\ removal'[u].step = "runtime" => storedModel.by # c
    <3>1. CASE u = t
      BY <1>1, <1>3, <1>4, <1>5, <2>1, <3>1
    <3>2. CASE u # t
      BY <1>1, <1>3, <1>5, <2>1, <3>2 DEF RemovalOK
    <3> QED BY <3>1, <3>2
  <2>2. ASSUME NEW c \in removedFrom
        PROVE  /\ c \in Made /\ ClientEnded(clients'[c]) /\ storedModel.by # c
               /\ \A f \in MaiaFiles : runtime[f] # c
               /\ clients'[c].preparation = "putting" => clients'[c].cache # cacheNumber
    BY <1>3, <1>5, <2>2 DEF RemovalOK
  <2> QED BY <1>1, <1>3, <2>1, <2>2 DEF RemovalOK
<1>7. MaiaTypes'
  BY <1>1, <1>3, <1>4, <1>5 DEF MaiaInv, MaiaTypes
<1> QED BY <1>1, <1>3, <1>6, <1>7 DEF MaiaInv, Client

\* A step of a removal.
LEMMA RemovalStep ==
  ASSUME MaiaInv, UNCHANGED <<currentClient, runtime, cacheNumber, removedFrom>>,
         NEW t \in MaiaTabs, NEW row \in RemovalRows, removal' = [removal EXCEPT ![t] = row],
         row.old = removal[t].old \/ row.old = {},
         row.step # "runtime" \/ storedModel'.by = Nobody,
         \/ UNCHANGED <<clients, storedModel>>
         \/ clients' = Disturbed(clients) /\ storedModel' = NoModel
  PROVE  MaiaInv'
<1>1. /\ cacheNumber \in Nat /\ runtime \in [MaiaFiles -> Nat] /\ Nobody \notin Made
      /\ clients \in [Made -> ClientRows] /\ removal \in [MaiaTabs -> RemovalRows]
      /\ storedModel \in ModelRows /\ RemovalOK /\ OwnersOK
  BY DEF MaiaInv, MaiaTypes, Nobody
<1>2. storedModel' \in ModelRows /\ (storedModel'.by = storedModel.by \/ storedModel'.by = Nobody)
  BY <1>1, ModelIs
<1>3. ASSUME NEW d \in Made
      PROVE  clients'[d] \in ClientRows /\ ClientGoes(clients[d], clients'[d], storedModel', runtime', cacheNumber)
  <2>1. CASE UNCHANGED <<clients, storedModel>>
    <3>1. ClientGoes(clients[d], clients[d], storedModel, runtime, cacheNumber)
      BY ClientOf, KnowsMore
    <3> QED BY <1>1, <2>1, <3>1
  <2>2. CASE clients' = Disturbed(clients)
    BY <1>1, <2>2, DisturbedKnows
  <2> QED BY <2>1, <2>2
<1>4. DOMAIN clients' = Made /\ clients' = [d \in Made |-> clients'[d]]
  BY <1>1 DEF Disturbed, Made
<1>5. Made' = Made /\ clients' \in [Made -> ClientRows]
  BY <1>3, <1>4 DEF Made
<1>6. MaiaTypes'
  BY <1>1, <1>2, <1>5 DEF MaiaInv, MaiaTypes
<1>7. OwnersOK'
  BY <1>1, <1>3, <1>5 DEF OwnersOK, ClientGoes
<1>8. RemovalOK'
  <2>1. ASSUME NEW u \in MaiaTabs, NEW c \in removal'[u].old
        PROVE  /\ c \in Made /\ ClientEnded(clients'[c])
               /\ removal'[u].step = "runtime" => storedModel'.by # c
    <3>1. c \in removal[u].old /\ (u = t \/ removal'[u] = removal[u])
      BY <1>1, <2>1
    <3>2. c \in Made /\ ClientEnded(clients[c])
      BY <1>1, <3>1 DEF RemovalOK
    <3>3. removal'[u].step = "runtime" => storedModel'.by # c
      <4>1. CASE u = t
        BY <1>1, <3>2, <4>1
      <4>2. CASE u # t
        BY <1>1, <1>2, <3>1, <3>2, <4>2 DEF RemovalOK
      <4> QED BY <4>1, <4>2
    <3> QED BY <1>3, <3>2, <3>3 DEF ClientGoes
  <2>2. ASSUME NEW c \in removedFrom
        PROVE  /\ c \in Made /\ ClientEnded(clients'[c]) /\ storedModel'.by # c
               /\ \A f \in MaiaFiles : runtime[f] # c
               /\ clients'[c].preparation = "putting" => clients'[c].cache # cacheNumber
    <3>1. /\ c \in Made /\ ClientEnded(clients[c]) /\ storedModel.by # c
          /\ \A f \in MaiaFiles : runtime[f] # c
          /\ clients[c].preparation = "putting" => clients[c].cache # cacheNumber
      BY <1>1, <2>2 DEF RemovalOK
    <3>2. ClientGoes(clients[c], clients'[c], storedModel', runtime', cacheNumber)
      BY <1>3, <3>1
    <3> QED BY <1>1, <1>2, <3>1, <3>2 DEF ClientGoes
  <2> QED BY <1>5, <2>1, <2>2 DEF RemovalOK
<1>9. \A d \in Made : Client(clients'[d], storedModel', runtime', cacheNumber')
  BY <1>3 DEF ClientGoes
<1> QED BY <1>5, <1>6, <1>7, <1>8, <1>9 DEF MaiaInv, Client

LEMMA NotRemovingIs == NotRemoving \in RemovalRows /\ NotRemoving.old = {} /\ NotRemoving.step = "no"
BY DEF NotRemoving, RemovalRows, Nobody

LEMMA WaitedStep == ASSUME MaiaInv, NEW t \in MaiaTabs, TerminatedAndWaited(t) PROVE MaiaInv'
<1> DEFINE row == [removal[t] EXCEPT !.step = "model"]
<1>1. removal \in [MaiaTabs -> RemovalRows]
  BY DEF MaiaInv, MaiaTypes
<1>2. row \in RemovalRows /\ row.old = removal[t].old /\ row.step = "model"
  BY <1>1 DEF RemovalRows
<1>3. /\ removal' = [removal EXCEPT ![t] = row]
      /\ UNCHANGED <<clients, currentClient, storedModel, runtime, cacheNumber, removedFrom>>
  BY <1>1 DEF TerminatedAndWaited
<1> HIDE DEF row
<1> QED BY <1>2, <1>3, RemovalStep

LEMMA DeletesModelStep == ASSUME MaiaInv, NEW t \in MaiaTabs, DeleteModelDatabase(t) PROVE MaiaInv'
<1> DEFINE row == [removal[t] EXCEPT !.step = "runtime"]
<1>1. removal \in [MaiaTabs -> RemovalRows]
  BY DEF MaiaInv, MaiaTypes
<1>2. row \in RemovalRows /\ row.old = removal[t].old /\ NoModel.by = Nobody
  BY <1>1 DEF RemovalRows, NoModel
<1>3. /\ UNCHANGED <<currentClient, runtime, cacheNumber, removedFrom>>
      /\ \/ storedModel' = NoModel /\ clients' = Disturbed(clients) /\ removal' = [removal EXCEPT ![t] = row]
         \/ removal' = [removal EXCEPT ![t] = NotRemoving] /\ UNCHANGED <<storedModel, clients>>
  BY <1>1 DEF DeleteModelDatabase
<1> HIDE DEF row
<1>4. CASE storedModel' = NoModel /\ clients' = Disturbed(clients) /\ removal' = [removal EXCEPT ![t] = row]
  BY <1>2, <1>3, <1>4, RemovalStep
<1>5. CASE removal' = [removal EXCEPT ![t] = NotRemoving] /\ UNCHANGED <<storedModel, clients>>
  BY <1>3, <1>5, NotRemovingIs, RemovalStep
<1> QED BY <1>3, <1>4, <1>5

\* What the removed clients still put is put into a cache that is gone.
LEMMA DeletesRuntimeStep == ASSUME MaiaInv, NEW t \in MaiaTabs, DeleteRuntimeCaches(t) PROVE MaiaInv'
<1>1. /\ runtime' = [f \in MaiaFiles |-> Nobody] /\ cacheNumber' = cacheNumber + 1
      /\ clients' = Disturbed(clients) /\ removedFrom' = removedFrom \cup removal[t].old
      /\ removal' = [removal EXCEPT ![t] = NotRemoving] /\ removal[t].step = "runtime"
      /\ UNCHANGED <<currentClient, storedModel>>
  BY DEF DeleteRuntimeCaches
<1>2. /\ cacheNumber \in Nat /\ Nobody \notin Made
      /\ clients \in [Made -> ClientRows] /\ removal \in [MaiaTabs -> RemovalRows]
      /\ RemovalOK /\ OwnersOK
  BY DEF MaiaInv, MaiaTypes, Nobody
<1>3. ASSUME NEW d \in Made
      PROVE  clients'[d] \in ClientRows /\ ClientGoes(clients[d], clients'[d], storedModel', runtime', cacheNumber + 1)
  <2>1. cacheNumber + 1 \in Nat /\ cacheNumber <= cacheNumber + 1
    BY <1>2
  <2> QED BY <1>1, <2>1, DisturbedKnows
<1>4. DOMAIN clients' = Made /\ clients' = [d \in Made |-> clients'[d]]
  BY <1>1 DEF Disturbed, Made
<1>5. Made' = Made /\ clients' \in [Made -> ClientRows]
  BY <1>3, <1>4 DEF Made
<1>6. runtime' \in [MaiaFiles -> Nat] /\ \A f \in MaiaFiles : runtime'[f] = Nobody
  BY <1>1 DEF Nobody
<1>7. MaiaTypes'
  <2>1. removal' \in [MaiaTabs -> RemovalRows] /\ cacheNumber' \in Nat
    BY <1>1, <1>2, NotRemovingIs
  <2> QED BY <1>1, <1>5, <1>6, <2>1 DEF MaiaInv, MaiaTypes
<1>8. OwnersOK'
  BY <1>1, <1>2, <1>3, <1>5 DEF OwnersOK, ClientGoes
<1>9. RemovalOK'
  <2>1. ASSUME NEW u \in MaiaTabs, NEW c \in removal'[u].old
        PROVE  /\ c \in Made /\ ClientEnded(clients'[c])
               /\ removal'[u].step = "runtime" => storedModel'.by # c
    <3>1. u # t /\ removal'[u] = removal[u]
      BY <1>1, <1>2, <2>1, NotRemovingIs
    <3> QED BY <1>1, <1>2, <1>3, <2>1, <3>1 DEF RemovalOK, ClientGoes
  <2>2. ASSUME NEW c \in removedFrom'
        PROVE  /\ c \in Made /\ ClientEnded(clients'[c]) /\ storedModel'.by # c
               /\ \A f \in MaiaFiles : runtime'[f] # c
               /\ clients'[c].preparation = "putting" => clients'[c].cache # cacheNumber'
    <3>1. c \in Made /\ ClientEnded(clients[c]) /\ storedModel.by # c
      BY <1>1, <1>2, <2>2 DEF RemovalOK
    <3>2. clients[c].cache \in Nat /\ clients[c].cache <= cacheNumber
      BY <1>2, <3>1, ClientOf DEF Client, ClientRows
    <3>3. ClientGoes(clients[c], clients'[c], storedModel', runtime', cacheNumber + 1)
      BY <1>3, <3>1
    <3> QED BY <1>1, <1>2, <1>6, <3>1, <3>2, <3>3 DEF ClientGoes
  <2> QED BY <1>5, <2>1, <2>2 DEF RemovalOK
<1>10. \A d \in Made : Client(clients'[d], storedModel', runtime', cacheNumber')
  BY <1>1, <1>3 DEF ClientGoes
<1> QED BY <1>5, <1>7, <1>8, <1>9, <1>10 DEF MaiaInv, Client

LEMMA LosesModelStep == ASSUME MaiaInv, BlockedDeletion \/ CorruptModel PROVE MaiaInv'
<1>1. storedModel \in ModelRows
  BY DEF MaiaInv, MaiaTypes
<1>2. /\ UNCHANGED <<currentClient, removal, removedFrom, cacheNumber, runtime>>
      /\ storedModel' = NoModel \/ storedModel' = [storedModel EXCEPT !.good = FALSE]
      /\ clients' = Disturbed(clients)
  BY DEF BlockedDeletion, CorruptModel
<1>3. storedModel' \in ModelRows /\ storedModel'.by \in {Nobody, storedModel.by}
  BY <1>1, <1>2, ModelIs
<1> QED BY <1>2, <1>3, GoneStep

-----------------------------------------------------------------------------
LEMMA MaiaAtFirst == MaiaInit => MaiaInv
<1> SUFFICES ASSUME MaiaInit PROVE MaiaInv
  OBVIOUS
<1>1. Made = {} /\ clients \in [Made -> ClientRows] /\ removedFrom = {}
  BY DEF MaiaInit, Made
<1>2. \E n \in Nat : Made = 1..n
  <2>1. Made = 1..0
    BY <1>1
  <2> QED BY <2>1
<1>3. MaiaTypes
  BY <1>1, <1>2, NotRemovingIs DEF MaiaInit, MaiaTypes, ModelRows, NoModel, Nobody
<1>4. OwnersOK /\ RemovalOK
  BY <1>1, NotRemovingIs DEF MaiaInit, OwnersOK, RemovalOK
<1> QED BY <1>1, <1>3, <1>4 DEF MaiaInv

LEMMA MaiaStep == MaiaInv /\ [MaiaNext]_maiaVars => MaiaInv'
<1> SUFFICES ASSUME MaiaInv, [MaiaNext]_maiaVars PROVE MaiaInv'
  OBVIOUS
<1>1. CASE UNCHANGED maiaVars
  BY <1>1 DEF maiaVars, MaiaInv, MaiaTypes, OwnersOK, RemovalOK, Made
<1>2. ASSUME NEW t \in MaiaTabs,
             \/ \E force \in BOOLEAN : InitializeMaia(t, force)
             \/ Reset(t) \/ SelectMove(t)
             \/ RemoveOfflineData(t) \/ TerminatedAndWaited(t) \/ DeleteModelDatabase(t)
             \/ DeleteRuntimeCaches(t)
      PROVE  MaiaInv'
  BY <1>2, InitializesStep, ResetStep, MovesStep, RemovesStep, WaitedStep, DeletesModelStep,
     DeletesRuntimeStep
<1>3. ASSUME NEW c \in Made,
             \/ LoadCachedWorker(c) \/ FetchWorker(c) \/ OpenRuntimeCache(c) \/ PutWorker(c)
             \/ InstallWorker(c) \/ RequestFails(c) \/ AnswerMove(c)
             \/ OpenModel(c) \/ VerifyCached(c) \/ DownloadModel(c) \/ StoreModel(c)
             \/ ReadRuntime(c) \/ FetchRuntime(c) \/ PersistRuntime(c) \/ CreateSession(c)
      PROVE  MaiaInv'
  BY <1>3, PreparesStep, PutWorkerStep, InstallStep, RequestFailsStep, MovesStep, LooksStep,
     VerifiesStep, StoresModelStep, PersistsStep
<1> QED BY <1>1, <1>2, <1>3, LosesModelStep DEF MaiaNext

\* What is said of the opponent follows.
LEMMA MaiaFollows == MaiaInv => MaiaIsSound
<1> SUFFICES ASSUME MaiaInv PROVE MaiaIsSound
  OBVIOUS
<1>1. RemovedStaysRemoved
  BY DEF MaiaInv, RemovalOK, RemovedStaysRemoved
<1>2. WaitersAreServed
  BY DEF MaiaInv, ClientOK, WaitersAreServed
<1>3. NoOrphanWorker
  BY DEF MaiaInv, ClientOK, OwnersOK, NoOrphanWorker
<1>4. ReadinessIsTrue
  BY DEF MaiaInv, ClientOK, KnowsTrue, OfflineReady, ReadinessIsTrue
<1> QED BY <1>1, <1>2, <1>3, <1>4 DEF MaiaIsSound

\* What was stored before a removal is not found after it, nobody waits in vain, no worker outlives
\* its client, and readiness is true: for any tabs, clients, removals, faults and corruptions.
THEOREM MaiaKept == MaiaSpec => []MaiaIsSound
<1>1. MaiaSpec => []MaiaInv
  BY MaiaAtFirst, MaiaStep, PTL DEF MaiaSpec
<1> QED BY <1>1, MaiaFollows, PTL
====
