------------------------------- MODULE Preferences -------------------------------
(***************************************************************************)
(* The preferences of an account: the sections that the cards of a settings *)
(* page edit (AutoSyncSettingsCard.tsx, PracticeDefaultsCard.tsx,           *)
(* AnalysisDefaultsCard.tsx), the one document they are stored in           *)
(* (api/user/preferences/route.ts, lib/preferences.ts), and the games that  *)
(* the stored automation makes eligible (analysisEligibility.ts).           *)
(*                                                                          *)
(* The tabs of a browser share its session.  The automation is on when some *)
(* cell of its matrix analyses and it is not paused; the games of an        *)
(* account are numbered in the order of their import, which is the clock.   *)
(* Answers are received as they are given, and a card's edits are one       *)
(* choice, made when it is saved.                                           *)
(***************************************************************************)
EXTENDS Integers, Sequences, FiniteSets

CONSTANTS
  SettingsPages,    \* tabs with the settings
  People,
  FirstPerson,      \* signed in at first
  MaxPrefAttempts,  \* of updatePreferencesTransactionally
  MaxPrefEdits,
  MaxPrefSignIns,
  MaxPrefGames      \* of an account

Sections == {"automation", "mix"}

VARIABLES
  signedIn,       \* who is signed in
  pageOwner,      \* whom a page was made for
  activeOwner,    \* whom a page takes to be signed in
  cards,          \* of each page and section
  saves,          \* requests of the cards
  stored,         \* User.preferences
  rowWrites,         \* of the row
  library,        \* of each account: whether the automation was on when each game came
  lastEdit,       \* history: the value of the last save of a section
  prefEdits, prefSignIns

prefVars == <<signedIn, pageOwner, activeOwner, cards, saves, stored, rowWrites, library, lastEdit,
              prefEdits, prefSignIns>>

NoAccount == "nobody"

ASSUME PeopleAssumption == FirstPerson \in People /\ NoAccount \notin People

Off == [by |-> NoAccount, on |-> FALSE, scope |-> "new"]
Mix(o, n) == [by |-> o, mix |-> n]
Values(s, o, n) ==
  IF s = "mix" THEN {Mix(o, n)} ELSE {[by |-> o, on |-> b, scope |-> c] : b \in BOOLEAN, c \in {"new", "all"}}
DefaultPreferences == [automation |-> Off, mix |-> Mix(NoAccount, 0), enabledAt |-> 0]
ClosedCard == [state |-> "closed", saved |-> Mix(NoAccount, 0), run |-> 0]

Loaded(k, v) == [k EXCEPT !.state = "ready", !.saved = v]

PrefInit ==
  /\ signedIn = FirstPerson
  /\ pageOwner = [p \in SettingsPages |-> NoAccount] /\ activeOwner = [p \in SettingsPages |-> NoAccount]
  /\ cards = [p \in SettingsPages |-> [s \in Sections |-> ClosedCard]]
  /\ saves = {}
  /\ stored = [o \in People |-> DefaultPreferences] /\ rowWrites = [o \in People |-> 0]
  /\ library = [o \in People |-> <<>>]
  /\ lastEdit = [o \in People |-> [automation |-> Off, mix |-> Mix(NoAccount, 0)]]
  /\ prefEdits = 0 /\ prefSignIns = 0

-----------------------------------------------------------------------------
(* Pages and the session *)

\* The cards of the page load, each in a run of its own.
LoadCards(p, ready) ==
  cards' = [cards EXCEPT ![p] =
    [s \in Sections |-> [ClosedCard EXCEPT !.state = IF ready THEN "loading" ELSE "error",
                                       !.run = cards[p][s].run + 1]]]

OpenSettings(p) ==
  /\ pageOwner[p] = NoAccount
  /\ pageOwner' = [pageOwner EXCEPT ![p] = signedIn]
  /\ activeOwner' = [activeOwner EXCEPT ![p] = signedIn]
  /\ LoadCards(p, TRUE)
  /\ UNCHANGED <<signedIn, saves, stored, rowWrites, library, lastEdit, prefEdits, prefSignIns>>

SignInAs(o) ==
  /\ o # signedIn /\ prefSignIns < MaxPrefSignIns
  /\ signedIn' = o /\ prefSignIns' = prefSignIns + 1
  /\ UNCHANGED <<pageOwner, activeOwner, cards, saves, stored, rowWrites, library, lastEdit, prefEdits>>

\* The page's session is refreshed: its cards start anew, or are of another account.
NoticeSession(p) ==
  /\ pageOwner[p] # NoAccount /\ activeOwner[p] # signedIn
  /\ activeOwner' = [activeOwner EXCEPT ![p] = signedIn]
  /\ LoadCards(p, signedIn = pageOwner[p])
  /\ UNCHANGED <<signedIn, pageOwner, saves, stored, rowWrites, library, lastEdit, prefEdits, prefSignIns>>

-----------------------------------------------------------------------------
(* A card *)

\* GET: the preferences of whoever is signed in, which are another's or the card's.
LoadCard(p, s) ==
  /\ cards[p][s].state = "loading"
  /\ cards' = [cards EXCEPT ![p][s] =
       IF signedIn = pageOwner[p] THEN Loaded(@, stored[signedIn][s]) ELSE [@ EXCEPT !.state = "error"]]
  /\ UNCHANGED <<signedIn, pageOwner, activeOwner, saves, stored, rowWrites, library, lastEdit, prefEdits,
                 prefSignIns>>

SaveCard(p, s) ==
  /\ cards[p][s].state = "ready" /\ prefEdits < MaxPrefEdits
  /\ prefEdits' = prefEdits + 1
  /\ cards' = [cards EXCEPT ![p][s].state = "saving"]
  /\ \E v \in Values(s, pageOwner[p], prefEdits + 1) \ {cards[p][s].saved} :
       saves' = saves \cup {[page |-> p, section |-> s, run |-> cards[p][s].run, value |-> v,
                             attempt |-> 0, as |-> NoAccount, read |-> DefaultPreferences, write |-> 0]}
  /\ UNCHANGED <<signedIn, pageOwner, activeOwner, stored, rowWrites, library, lastEdit, prefSignIns>>

\* An answer reaches the card in the run that asked, or nobody.
AnswerSave(r, saved) ==
  cards' = IF cards[r.page][r.section].run # r.run THEN cards
           ELSE [cards EXCEPT ![r.page][r.section] =
                   IF saved THEN Loaded(@, r.value) ELSE [@ EXCEPT !.state = "ready"]]

-----------------------------------------------------------------------------
(* The route *)

\* Mutant: whoever is signed in is written for.
AnyOwner(p) == TRUE
\* EXPECTED_OWNER_HEADER
OwnerExpected(p) == signedIn = pageOwner[p]

\* The transaction reads the document.
ReadDocument(r, o) ==
  saves' = (saves \ {r}) \cup
    {[r EXCEPT !.attempt = @ + 1, !.as = o, !.read = stored[o], !.write = rowWrites[o]]}

BeginSave(r) ==
  /\ r.attempt = 0
  /\ IF OwnerExpected(r.page)
     THEN ReadDocument(r, signedIn) /\ UNCHANGED cards
     ELSE saves' = saves \ {r} /\ AnswerSave(r, FALSE)
  /\ UNCHANGED <<signedIn, pageOwner, activeOwner, stored, rowWrites, library, lastEdit, prefEdits, prefSignIns>>

Now(o) == Len(library[o]) + 1

\* The automation that analyses from now on begins with the games that are imported from now on.
NeedsNewBoundary(old, new) ==
  new.on /\ (~old.on \/ (old.scope # "new" /\ new.scope = "new"))

Merged(r) ==
  IF r.section = "mix" THEN [r.read EXCEPT !.mix = r.value]
  ELSE [r.read EXCEPT !.automation = r.value,
          !.enabledAt = IF NeedsNewBoundary(r.read.automation, r.value) THEN Now(r.as) ELSE @]

\* A serializable transaction: what another one has written meanwhile is a conflict, and is read again.
CommitSave(r) ==
  /\ r.attempt > 0
  /\ IF rowWrites[r.as] # r.write
     THEN /\ IF r.attempt < MaxPrefAttempts
             THEN ReadDocument(r, r.as) /\ UNCHANGED cards
             ELSE saves' = saves \ {r} /\ AnswerSave(r, FALSE)
          /\ UNCHANGED <<stored, rowWrites, lastEdit>>
     ELSE /\ stored' = [stored EXCEPT ![r.as] = Merged(r)]
          /\ rowWrites' = [rowWrites EXCEPT ![r.as] = @ + 1]
          /\ lastEdit' = [lastEdit EXCEPT ![r.as][r.section] = r.value]
          /\ saves' = saves \ {r} /\ AnswerSave(r, TRUE)
  /\ UNCHANGED <<signedIn, pageOwner, activeOwner, library, prefEdits, prefSignIns>>

\* The synchronisation adds a game.
ImportGame(o) ==
  /\ Len(library[o]) < MaxPrefGames
  /\ library' = [library EXCEPT ![o] = Append(@, stored[o].automation.on)]
  /\ UNCHANGED <<signedIn, pageOwner, activeOwner, cards, saves, stored, rowWrites, lastEdit, prefEdits,
                 prefSignIns>>

PrefNext ==
  \/ \E o \in People : SignInAs(o) \/ ImportGame(o)
  \/ \E p \in SettingsPages :
       \/ OpenSettings(p) \/ NoticeSession(p)
       \/ \E s \in Sections : LoadCard(p, s) \/ SaveCard(p, s)
  \/ \E r \in saves : BeginSave(r) \/ CommitSave(r)

PrefSpec == PrefInit /\ [][PrefNext]_prefVars

-----------------------------------------------------------------------------
(* Properties *)

\* evaluateAutoAnalysisEligibility, as far as the time of the import decides.
AutoEligible(o, i) ==
  /\ stored[o].automation.on
  /\ stored[o].automation.scope = "new" /\ stored[o].enabledAt # 0 => i >= stored[o].enabledAt

\* What is stored for an account was chosen on a page of that account.
OwnsWrites ==
  \A o \in DOMAIN stored, s \in Sections : stored[o][s].by \in {o, NoAccount}

\* A save of one section never undoes a save of another, of any tab.
SectionsKept ==
  \A o \in DOMAIN stored, s \in Sections : stored[o][s] = lastEdit[o][s]

\* New games only: no game that came while the automation was off is ever paid for.
BoundaryIsFresh ==
  \A o \in DOMAIN stored : \A i \in DOMAIN library[o] :
    stored[o].automation.scope = "new" /\ AutoEligible(o, i) => library[o][i]

\* The boundary is there whenever it is needed: the unserialised repair of it in loadContext,
\* which writes the whole document, is never reached.
BoundaryIsSet ==
  \A o \in DOMAIN stored :
    stored[o].automation.on /\ stored[o].automation.scope = "new" => stored[o].enabledAt # 0

\* The settings of an account are what its pages saved (api/user/preferences/route.ts).
PreferencesHold == OwnsWrites /\ SectionsKept /\ BoundaryIsFresh /\ BoundaryIsSet

=============================================================================
