------------------------------- MODULE ServicesMC -------------------------------
(***************************************************************************)
(* The services around the analysis on small instances.  A behaviour is of  *)
(* one part, and some parts have a second instance with other constants.    *)
(***************************************************************************)
EXTENDS EmailReservations, PracticeDueSweep, StripeBilling, HistoryImport, AutoAnalysisBacklog,
  PremiumInvitations, WeeklyMaster

VARIABLE part

\* Days of a delivery that is dispatched again; two e-mails of one worker.
LongMail == INSTANCE EmailReservations WITH Deliveries <- {"due"}, MaxDays <- 2, MaxDispatches <- 2
PaidMail == INSTANCE EmailReservations WITH Deliveries <- {"due", "bill"}, Workers <- {"w"}
\* A learner who reviews while a handler works; a sweep that the next day's cron resumes.
Reviewing == INSTANCE PracticeDueSweep WITH Handlers <- {"h"}, MaxReviewed <- 1
Resumed == INSTANCE PracticeDueSweep WITH Handlers <- {"h"}, LastDay <- 2, MaxReviewed <- 0
\* Two events of one contract.
TwoEvents == INSTANCE StripeBilling WITH Tabs <- {"tab"}, Hooks <- {"k1", "k2"},
  MaxReservations <- 1, MaxContracts <- 1, MaxEvents <- 2, MaxGrants <- 0, MaxClaims <- 2
\* A page that an event leaves open, and the next one.
LeftOpen == INSTANCE StripeBilling WITH Tabs <- {"tab"}, MaxReservations <- 3, MaxContracts <- 1,
  MaxEvents <- 2, MaxGrants <- 0
\* An import of which something fails, and no game comes in meanwhile.
Broken == INSTANCE HistoryImport WITH MaxSynced <- 0, MaxFailures <- 1
\* The sweep over two players.
Swept == INSTANCE AutoAnalysisBacklog WITH Players <- {1, 2}, BacklogOf <- <<{}, {1, 2}>>,
  Fresh <- {1}, Allowances <- {1, 2}, MaxTries <- 1, MaxFaults <- 0, MaxChanges <- 0

\* Two requests deliver one invitation; two workers claim one run; the
\* editors change what a run does.
TwoPostmen == INSTANCE PremiumInvitations WITH Postmen <- {"p", "q"}, MaxInvitations <- 1,
  MaxReceipts <- 1
TwoMasters == INSTANCE WeeklyMaster WITH Masters <- {"m", "n"}, MaxMasterRuns <- 1,
  MaxClaimsOfRun <- 2, MaxAttemptsOfRun <- 2, LastWeek <- 1, MaxEdits <- 0
Edited == INSTANCE WeeklyMaster WITH MaxMasterRuns <- 1, MaxEdits <- 2

MCStatesOf == <<{1, 3}, {2}>>
MCPlayedAt == <<3, 2, 2, 1>>
MCBacklogOf == 2 :> {1, 2}
MCClassOf == <<"blitz", "rapid">>

MCInit ==
  /\ part \in {"mail", "long mail", "paid mail", "due", "reviewing", "resumed", "stripe", "events", "pages",
               "history", "broken", "backlog", "swept", "premium", "postmen", "master", "masters",
               "edited"}
  /\ CASE part = "long mail" -> LongMail!MailInit
       [] part = "paid mail" -> PaidMail!MailInit
       [] OTHER -> MailInit
  /\ CASE part = "resumed" -> Resumed!SweepInit
       [] part = "reviewing" -> Reviewing!SweepInit
       [] OTHER -> SweepInit
  /\ \A s \in States : dueOn[s] = 1
  /\ CASE part = "events" -> TwoEvents!StripeInit
       [] part = "pages" -> LeftOpen!StripeInit
       [] OTHER -> StripeInit
  /\ HistoryInit
  /\ IF part = "swept" THEN Swept!BacklogInit /\ rules[1] = {} ELSE BacklogInit
  /\ part \notin {"backlog", "swept"} => rules[2] = {}
  /\ IF part = "postmen" THEN TwoPostmen!PremiumInit ELSE PremiumInit
  /\ IF part = "masters" THEN TwoMasters!MasterInit ELSE MasterInit

\* One disjunct for each part; the others do not move.
MCNext ==
  \/ /\ \/ part = "mail" /\ MailNext
        \/ part = "long mail" /\ LongMail!MailNext
        \/ part = "paid mail" /\ PaidMail!MailNext
     /\ UNCHANGED <<part, sweepVars, stripeVars, historyVars, backlogVars, premiumVars, masterVars>>
  \/ /\ \/ part = "due" /\ SweepNext
        \/ part = "reviewing" /\ Reviewing!SweepNext
        \/ part = "resumed" /\ Resumed!SweepNext
     /\ UNCHANGED <<part, mailVars, stripeVars, historyVars, backlogVars, premiumVars, masterVars>>
  \/ /\ \/ part = "stripe" /\ StripeNext
        \/ part = "events" /\ TwoEvents!StripeNext
        \/ part = "pages" /\ LeftOpen!StripeNext
     /\ UNCHANGED <<part, mailVars, sweepVars, historyVars, backlogVars, premiumVars, masterVars>>
  \/ /\ \/ part = "history" /\ HistoryNext
        \/ part = "broken" /\ Broken!HistoryNext
     /\ UNCHANGED <<part, mailVars, sweepVars, stripeVars, backlogVars, premiumVars, masterVars>>
  \/ /\ \/ part = "backlog" /\ BacklogNext
        \/ part = "swept" /\ Swept!BacklogNext
     /\ UNCHANGED <<part, mailVars, sweepVars, stripeVars, historyVars, premiumVars, masterVars>>
  \/ /\ \/ part = "premium" /\ PremiumNext
        \/ part = "postmen" /\ TwoPostmen!PremiumNext
     /\ UNCHANGED <<part, mailVars, sweepVars, stripeVars, historyVars, backlogVars, masterVars>>
  \/ /\ \/ part = "master" /\ MasterNext
        \/ part = "masters" /\ TwoMasters!MasterNext
        \/ part = "edited" /\ Edited!MasterNext
     /\ UNCHANGED <<part, mailVars, sweepVars, stripeVars, historyVars, backlogVars, premiumVars>>

MCSpec == MCInit /\ [][MCNext]_<<part, mailVars, sweepVars, stripeVars, historyVars, backlogVars,
                               premiumVars, masterVars>>

=============================================================================
