--------------------------- MODULE Notifications ---------------------------
(***************************************************************************)
(* When the desktop application asks for attention:                        *)
(* desktop/notification_center.cpp with the pacer and the rules of         *)
(* desktop/notification_rules.cpp.  A sender's first notification shows at *)
(* once, later ones wait for its cooldown with the latest text; coming     *)
(* into view, and new settings, drop what waits.  The badge is             *)
(* desktop/unread_badge.cpp's, shown by desktop/desktop_notifier.cpp.      *)
(*                                                                         *)
(* desktop_notifier.cpp shows the notifications as the system can: macOS   *)
(* and Windows take back all of them; over D-Bus (freedesktop_notifications*)
(* .cpp) only those can be taken back whose id the server has answered,    *)
(* which it does later and in order; a tray icon's message stays.          *)
(***************************************************************************)
EXTENDS Integers, FiniteSets, FiniteSetsExt, Functions

CONSTANTS
    Senders,
    Cooldown,   \* NotificationPacer::cooldownMs_, in ticks of the clock
    MaxClock,   \* a bound on the clock
    MaxMentions,\* a bound on the counted mentions
    MaxCopies   \* a bound on the ids a D-Bus server gives notifications of one sender

ASSUME NotificationsAssumption ==
    Cooldown \in Nat \ {0} /\ MaxClock \in Nat /\ MaxMentions \in Nat \ {0}
    /\ MaxCopies \in Nat

VARIABLES
    settings,   \* NotificationSettings
    window,     \* what windowInView asks
    badge,      \* badge_
    lastShown,  \* lastShown_: sender -> time
    waiting,    \* waiting_: sender -> the time it is due
    pacerTimer, \* the set of the time the timer is armed for
    notified,   \* notified_
    backend,    \* what shows notifications: "native", "freedesktop" or "tray"
    bubbles,    \* what the desktop shows: <<sender, id>>, the id 0 where there are none
    unanswered, \* those of them whose Notify call has no reply yet
    showing,    \* showing_: those whose id has come, one for a sender
    overdue,    \* history: those that had no id yet when they were to be taken
                \* back, or when the next of their sender was shown
    clock

screenVars == <<backend, bubbles, unanswered, showing, overdue>>
notificationVars ==
    <<settings, window, badge, lastShown, waiting, pacerTimer, notified,
      backend, bubbles, unanswered, showing, overdue, clock>>

NoBadge == [unread |-> FALSE, mentions |-> 0]
Times == 0..(MaxClock + Cooldown)
Empty == [s \in {} |-> 0]

InView == window.active /\ window.visible

NotificationsInit ==
    /\ settings = [muted |-> TRUE, mentionsOnly |-> FALSE, suppressEveryone |-> FALSE,
                   activity |-> TRUE]
    /\ window = [active |-> FALSE, visible |-> FALSE]
    /\ badge = NoBadge
    /\ lastShown = Empty /\ waiting = Empty
    /\ pacerTimer = {}
    /\ notified = FALSE
    /\ backend \in {"native", "freedesktop", "tray"}
    /\ bubbles = {} /\ unanswered = {} /\ showing = {} /\ overdue = {}
    /\ clock = 0

-----------------------------------------------------------------------------
(* What the desktop shows: DesktopNotifier.                                  *)

Of(set, senders) == {b \in set : b[1] \in senders}

\* The ids that a server has not used for a sender since his notifications have gone.
Unused(s) == {n \in 1..MaxCopies : \A b \in Of(bubbles, {s}) : b[2] < n}

\* FreedesktopNotifications::show: one whose id is known is replaced; of the
\* others the server makes a new one, and an error makes none.
ShowFreedesktop(senders) ==
    \E made \in SUBSET (senders \ {b[1] : b \in showing}) :
        LET new == {<<s, CHOOSE n \in Unused(s) : TRUE>> : s \in made} IN
        /\ \A s \in made : Unused(s) # {}
        /\ bubbles' = bubbles \cup new
        /\ overdue' = overdue \cup Of(unanswered, made)
        /\ unanswered' = unanswered \cup new
        /\ UNCHANGED showing

\* DesktopNotifier::show, for each sender.
Show(senders) ==
    /\ notified' = (notified \/ senders # {})
    /\ IF backend = "freedesktop" THEN ShowFreedesktop(senders)
       ELSE bubbles' = bubbles \cup (senders \X {0}) /\ UNCHANGED <<unanswered, showing, overdue>>
    /\ UNCHANGED backend

\* FreedesktopNotifications::closeAll.
CloseFreedesktop ==
    /\ bubbles' = bubbles \ showing /\ showing' = {}
    /\ overdue' = (overdue \ showing) \cup unanswered
    /\ UNCHANGED unanswered

\* DesktopNotifier::withdrawAll: "A tray icon's message cannot be taken back."
WithdrawAll ==
    /\ CASE backend = "native" -> bubbles' = {} /\ UNCHANGED <<unanswered, showing, overdue>>
         [] backend = "freedesktop" -> CloseFreedesktop
         [] backend = "tray" -> overdue' = bubbles /\ UNCHANGED <<bubbles, unanswered, showing>>
    /\ UNCHANGED backend

\* The server answers Notify with the id, in the order of the calls; it takes the
\* place of an earlier one.
Answered ==
    \E b \in unanswered :
        /\ \A u \in Of(unanswered, {b[1]}) : b[2] <= u[2]
        /\ unanswered' = unanswered \ {b}
        /\ showing' = (showing \ Of(showing, {b[1]})) \cup {b}
        /\ UNCHANGED <<settings, window, badge, lastShown, waiting, pacerTimer, notified,
                       backend, bubbles, overdue, clock>>

\* One is dismissed or expires, and notificationClosed hears of it, after the reply.
NotificationClosed ==
    /\ \E b \in bubbles \ unanswered :
          /\ bubbles' = bubbles \ {b} /\ showing' = showing \ {b} /\ overdue' = overdue \ {b}
    /\ UNCHANGED <<settings, window, badge, lastShown, waiting, pacerTimer, notified,
                   backend, unanswered, clock>>

\* The probe of FreedesktopNotifications fails: the tray icon takes over, and
\* what was known of ids is gone.
Unavailable ==
    /\ backend = "freedesktop" /\ backend' = "tray"
    /\ unanswered' = {} /\ showing' = {}
    /\ UNCHANGED <<settings, window, badge, lastShown, waiting, pacerTimer, notified,
                   bubbles, overdue, clock>>

-----------------------------------------------------------------------------
(* When there is something to show: NotificationCenter.                      *)

\* NotificationPacer::clear.
DropWaiting == lastShown' = Empty /\ waiting' = Empty /\ pacerTimer' = {}
\* Mutant: what the desktop shows stays there.
WithdrawBadge == badge' = NoBadge /\ UNCHANGED <<notified, screenVars>>
\* What was counted and shown has been read: withdrawAll when something was notified.
Withdraw ==
    /\ badge' = NoBadge
    /\ notified' = FALSE
    /\ IF notified THEN WithdrawAll ELSE UNCHANGED screenVars

\* NotificationCenter::setSettings; the mute action goes through it as well.
SetSettings(changed) ==
    /\ changed # settings
    /\ settings' = changed
    /\ DropWaiting
    /\ IF changed.muted THEN Withdraw ELSE UNCHANGED <<badge, notified, screenVars>>
    /\ UNCHANGED <<window, clock>>

\* applicationStateChanged and eventFilter: markReadIfInView follows every change.
WindowChanges ==
    /\ \E w \in [active : BOOLEAN, visible : BOOLEAN] : w # window /\ window' = w
    /\ IF InView' THEN DropWaiting /\ Withdraw
       ELSE UNCHANGED <<badge, lastShown, waiting, pacerTimer, notified, screenVars>>
    /\ UNCHANGED <<settings, clock>>

\* schedulePacedNotifications restarts the timer for NotificationPacer::nextDue.
Schedule(due) ==
    pacerTimer' = IF DOMAIN due = {} THEN pacerTimer
                  ELSE {Max({clock, Min(Range(due))})}

\* notify, with NotificationPacer::offer.
Notify(s) ==
    IF s \in DOMAIN lastShown /\ clock < lastShown[s] + Cooldown
      THEN /\ waiting' = [t \in DOMAIN waiting \cup {s} |->
                            IF t = s THEN lastShown[s] + Cooldown ELSE waiting[t]]
           /\ Schedule(waiting')
           /\ UNCHANGED <<lastShown, notified, screenVars>>
      ELSE /\ lastShown' = [t \in DOMAIN lastShown \cup {s} |->
                              IF t = s THEN clock ELSE lastShown[t]]
           /\ waiting' = Restrict(waiting, DOMAIN waiting \ {s})
           /\ Show({s})
           /\ UNCHANGED pacerTimer

\* attentionFor: what of a message counts.
Counts(mentioned) ==
    mentioned = "ByName" \/ (mentioned = "ViaEveryone" /\ ~ settings.suppressEveryone)

MessageReceived(s, mentioned) ==
    /\ ~ settings.muted /\ ~ InView
    /\ badge' = [unread |-> TRUE,
                 mentions |-> badge.mentions + (IF Counts(mentioned) THEN 1 ELSE 0)]
    /\ badge'.mentions <= MaxMentions
    /\ IF ~ settings.mentionsOnly \/ Counts(mentioned) THEN Notify(s)
       ELSE UNCHANGED <<lastShown, waiting, pacerTimer, notified, screenVars>>
    /\ UNCHANGED <<settings, window, clock>>

ActivityOccurred(s) ==
    /\ ~ InView /\ ~ settings.muted /\ settings.activity
    /\ Notify(s)
    /\ UNCHANGED <<settings, window, badge, clock>>

\* showDueNotifications, with NotificationPacer::takeDue.  Qt's coarse timers
\* may fire a little early.
PacerTimerFires ==
    \E at \in pacerTimer :
        LET due == {s \in DOMAIN waiting : waiting[s] <= clock} IN
        /\ clock >= at - 1
        /\ Show(due)
        /\ lastShown' = [s \in DOMAIN lastShown \cup due |->
                            IF s \in due THEN clock ELSE lastShown[s]]
        /\ waiting' = Restrict(waiting, DOMAIN waiting \ due)
        /\ pacerTimer' = IF DOMAIN waiting' = {} THEN {}
                         ELSE {Max({clock, Min(Range(waiting'))})}
        /\ UNCHANGED <<settings, window, badge, clock>>

ClockAdvances ==
    /\ clock < MaxClock /\ clock' = clock + 1
    /\ UNCHANGED <<settings, window, badge, lastShown, waiting, pacerTimer, notified, screenVars>>

NotificationsNext ==
    \/ \E changed \in [muted : BOOLEAN, mentionsOnly : BOOLEAN,
                       suppressEveryone : BOOLEAN, activity : BOOLEAN] : SetSettings(changed)
    \/ WindowChanges
    \/ \E s \in Senders, m \in {"No", "ByName", "ViaEveryone"} : MessageReceived(s, m)
    \/ \E s \in Senders : ActivityOccurred(s)
    \/ PacerTimerFires
    \/ ClockAdvances
    \/ Answered \/ NotificationClosed \/ Unavailable

NotificationsSpec == NotificationsInit /\ [][NotificationsNext]_notificationVars

-----------------------------------------------------------------------------
NotificationsTypeOK ==
    /\ badge \in [unread : BOOLEAN, mentions : 0..MaxMentions]
    /\ DOMAIN lastShown \subseteq Senders /\ DOMAIN waiting \subseteq Senders
    /\ pacerTimer \in SUBSET Times /\ bubbles \subseteq Senders \X (0..MaxCopies)
    /\ unanswered \cup showing \cup overdue \subseteq bubbles
    /\ \A b, c \in showing : b[1] = c[1] => b = c

\* "Notifications are opt-in: no badge, title marker, or alert while muted"
\* (notification_center.cpp:66), nor while the window is in view: whatever the
\* order of messages, settings, timers, window events and replies, nothing is
\* counted then, nothing waits, and what is still shown could not be taken back:
\* nothing on macOS and Windows; over D-Bus only what had no id yet, then or when
\* its sender's next was shown; of a tray icon what it showed before.
QuietWhenRead ==
    settings.muted \/ InView =>
        /\ badge = NoBadge /\ DOMAIN waiting = {}
        /\ bubbles \subseteq overdue
        /\ backend = "native" => bubbles = {}

\* What waits is not forgotten: the timer is armed for the first that is due,
\* through any mix of senders, cooldowns and early timeouts.
WaitingIsArmed ==
    DOMAIN waiting # {} => \E at \in pacerTimer : at <= Max({clock, Min(Range(waiting))})

\* The notification centre and its pacer, whatever arrives in which order.
NotificationsInv == NotificationsTypeOK /\ QuietWhenRead /\ WaitingIsArmed
=============================================================================
