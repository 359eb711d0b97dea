------------------------------ MODULE MCWorkspace ------------------------------
(* The parts of the employees' workspace and of the text channels that share no
   state, side by side: a behaviour is a behaviour of one of them, and the
   others stay where they begin.  The chat stops where a mutation was overtaken,
   as nothing is said of its rows from there on. *)
EXTENDS MailFolders, OutgoingMail, OfflineMentions, ChatPane, MCFounderTexts,
        TextBridge, StaffAccess, StartupOnboarding

CONSTANTS general, random, mention1, mention2, call3

VARIABLE part

RoomOf == [p \in Mentions |-> IF p = mention1 THEN general ELSE random]

(* Two registrations of one founder, and one of another. *)
FounderOf == [c \in Calls |-> IF c = call3 THEN "bea" ELSE "ann"]

Parts == {"folders", "sending", "mentions", "chat", "founders", "bridge", "access",
          "onboarding"}

vars == <<part, mailVars, sendVars, mentionVars, chatVars, founderVars,
          bridgeVars, accessVars, onboardVars>>

Init == /\ part \in Parts
        /\ MailInit    /\ (part # "folders"  => lastRun = "never")
        /\ SendInit
        /\ MentionInit /\ (part # "mentions" => ~away)
        /\ ChatInit    /\ (part # "chat"     => open = general)
        /\ FounderInit /\ (part # "founders" => weekly = {})
        /\ BridgeInit
        /\ AccessInit
        /\ OnboardInit

FoldersSteps ==
    /\ part = "folders" /\ MailNext
    /\ UNCHANGED <<part, sendVars, mentionVars, chatVars, founderVars, bridgeVars,
                   accessVars, onboardVars>>

SendingSteps ==
    /\ part = "sending" /\ SendNext
    /\ UNCHANGED <<part, mailVars, mentionVars, chatVars, founderVars, bridgeVars,
                   accessVars, onboardVars>>

MentionsSteps ==
    /\ part = "mentions" /\ MentionNext
    /\ UNCHANGED <<part, mailVars, sendVars, chatVars, founderVars, bridgeVars,
                   accessVars, onboardVars>>

ChatSteps ==
    /\ part = "chat" /\ ChatNext /\ ~overtaken
    /\ UNCHANGED <<part, mailVars, sendVars, mentionVars, founderVars, bridgeVars,
                   accessVars, onboardVars>>

FoundersSteps ==
    /\ part = "founders" /\ FounderNext
    /\ UNCHANGED <<part, mailVars, sendVars, mentionVars, chatVars, bridgeVars,
                   accessVars, onboardVars>>

BridgeSteps ==
    /\ part = "bridge" /\ BridgeNext
    /\ UNCHANGED <<part, mailVars, sendVars, mentionVars, chatVars, founderVars,
                   accessVars, onboardVars>>

AccessSteps ==
    /\ part = "access" /\ AccessNext
    /\ UNCHANGED <<part, mailVars, sendVars, mentionVars, chatVars, founderVars,
                   bridgeVars, onboardVars>>

OnboardingSteps ==
    /\ part = "onboarding" /\ OnboardNext
    /\ UNCHANGED <<part, mailVars, sendVars, mentionVars, chatVars, founderVars,
                   bridgeVars, accessVars>>

Next == \/ FoldersSteps \/ SendingSteps \/ MentionsSteps \/ ChatSteps
        \/ FoundersSteps \/ BridgeSteps \/ AccessSteps \/ OnboardingSteps

(* The fairness of the part that runs: MailFairness, MentionFairness or
   BridgeFairness.  The actions name the part again, so that TLC need not ask
   of the states of the other parts whether they are enabled. *)
Fairness ==
    \/ /\ part = "folders"
       /\ WF_mailVars(part = "folders" /\ StartSweep)
       /\ SF_mailVars(part = "folders" /\ PurgeExpiredSpam)
       /\ WF_mailVars(part = "folders" /\ RecordSweep)
       /\ WF_mailVars(part = "folders" /\ DayPasses)
    \/ /\ part = "mentions"
       /\ SF_mentionVars(part = "mentions" /\ StartPoll)
       /\ \A c \in Channels :
            WF_mentionVars(part = "mentions" /\ (FetchPosts(c) \/ FetchFails(c)))
       /\ WF_mentionVars(part = "mentions" /\ AdvanceWatermark)
       /\ SF_mentionVars(part = "mentions" /\ SendMail)
       /\ WF_mentionVars(part = "mentions" /\ (NoMail \/ PutCount))
       /\ WF_mentionVars(part = "mentions" /\ TouchLastSeen)
       /\ <>[][~AlarmIsLost]_mentionVars
    \/ /\ part = "bridge"
       /\ WF_bridgeVars(part = "bridge" /\ Reconnect)
       /\ WF_bridgeVars(part = "bridge" /\ (Dial \/ ImportFails))
       /\ SF_bridgeVars(part = "bridge" /\ Handshake)
       /\ <>[][~Restart]_bridgeVars
    \/ part \notin {"folders", "mentions", "bridge"}

Spec == Init /\ [][Next]_vars /\ Fairness

WorkspaceTypeOK ==
    /\ part \in Parts
    /\ MailTypeOK /\ SendTypeOK /\ MentionTypeOK /\ ChatTypeOK
    /\ FounderTypeOK /\ BridgeTypeOK /\ AccessTypeOK /\ OnboardTypeOK

=============================================================================
