--------------------------- MODULE PortalSession ---------------------------
(***************************************************************************)
(* Login, logout and re-scans in the pages of the portal: Header.tsx and   *)
(* Avatar.tsx over the wallet (UAL), the local storage that all tabs       *)
(* share, the scan button of GuildInfo.tsx and its notification.           *)
(*                                                                         *)
(* Each tab has a React state of its own, read from the storage when it is *)
(* loaded; the storage is what a re-scan is authorised with.  A token and  *)
(* a name are each represented by the account they belong to; the avatar,  *)
(* which only decorates the name, is left out.                             *)
(***************************************************************************)
EXTENDS Integers, Sequences, FiniteSets

CONSTANTS
    Tabs,          \* tabs of one browser that have the portal open
    Accounts,      \* accounts a wallet may hold
    None,          \* no account
    MaxConnects,   \* bound on what the wallets announce
    MaxClicks      \* bound on the clicks on Scan

ASSUME SessionAssumption ==
    /\ Tabs # {} /\ None \notin Accounts
    /\ MaxConnects \in Nat /\ MaxClicks \in Nat

VARIABLES
    stored,      \* local storage: access_token and activeUser
    page,        \* per tab: the state of Header
    wallet,      \* per tab: ual.activeUser
    modal,       \* per tab: the dialogue of UAL is open
    logins,      \* calls of login that wait for their answer
    connects,    \* announcements of wallets so far
    overlapped,  \* per tab: two logins were under way at the same time
    stale,       \* per tab: another tab wrote the storage after it did
    refused,     \* per tab: a login was refused since it did or read it
    scans,       \* per tab: re-scans under way, with the clicks that wait
    clicks,      \* clicks on Scan so far
    notice,      \* per tab: the notification, 0 for none
    timers       \* per tab: notifications that hideNotification is due for

known == <<stale, refused>>
session == <<stored, page, wallet, modal, logins, connects, overlapped, known>>
notification == <<scans, clicks, notice, timers>>
vars == <<session, notification>>

Somebody == Accounts \cup {None}
Login == [tab : Tabs, account : Accounts, number : 1..MaxConnects]
Scan == [guild : Accounts, waiting : SUBSET (1..MaxClicks)]

TypeOK ==
    /\ stored \in [token : Somebody, user : Somebody]
    /\ page \in [Tabs -> [token : Somebody, loggedIn : BOOLEAN,
                          user : Somebody]]
    /\ wallet \in [Tabs -> Somebody]
    /\ modal \in [Tabs -> BOOLEAN]
    /\ logins \subseteq Login
    /\ connects \in 0..MaxConnects
    /\ overlapped \in [Tabs -> BOOLEAN]
    /\ stale \in [Tabs -> BOOLEAN] /\ refused \in [Tabs -> BOOLEAN]
    /\ scans \in [Tabs -> SUBSET Scan]
    /\ clicks \in 0..MaxClicks
    /\ notice \in [Tabs -> 0..MaxClicks]
    /\ timers \in [Tabs -> Seq(1..MaxClicks)]

-----------------------------------------------------------------------------
\* Mutant: without the negations that make it a Boolean.
LoadedRaw == [token |-> stored.token, loggedIn |-> stored.token,
              user |-> stored.user]

\* The state of Header on its first render
Loaded == [token |-> stored.token, loggedIn |-> stored.token # None,
           user |-> stored.user]

Empty == [token |-> None, user |-> None]
LoggedOut == [token |-> None, loggedIn |-> FALSE, user |-> None]

Init ==
    /\ stored = Empty
    /\ page = [t \in Tabs |-> Loaded]
    /\ wallet = [t \in Tabs |-> None]
    /\ modal = [t \in Tabs |-> FALSE]
    /\ logins = {} /\ connects = 0
    /\ overlapped = [t \in Tabs |-> FALSE]
    /\ stale = [t \in Tabs |-> FALSE] /\ refused = [t \in Tabs |-> FALSE]
    /\ scans = [t \in Tabs |-> {}] /\ clicks = 0
    /\ notice = [t \in Tabs |-> 0]
    /\ timers = [t \in Tabs |-> <<>>]

\* What the header shows: the Login button, or the Avatar of somebody.
ShowsAvatar(t) == page[t].loggedIn

Pending(t) == {l \in logins : l.tab = t}

\* Tab t writes the storage: the others do not notice.
Written(t) ==
    /\ stale' = [u \in Tabs |-> u # t]
    /\ refused' = [refused EXCEPT ![t] = FALSE]

-----------------------------------------------------------------------------
\* Login

\* A tab is opened or reloaded: its requests, timers and dialogue are gone.
Load(t) ==
    /\ page' = [page EXCEPT ![t] = Loaded]
    /\ wallet' = [wallet EXCEPT ![t] = None]
    /\ modal' = [modal EXCEPT ![t] = FALSE]
    /\ logins' = logins \ Pending(t)
    /\ overlapped' = [overlapped EXCEPT ![t] = FALSE]
    /\ stale' = [stale EXCEPT ![t] = FALSE]
    /\ refused' = [refused EXCEPT ![t] = FALSE]
    /\ scans' = [scans EXCEPT ![t] = {}]
    /\ notice' = [notice EXCEPT ![t] = 0]
    /\ timers' = [timers EXCEPT ![t] = <<>>]
    /\ UNCHANGED <<stored, connects, clicks>>

\* A click on Login.
HandleLogin(t) ==
    /\ ~page[t].loggedIn /\ ~modal[t]
    /\ modal' = [modal EXCEPT ![t] = TRUE]
    /\ UNCHANGED <<stored, page, wallet, logins, connects, overlapped, known,
                   notification>>

\* The wallet announces a user, in the dialogue or because it remembers one,
\* and the effect on ual.activeUser calls login unless there is a token.
Connect(t, a) ==
    /\ connects < MaxConnects /\ connects' = connects + 1
    /\ modal[t] \/ wallet[t] = None
    /\ wallet' = [wallet EXCEPT ![t] = a]
    /\ modal' = [modal EXCEPT ![t] = FALSE]
    /\ IF page[t].token = None
       THEN /\ logins' = logins \cup
                  {[tab |-> t, account |-> a, number |-> connects']}
            /\ overlapped' = [overlapped EXCEPT ![t] = @ \/ Pending(t) # {}]
       ELSE UNCHANGED <<logins, overlapped>>
    /\ UNCHANGED <<stored, page, known, notification>>

\* An answer with a token.
Granted(l) ==
    /\ page' = [page EXCEPT ![l.tab] =
                  [token |-> l.account, loggedIn |-> TRUE, user |-> l.account]]
    /\ stored' = [token |-> l.account, user |-> l.account]
    /\ Written(l.tab)
    /\ UNCHANGED <<wallet, modal, connects, overlapped, notification>>

\* An answer without one: login returns all the same, and its continuation in
\* the effect sets isLoggedIn and the user.
Refused(l) ==
    /\ page' = [page EXCEPT ![l.tab].loggedIn = TRUE,
                            ![l.tab].user = l.account]
    /\ refused' = [refused EXCEPT ![l.tab] = TRUE]
    /\ UNCHANGED <<stored, wallet, modal, connects, overlapped, stale,
                   notification>>

\* fetch or response.json() is rejected: nothing happens.
Lost == UNCHANGED <<stored, page, wallet, modal, connects, overlapped, known,
                    notification>>

LoginEnds == \E l \in logins : /\ logins' = logins \ {l}
                               /\ Granted(l) \/ Refused(l) \/ Lost

\* Mutant: the token stays in the storage.
HandleLogoutHere(t) ==
    /\ ShowsAvatar(t) /\ wallet[t] # None
    /\ stored' = stored
    /\ page' = [page EXCEPT ![t] = LoggedOut]
    /\ wallet' = [wallet EXCEPT ![t] = None]
    /\ Written(t)
    /\ UNCHANGED <<modal, logins, connects, overlapped, notification>>

\* Without a wallet ual.logout() raises, and nothing is cleared.
HandleLogout(t) ==
    /\ ShowsAvatar(t) /\ wallet[t] # None
    /\ stored' = Empty
    /\ page' = [page EXCEPT ![t] = LoggedOut]
    /\ wallet' = [wallet EXCEPT ![t] = None]
    /\ Written(t)
    /\ UNCHANGED <<modal, logins, connects, overlapped, notification>>

-----------------------------------------------------------------------------
\* Re-scans and their notification

\* A click on Scan on the page of guild g; while the same request is under
\* way, the click waits for its answer.
HandleOnScanClick(t, g) ==
    /\ clicks < MaxClicks /\ clicks' = clicks + 1
    /\ LET same == {s \in scans[t] : s.guild = g}
       IN scans' = [scans EXCEPT ![t] =
             (@ \ same) \cup {[guild |-> g, waiting |-> {clicks'} \cup
                                 UNION {s.waiting : s \in same}]}]
    /\ UNCHANGED <<session, notice, timers>>

\* Mutant: one timer for the clicks of one answer, started by the first.
AnswerOneTimer(t, s, m) ==
    /\ notice' = [notice EXCEPT ![t] = m]
    /\ timers' = [timers EXCEPT ![t] = IF @ = <<>> THEN <<m>> ELSE @]

\* Mutant: a timer only for what was shown before.
AnswerUntimed(t, s, m) ==
    /\ notice' = [notice EXCEPT ![t] = m]
    /\ timers' = [timers EXCEPT ![t] = IF notice[t] = 0 THEN @ ELSE Append(@, m)]

\* Every click that waited shows the message and starts a timer of its own.
ScanAnswered(t, s, m) ==
    /\ notice' = [notice EXCEPT ![t] = m]
    /\ timers' = [timers EXCEPT ![t] =
                     @ \o [i \in 1..Cardinality(s.waiting) |-> m]]

\* An error of the server is not shown.
ScanEnds(t) ==
    \E s \in scans[t] :
       /\ scans' = [scans EXCEPT ![t] = @ \ {s}]
       /\ \/ \E m \in s.waiting : ScanAnswered(t, s, m)
          \/ UNCHANGED <<notice, timers>>
       /\ UNCHANGED <<session, clicks>>

\* The close button, or a click anywhere else.
HandleClose(t) ==
    /\ notice[t] # 0
    /\ notice' = [notice EXCEPT ![t] = 0]
    /\ UNCHANGED <<session, scans, clicks, timers>>

\* All timers run for ten seconds, so the oldest is the first: it hides
\* whatever is shown.
TimerFires(t) ==
    /\ timers[t] # <<>>
    /\ timers' = [timers EXCEPT ![t] = Tail(@)]
    /\ notice' = [notice EXCEPT ![t] = 0]
    /\ UNCHANGED <<session, scans, clicks>>

-----------------------------------------------------------------------------
Next == \/ \E t \in Tabs : \/ Load(t) \/ HandleLogin(t) \/ HandleLogout(t)
                           \/ ScanEnds(t) \/ HandleClose(t) \/ TimerFires(t)
                           \/ \E a \in Accounts : \/ Connect(t, a)
                                                  \/ HandleOnScanClick(t, a)
        \/ LoginEnds

Spec == Init /\ [][Next]_vars

\* The browser fires the timers of its tabs.
FairSpec == Spec /\ \A t \in Tabs : WF_vars(TimerFires(t))

-----------------------------------------------------------------------------
\* Properties

\* The header of a tab shows what is stored, which is what a re-scan of that
\* tab is authorised with: the Login button if nothing is, else the name of the
\* account. The two exceptions are a tab that another one has overtaken by
\* logging in or out, as no tab listens to the storage, and one that has had a
\* login refused (Header.tsx:13-31,71-80,109-118).
HeaderShowsStored ==
    \A t \in Tabs : ~stale[t] /\ ~refused[t] =>
        /\ ShowsAvatar(t) <=> stored.token # None
        /\ page[t].user = stored.token /\ page[t].token = stored.token

\* Even in those two cases, a header that has a token shows the name of its
\* account, unless two logins of that tab were under way together: the
\* continuation of the one that was refused sets the name without a token.
ShownOwner ==
    \A t \in Tabs : page[t].token # None /\ ~overlapped[t] =>
        page[t].user = page[t].token

\* What the headers show, and what the storage holds, belong together.
SessionsFit == HeaderShowsStored /\ ShownOwner

\* A notification that is shown has a timer of its own still to fire, however
\* often it was asked for, hidden and replaced (GuildInfo.tsx:28-36).
VisibleHasTimer ==
    \A t \in Tabs : notice[t] # 0 =>
        timers[t] # <<>> /\ timers[t][Len(timers[t])] = notice[t]

\* Every notification goes away, even if nobody closes it (GuildInfo.tsx:34).
NoticeGoesAway ==
    \A t \in Tabs : \A m \in 1..MaxClicks :
        notice[t] = m ~> notice[t] # m
=============================================================================
