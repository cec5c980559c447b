-------------------------- MODULE PortalSessionProofs --------------------------
(***************************************************************************)
(* Theorems about PortalSession, for any number of tabs, accounts, logins  *)
(* and clicks: when a header shows what is stored, and that no             *)
(* notification is left without a timer that hides it.                     *)
(***************************************************************************)
EXTENDS PortalSession, FiniteSetTheorems, TLAPS

-----------------------------------------------------------------------------
\* The inductive invariant

\* The storage is written and cleared as a whole.
StoredFits == stored.user = stored.token

\* Where no two logins of a tab were under way together there is at most one,
\* and while there is one the tab has no token: Connect asks for none where
\* there is one, and the answer that brings one ends the login.
OneLogin ==
    \A t \in Tabs : ~overlapped[t] =>
        \A l \in Pending(t) : page[t].token = None /\ Pending(t) = {l}

IInv == TypeOK /\ StoredFits /\ OneLogin /\ SessionsFit /\ VisibleHasTimer

-----------------------------------------------------------------------------
\* Loading a tab

\* A tab that is opened or reloaded has neither logins nor timers, and shows
\* what is stored (Header.tsx:73-77).
LEMMA LoadKeeps ==
    ASSUME IInv, NEW t \in Tabs, Load(t)
    PROVE  IInv'
  <1>1. TypeOK /\ StoredFits /\ OneLogin /\ SessionsFit /\ VisibleHasTimer
      BY DEF IInv
  <1>2. /\ page' \in [Tabs -> [token : Somebody, loggedIn : BOOLEAN,
                                user : Somebody]]
        /\ page'[t].token = stored.token /\ page'[t].user = stored.user
        /\ page'[t].loggedIn = (stored.token # None)
        /\ \A u \in Tabs \ {t} : page'[u] = page[u]
      BY <1>1 DEF TypeOK, Load, Loaded
  <1>3. /\ logins' \subseteq logins /\ Pending(t)' = {}
        /\ \A u \in Tabs \ {t} : Pending(u)' = Pending(u)
      BY DEF Load, Pending
  <1>4. /\ overlapped' \in [Tabs -> BOOLEAN]
        /\ \A u \in Tabs \ {t} : overlapped'[u] = overlapped[u]
        /\ stale' \in [Tabs -> BOOLEAN] /\ refused' \in [Tabs -> BOOLEAN]
        /\ \A u \in Tabs \ {t} : stale'[u] = stale[u] /\ refused'[u] = refused[u]
      BY <1>1 DEF TypeOK, Load
  <1>5. /\ scans' \in [Tabs -> SUBSET Scan] /\ wallet' \in [Tabs -> Somebody]
        /\ modal' \in [Tabs -> BOOLEAN]
      BY <1>1 DEF TypeOK, Load, Somebody
  <1>6. /\ notice' \in [Tabs -> 0..MaxClicks] /\ notice'[t] = 0
        /\ timers' \in [Tabs -> Seq(1..MaxClicks)]
        /\ \A u \in Tabs \ {t} : notice'[u] = notice[u] /\ timers'[u] = timers[u]
      BY <1>1, SessionAssumption DEF TypeOK, Load
  <1>7. stored' = stored /\ connects' = connects /\ clicks' = clicks
      BY DEF Load
  <1>8. TypeOK'
      BY <1>1, <1>2, <1>3, <1>4, <1>5, <1>6, <1>7 DEF TypeOK
  <1>9. StoredFits' /\ OneLogin'
      BY <1>1, <1>2, <1>3, <1>4, <1>7 DEF StoredFits, OneLogin
  <1>10. SessionsFit'
    <2>1. HeaderShowsStored'
        BY <1>1, <1>2, <1>4, <1>7
        DEF HeaderShowsStored, ShowsAvatar, SessionsFit, StoredFits
    <2>2. ShownOwner'
        BY <1>1, <1>2, <1>4 DEF ShownOwner, SessionsFit, StoredFits
    <2> QED
        BY <2>1, <2>2 DEF SessionsFit
  <1>11. VisibleHasTimer'
      BY <1>1, <1>6 DEF VisibleHasTimer
  <1> QED
      BY <1>8, <1>9, <1>10, <1>11 DEF IInv

-----------------------------------------------------------------------------
\* Logging in and out

\* No step of a login or logout touches a notification.
LEMMA SessionStep ==
    ASSUME VisibleHasTimer, UNCHANGED notification
    PROVE  VisibleHasTimer'
  BY DEF VisibleHasTimer, notification

\* A click on Login (Header.tsx:88-91).
LEMMA HandleLoginKeeps ==
    ASSUME IInv, NEW t \in Tabs, HandleLogin(t)
    PROVE  IInv'
  <1>1. TypeOK'
      BY DEF IInv, TypeOK, HandleLogin, notification, known
  <1>2. VisibleHasTimer'
      BY SessionStep DEF IInv, HandleLogin
  <1>3. StoredFits' /\ OneLogin' /\ SessionsFit'
      BY DEF IInv, StoredFits, OneLogin, Pending, SessionsFit, ShownOwner,
             HeaderShowsStored, ShowsAvatar, HandleLogin, known
  <1> QED
      BY <1>1, <1>2, <1>3 DEF IInv

\* The wallet announces a user (Header.tsx:93-107).
LEMMA ConnectKeeps ==
    ASSUME IInv, NEW t \in Tabs, NEW a \in Accounts, Connect(t, a)
    PROVE  IInv'
  <1> DEFINE l == [tab |-> t, account |-> a, number |-> connects']
  <1>1. TypeOK /\ OneLogin /\ SessionsFit
      BY DEF IInv
  <1>2. connects' \in 1..MaxConnects
      BY <1>1, SessionAssumption DEF TypeOK, Connect
  <1>3. /\ \/ page[t].token = None /\ logins' = logins \cup {l}
           \/ logins' = logins
        /\ l \in Login
      BY <1>2 DEF Connect, Login
  <1>4. /\ overlapped' \in [Tabs -> BOOLEAN]
        /\ \A u \in Tabs : overlapped[u] => overlapped'[u]
        /\ \A u \in Tabs \ {t} : overlapped'[u] = overlapped[u]
        /\ logins' # logins => overlapped'[t] \/ Pending(t) = {}
      BY <1>1 DEF TypeOK, Connect
  <1>5. TypeOK'
    <2>1. /\ wallet' \in [Tabs -> Somebody] /\ modal' \in [Tabs -> BOOLEAN]
          /\ logins' \subseteq Login /\ connects' \in 0..MaxConnects
        BY <1>1, <1>2, <1>3 DEF TypeOK, Connect, Somebody
    <2> QED
        BY <1>1, <1>4, <2>1 DEF TypeOK, Connect, notification, known
  <1>6. OneLogin'
    <2> SUFFICES ASSUME NEW u \in Tabs, ~overlapped'[u], NEW k \in Pending(u)'
                 PROVE  page[u].token = None /\ Pending(u)' = {k}
        BY DEF OneLogin, Connect
    <2>1. CASE u # t \/ logins' = logins
      <3>1. Pending(u)' = Pending(u)
          BY <2>1, <1>3 DEF Pending
      <3> QED
          BY <3>1, <1>1, <1>4 DEF OneLogin
    <2>2. CASE u = t /\ logins' # logins
      <3>1. Pending(t) = {} /\ page[t].token = None
          BY <2>2, <1>3, <1>4
      <3>2. Pending(t)' = {l}
          BY <2>2, <3>1, <1>3 DEF Pending
      <3> QED
          BY <2>2, <3>1, <3>2
    <2> QED
        BY <2>1, <2>2
  <1>7. SessionsFit'
      BY <1>1, <1>4 DEF SessionsFit, HeaderShowsStored, ShowsAvatar, ShownOwner,
                        Connect, known
  <1> QED
      BY <1>5, <1>6, <1>7, SessionStep DEF IInv, StoredFits, Connect

\* A login ends with a token, without one, or without an answer
\* (Header.tsx:20-55).
LEMMA LoginEndsKeeps ==
    ASSUME IInv, LoginEnds
    PROVE  IInv'
  <1>1. TypeOK /\ StoredFits /\ OneLogin /\ SessionsFit /\ VisibleHasTimer
      BY DEF IInv
  <1>2. PICK l \in logins : /\ logins' = logins \ {l}
                            /\ Granted(l) \/ Refused(l) \/ Lost
      BY DEF LoginEnds
  <1>3. l.tab \in Tabs /\ l.account \in Somebody
      BY <1>1, <1>2 DEF TypeOK, Login, Somebody
  <1>4. UNCHANGED <<wallet, modal, connects, overlapped, notification>>
      BY <1>2 DEF Granted, Refused, Lost
  <1>5. \A u \in Tabs : Pending(u)' \subseteq Pending(u)
      BY <1>2 DEF Pending
  <1>6. l \in Pending(l.tab) /\ l \notin Pending(l.tab)'
      BY <1>2 DEF Pending
  <1>7. VisibleHasTimer'
      BY <1>1, <1>4, SessionStep
  <1>8. CASE Granted(l)
    <2>1. /\ page' \in [Tabs -> [token : Somebody, loggedIn : BOOLEAN,
                                  user : Somebody]]
          /\ page'[l.tab].token = l.account /\ page'[l.tab].user = l.account
          /\ \A u \in Tabs \ {l.tab} : page'[u] = page[u]
          /\ page'[l.tab].loggedIn = TRUE /\ l.account # None
          /\ stored' = [token |-> l.account, user |-> l.account]
          /\ stale' = [u \in Tabs |-> u # l.tab]
          /\ refused' \in [Tabs -> BOOLEAN]
        BY <1>1, <1>2, <1>3, <1>8, SessionAssumption
        DEF Granted, Written, TypeOK, Login
    <2>2. TypeOK'
        BY <1>1, <1>2, <1>3, <1>4, <2>1 DEF TypeOK, notification
    <2>3. StoredFits' /\ SessionsFit'
        BY <1>1, <1>3, <1>4, <2>1
           DEF StoredFits, SessionsFit, HeaderShowsStored, ShowsAvatar, ShownOwner
    <2>4. OneLogin'
      <3> SUFFICES ASSUME NEW u \in Tabs, ~overlapped[u], NEW k \in Pending(u)'
                   PROVE  page'[u].token = None /\ Pending(u)' = {k}
          BY <1>4 DEF OneLogin
      <3>1. k \in Pending(u) /\ page[u].token = None /\ Pending(u) = {k}
          BY <1>1, <1>5 DEF OneLogin
      <3>2. u # l.tab
          BY <1>6, <3>1
      <3> QED
          BY <1>5, <2>1, <3>1, <3>2
    <2> QED
        BY <1>7, <2>2, <2>3, <2>4 DEF IInv
  <1>9. CASE Refused(l)
    <2>1. /\ page' \in [Tabs -> [token : Somebody, loggedIn : BOOLEAN,
                                  user : Somebody]]
          /\ \A u \in Tabs : page'[u].token = page[u].token
          /\ \A u \in Tabs \ {l.tab} : page'[u] = page[u]
          /\ stored' = stored
          /\ refused' \in [Tabs -> BOOLEAN] /\ refused'[l.tab]
          /\ \A u \in Tabs \ {l.tab} : refused'[u] = refused[u]
          /\ stale' = stale
      <3>1. /\ page \in [Tabs -> [token : Somebody, loggedIn : BOOLEAN,
                                   user : Somebody]]
            /\ stored' = stored /\ stale' = stale
            /\ refused \in [Tabs -> BOOLEAN]
            /\ refused' = [refused EXCEPT ![l.tab] = TRUE]
            /\ page' = [page EXCEPT ![l.tab] =
                          [page[l.tab] EXCEPT !.loggedIn = TRUE, !.user = l.account]]
          BY <1>1, <1>3, <1>9 DEF Refused, TypeOK
      <3>2. page'[l.tab] = [token |-> page[l.tab].token, loggedIn |-> TRUE,
                            user |-> l.account]
          BY <1>3, <3>1
      <3> QED
          BY <1>3, <3>1, <3>2
    <2>2. TypeOK'
        BY <1>1, <1>2, <1>4, <2>1 DEF TypeOK, notification
    <2>3. ~overlapped[l.tab] => page[l.tab].token = None
        BY <1>1, <1>3, <1>6 DEF OneLogin
    <2>4. StoredFits' /\ SessionsFit'
        BY <1>1, <1>3, <1>4, <2>1, <2>3
           DEF StoredFits, SessionsFit, HeaderShowsStored, ShowsAvatar, ShownOwner
    <2>5. OneLogin'
      <3> SUFFICES ASSUME NEW u \in Tabs, ~overlapped[u], NEW k \in Pending(u)'
                   PROVE  page'[u].token = None /\ Pending(u)' = {k}
          BY <1>4 DEF OneLogin
      <3> QED
          BY <1>1, <1>5, <2>1 DEF OneLogin
    <2> QED
        BY <1>7, <2>2, <2>4, <2>5 DEF IInv
  <1>10. CASE Lost
    <2>1. TypeOK'
        BY <1>1, <1>2, <1>10 DEF TypeOK, Lost, notification, known
    <2>2. StoredFits' /\ SessionsFit'
        BY <1>1, <1>10
           DEF StoredFits, SessionsFit, HeaderShowsStored, ShowsAvatar, ShownOwner,
               Lost, known
    <2>3. OneLogin'
      <3> SUFFICES ASSUME NEW u \in Tabs, ~overlapped[u], NEW k \in Pending(u)'
                   PROVE  page[u].token = None /\ Pending(u)' = {k}
          BY <1>10 DEF OneLogin, Lost
      <3> QED
          BY <1>1, <1>5 DEF OneLogin
    <2> QED
        BY <1>7, <2>1, <2>2, <2>3 DEF IInv
  <1> QED
      BY <1>2, <1>8, <1>9, <1>10

\* Logging out clears the storage and the tab (Header.tsx:109-118).
LEMMA HandleLogoutKeeps ==
    ASSUME IInv, NEW t \in Tabs, HandleLogout(t)
    PROVE  IInv'
  <1>1. TypeOK /\ StoredFits /\ OneLogin /\ SessionsFit /\ VisibleHasTimer
      BY DEF IInv
  <1>2. /\ page' \in [Tabs -> [token : Somebody, loggedIn : BOOLEAN,
                                user : Somebody]]
        /\ page'[t].token = None /\ page'[t].user = None /\ ~page'[t].loggedIn
        /\ \A u \in Tabs \ {t} : page'[u] = page[u]
        /\ stored' = [token |-> None, user |-> None]
        /\ wallet' \in [Tabs -> Somebody]
        /\ stale' = [u \in Tabs |-> u # t] /\ refused' \in [Tabs -> BOOLEAN]
      BY <1>1 DEF HandleLogout, Written, LoggedOut, Empty, TypeOK, Somebody
  <1>3. UNCHANGED <<modal, logins, connects, overlapped, notification>>
      BY DEF HandleLogout
  <1>4. TypeOK'
      BY <1>1, <1>2, <1>3 DEF TypeOK, notification, Somebody
  <1>5. StoredFits' /\ SessionsFit'
      BY <1>1, <1>2, <1>3
      DEF StoredFits, SessionsFit, HeaderShowsStored, ShowsAvatar, ShownOwner
  <1>6. OneLogin'
      BY <1>1, <1>2, <1>3 DEF OneLogin, Pending
  <1> QED
      BY <1>1, <1>3, <1>4, <1>5, <1>6, SessionStep DEF IInv

-----------------------------------------------------------------------------
\* Re-scans and notifications

\* The timers of a tab are a sequence after one has been taken from the front.
LEMMA TailType ==
    ASSUME NEW S, NEW s \in Seq(S), s # <<>>
    PROVE  Tail(s) \in Seq(S)
  OBVIOUS

\* The timers that the clicks of one answer start are as many as the clicks.
LEMMA CopiesType ==
    ASSUME NEW S, NEW x \in S, NEW n \in Nat
    PROVE  [i \in 1..n |-> x] \in Seq(S) /\ Len([i \in 1..n |-> x]) = n
  OBVIOUS

\* No step of a re-scan or of a notification touches a login.
LEMMA NotificationStep ==
    ASSUME StoredFits, OneLogin, SessionsFit, UNCHANGED session
    PROVE  StoredFits' /\ OneLogin' /\ SessionsFit'
  BY DEF StoredFits, OneLogin, Pending, SessionsFit, HeaderShowsStored,
         ShowsAvatar, ShownOwner, session, known

\* A click on Scan (GuildInfo.tsx:24-26).
LEMMA HandleOnScanClickKeeps ==
    ASSUME IInv, NEW t \in Tabs, NEW g \in Accounts, HandleOnScanClick(t, g)
    PROVE  IInv'
  <1>1. TypeOK /\ UNCHANGED <<session, notice, timers>>
      BY DEF IInv, HandleOnScanClick
  <1>2. clicks' \in 1..MaxClicks
      BY <1>1, SessionAssumption DEF TypeOK, HandleOnScanClick
  <1> DEFINE same == {s \in scans[t] : s.guild = g}
             s == [guild |-> g, waiting |-> {clicks'} \cup
                                  UNION {r.waiting : r \in same}]
  <1>3. s \in Scan
    <2>1. \A r \in same : r.waiting \subseteq 1..MaxClicks
        BY <1>1 DEF TypeOK, Scan
    <2>2. UNION {r.waiting : r \in same} \subseteq 1..MaxClicks
        BY <2>1
    <2> QED
        BY <1>2, <2>2 DEF Scan
  <1>4. scans' \in [Tabs -> SUBSET Scan]
    <2>1. scans' = [scans EXCEPT ![t] = (scans[t] \ same) \cup {s}]
        BY DEF HandleOnScanClick
    <2>2. scans[t] \subseteq Scan
        BY <1>1 DEF TypeOK
    <2> HIDE DEF s
    <2> QED
        BY <1>1, <1>3, <2>1, <2>2 DEF TypeOK
  <1>5. TypeOK'
      BY <1>1, <1>2, <1>4 DEF TypeOK, session, known
  <1>6. VisibleHasTimer'
      BY <1>1 DEF IInv, VisibleHasTimer
  <1> QED
      BY <1>1, <1>5, <1>6, NotificationStep DEF IInv

\* The answer of a re-scan is shown by every click that waited, each of which
\* starts a timer (GuildInfo.tsx:28-36).
LEMMA ScanEndsKeeps ==
    ASSUME IInv, NEW t \in Tabs, ScanEnds(t)
    PROVE  IInv'
  <1>1. TypeOK /\ VisibleHasTimer /\ UNCHANGED <<session, clicks>>
      BY DEF IInv, ScanEnds
  <1>2. PICK s \in scans[t] :
            /\ scans' = [scans EXCEPT ![t] = @ \ {s}]
            /\ \/ \E m \in s.waiting : ScanAnswered(t, s, m)
               \/ UNCHANGED <<notice, timers>>
      BY DEF ScanEnds
  <1>3. scans' \in [Tabs -> SUBSET Scan]
      BY <1>1, <1>2 DEF TypeOK
  <1>4. CASE UNCHANGED <<notice, timers>>
    <2>1. TypeOK' /\ VisibleHasTimer'
        BY <1>1, <1>3, <1>4 DEF TypeOK, VisibleHasTimer, session, known
    <2> QED
        BY <1>1, <2>1, NotificationStep DEF IInv
  <1>5. ASSUME NEW m \in s.waiting, ScanAnswered(t, s, m)
        PROVE  IInv'
    <2> DEFINE n == Cardinality(s.waiting)
               new == [i \in 1..n |-> m]
    <2>1. s.waiting \subseteq 1..MaxClicks
        BY <1>1, <1>2 DEF TypeOK, Scan
    <2>2. n \in Nat \ {0}
      <3>1. IsFiniteSet(s.waiting)
        <4>1. 1 \in Int /\ MaxClicks \in Int
            BY SessionAssumption
        <4>2. IsFiniteSet(1..MaxClicks)
            BY <4>1, FS_Interval
        <4> QED
            BY <2>1, <4>2, FS_Subset
      <3>2. s.waiting # {}
          BY <1>5
      <3> QED
          BY <3>1, <3>2, FS_CardinalityType, FS_EmptySet
    <2> HIDE DEF n
    <2>3. m \in 1..MaxClicks
        BY <1>5, <2>1
    <2>4. new \in Seq(1..MaxClicks) /\ Len(new) = n
        BY <2>2, <2>3, CopiesType
    <2>5. timers[t] \in Seq(1..MaxClicks)
        BY <1>1 DEF TypeOK
    <2>6. /\ timers[t] \o new \in Seq(1..MaxClicks) /\ timers[t] \o new # <<>>
          /\ (timers[t] \o new)[Len(timers[t] \o new)] = m
      <3>3. new[n] = m
          BY <2>2
      <3> HIDE DEF new
      <3>1. /\ Len(timers[t]) \in Nat
            /\ Len(timers[t] \o new) = Len(timers[t]) + n
            /\ timers[t] \o new \in Seq(1..MaxClicks)
          BY <2>4, <2>5
      <3>2. (timers[t] \o new)[Len(timers[t]) + n] = new[n]
          BY <2>2, <2>4, <2>5, <3>1
      <3>4. Len(timers[t] \o new) # 0
          BY <2>2, <3>1
      <3> QED
          BY <3>1, <3>2, <3>3, <3>4
    <2>7. /\ notice' = [notice EXCEPT ![t] = m]
          /\ timers' = [timers EXCEPT ![t] = timers[t] \o new]
        BY <1>5 DEF ScanAnswered, new, n
    <2> HIDE DEF new
    <2>8. /\ notice' \in [Tabs -> 0..MaxClicks] /\ notice'[t] = m
          /\ timers' \in [Tabs -> Seq(1..MaxClicks)]
          /\ timers'[t] = timers[t] \o new
          /\ \A u \in Tabs \ {t} : notice'[u] = notice[u] /\ timers'[u] = timers[u]
      <3>1. /\ notice \in [Tabs -> 0..MaxClicks]
            /\ timers \in [Tabs -> Seq(1..MaxClicks)]
          BY <1>1 DEF TypeOK
      <3> QED
          BY <2>3, <2>6, <2>7, <3>1, SessionAssumption
    <2>9. TypeOK'
        BY <1>1, <1>3, <2>8 DEF TypeOK, session, known
    <2>10. VisibleHasTimer'
        BY <1>1, <2>6, <2>8 DEF VisibleHasTimer
    <2> QED
        BY <1>1, <2>9, <2>10, NotificationStep DEF IInv
  <1> QED
      BY <1>2, <1>4, <1>5

\* Closing a notification, or the oldest timer, hides what is shown
\* (GuildInfo.tsx:34, Notification.tsx).
LEMMA HidingKeeps ==
    ASSUME IInv, NEW t \in Tabs, HandleClose(t) \/ TimerFires(t)
    PROVE  IInv'
  <1>1. TypeOK /\ VisibleHasTimer /\ UNCHANGED <<session, scans, clicks>>
      BY DEF IInv, HandleClose, TimerFires
  <1>2. /\ notice' \in [Tabs -> 0..MaxClicks] /\ notice'[t] = 0
        /\ \A u \in Tabs \ {t} : notice'[u] = notice[u]
    <2>1. notice \in [Tabs -> 0..MaxClicks]
        BY <1>1 DEF TypeOK
    <2> QED
        BY <2>1, SessionAssumption DEF HandleClose, TimerFires
  <1>3. /\ timers' \in [Tabs -> Seq(1..MaxClicks)]
        /\ \A u \in Tabs \ {t} : timers'[u] = timers[u]
    <2>1. timers \in [Tabs -> Seq(1..MaxClicks)]
        BY <1>1 DEF TypeOK
    <2>2. CASE HandleClose(t)
        BY <2>1, <2>2 DEF HandleClose
    <2>3. CASE TimerFires(t)
      <3>1. timers[t] \in Seq(1..MaxClicks) /\ timers[t] # <<>>
          BY <2>1, <2>3 DEF TimerFires
      <3>2. Tail(timers[t]) \in Seq(1..MaxClicks)
          BY <3>1, TailType
      <3>3. timers' = [timers EXCEPT ![t] = Tail(timers[t])]
          BY <2>3 DEF TimerFires
      <3> QED
          BY <2>1, <3>2, <3>3
    <2> QED
        BY <2>2, <2>3
  <1>4. TypeOK' /\ VisibleHasTimer'
      BY <1>1, <1>2, <1>3 DEF TypeOK, VisibleHasTimer, session, known
  <1> QED
      BY <1>1, <1>4, NotificationStep DEF IInv

-----------------------------------------------------------------------------
\* At first nobody is logged in and nothing is shown.
LEMMA InitIInv ==
    ASSUME Init
    PROVE  IInv
  <1>1. TypeOK
    <2>1. stored \in [token : Somebody, user : Somebody]
        BY DEF Init, Empty, Somebody
    <2>2. page \in [Tabs -> [token : Somebody, loggedIn : BOOLEAN, user : Somebody]]
        BY DEF Init, Loaded, Empty, Somebody
    <2>3. /\ connects \in 0..MaxConnects /\ clicks \in 0..MaxClicks
          /\ notice \in [Tabs -> 0..MaxClicks]
        BY SessionAssumption DEF Init
    <2>4. timers \in [Tabs -> Seq(1..MaxClicks)]
        BY DEF Init
    <2> QED
        BY <2>1, <2>2, <2>3, <2>4 DEF Init, TypeOK, Somebody
  <1>2. StoredFits /\ OneLogin /\ VisibleHasTimer
      BY DEF Init, Empty, StoredFits, OneLogin, Pending, VisibleHasTimer
  <1>3. SessionsFit
      BY SessionAssumption
         DEF Init, Empty, Loaded, SessionsFit, HeaderShowsStored, ShowsAvatar,
             ShownOwner
  <1> QED
      BY <1>1, <1>2, <1>3 DEF IInv

\* No step breaks the invariant.
LEMMA NextIInv ==
    ASSUME IInv, [Next]_vars
    PROVE  IInv'
  <1>1. CASE UNCHANGED vars
      BY <1>1 DEF IInv, TypeOK, StoredFits, OneLogin, Pending, SessionsFit,
                  HeaderShowsStored, ShowsAvatar, ShownOwner, VisibleHasTimer,
                  vars, session, known, notification
  <1>2. CASE LoginEnds
      BY <1>2, LoginEndsKeeps
  <1>3. ASSUME NEW t \in Tabs,
               \/ Load(t) \/ HandleLogin(t) \/ HandleLogout(t)
               \/ ScanEnds(t) \/ HandleClose(t) \/ TimerFires(t)
               \/ \E a \in Accounts : Connect(t, a) \/ HandleOnScanClick(t, a)
        PROVE  IInv'
      BY <1>3, LoadKeeps, HandleLoginKeeps, HandleLogoutKeeps, ScanEndsKeeps,
         HidingKeeps, ConnectKeeps, HandleOnScanClickKeeps
  <1> QED
      BY <1>1, <1>2, <1>3 DEF Next

\* It holds in every state of every behaviour.
LEMMA Invariance ==
    Spec => []IInv
  BY InitIInv, NextIInv, PTL DEF Spec

-----------------------------------------------------------------------------
\* Theorems

\* The variables keep their types (Header.tsx, GuildInfo.tsx).
THEOREM SessionTypeCorrect == Spec => []TypeOK
  <1>1. IInv => TypeOK
      BY DEF IInv
  <1> QED
      BY <1>1, Invariance, PTL

\* The header of every tab shows whom a re-scan is authorised for, but of a tab
\* that another one has overtaken, or that has had a login refused, since it
\* last read or wrote the storage; and even then one with a token shows the
\* name of its account, unless two logins of the tab overlapped
\* (Header.tsx:13-118).
THEOREM HeadersFitStorage == Spec => []SessionsFit
  <1>1. IInv => SessionsFit
      BY DEF IInv
  <1> QED
      BY <1>1, Invariance, PTL

\* Whatever overlapping clicks, answers and closings come, a notification that
\* is shown has a timer of its own still to fire (GuildInfo.tsx:28-36).
THEOREM NoticeIsTimed == Spec => []VisibleHasTimer
  <1>1. IInv => VisibleHasTimer
      BY DEF IInv
  <1> QED
      BY <1>1, Invariance, PTL
=============================================================================
