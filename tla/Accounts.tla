------------------------------ MODULE Accounts ------------------------------
(***************************************************************************)
(* The accounts of GomokuServer: registration, login, menu and logout      *)
(* (the handlers), the sessions of SessionManager and its memory storage,  *)
(* the users online, and the statistics page.  The handlers run on the     *)
(* loop threads at the same time; sessions_ and the lookups in             *)
(* onlineUsers_ take no lock.  Statements go through the connection pool.  *)
(* getSession, and otherwise each operation on a container, is atomic      *)
(* here; what lies between two is not.                                     *)
(***************************************************************************)
EXTENDS DbPool

CONSTANTS
    UserName,   \* names a client may register or log in with
    MaxRow,     \* bound on the rows of table users
    MaxSession, \* bound on the sessions created
    MaxReq      \* bound on the requests received

VARIABLES
    users,      \* table users: a sequence of names, the id is the index
    data_,      \* the Session objects: userId (0: none) and isLoggedIn
    sessions_,  \* MemorySessionStorage: the ids stored
    expired,    \* the sessions not used for maxAge_
    onlineUsers_, maxOnline_,
    pc,         \* the step of each thread's handler
    loc,        \* its local variables
    requests,   \* requests received, for the bound
    proved      \* history: <<u, s>>: the password of u came with session s

webVars == <<users, data_, sessions_, expired, onlineUsers_, maxOnline_, pc,
             loc, requests, proved>>
vars == <<poolVars, webVars>>

ASSUME AccountAssumption == MaxRow \in Nat /\ MaxSession \in Nat /\ MaxReq \in Nat

Session == 1 .. MaxSession
UserId == 1 .. MaxRow
Fresh == [userId |-> 0, isLoggedIn |-> FALSE]
NoLocals == [name |-> "", cookie |-> 0, id |-> 0, right |-> FALSE,
             session |-> 0, max |-> 0]
Most(a, b) == IF a > b THEN a ELSE b

Init ==
    /\ PoolInit
    /\ users \in UNION {[1 .. n -> UserName] : n \in 0 .. MaxRow}
    /\ requests = 0
    /\ data_ = <<>> /\ sessions_ = {} /\ expired = {}
    /\ onlineUsers_ = {} /\ maxOnline_ = 0
    /\ pc = [t \in Thread |-> "idle"]
    /\ loc = [t \in Thread |-> NoLocals]
    /\ proved = {}

Goto(t, l) == pc' = [pc EXCEPT ![t] = l]
Keep(t, locals) == loc' = [loc EXCEPT ![t] = locals]
Done(t) == Goto(t, "idle") /\ Keep(t, NoLocals)

(* A step of a handler that does not go to the database, and one that      *)
(* starts a statement.                                                     *)
At(t, l) == pc[t] = l /\ dpc[t] = "none" /\ UNCHANGED poolVars
Query(t, m) == Begin(t) /\ Goto(t, m)

(* A statement throws, or getConnection does: the handler answers 400 or   *)
(* 500.                                                                    *)
Fails(t) ==
    /\ Caught(t) /\ Done(t)
    /\ UNCHANGED <<users, data_, sessions_, expired, onlineUsers_, maxOnline_,
                   proved>>

-----------------------------------------------------------------------------
(* load: whether the storage has the session of a cookie; one that has     *)
(* expired is not given, and erased.                                       *)
load(cookie) == cookie \in sessions_ \ expired
Erased(cookie) == sessions_ \ ({cookie} \cap expired)

(* generateSessionId: an id that no session has. *)
generateSessionId == Len(data_) + 1

(* getSession: the session of the cookie, or else a new one; refreshed and *)
(* stored either way.                                                      *)
getSession(cookie, s) ==
    IF load(cookie)
      THEN s = cookie /\ UNCHANGED <<data_, sessions_>>
      ELSE /\ s = generateSessionId /\ s \in Session
           /\ data_' = Append(data_, Fresh)
           /\ sessions_' = Erased(cookie) \cup {s}

destroySession(s) == sessions_' = sessions_ \ {s}

(* setValue, which makes values of the session's data, also saves the      *)
(* session, which may have been destroyed.                                 *)
setValue(s, values) ==
    /\ data_' = [data_ EXCEPT ![s] = values]
    /\ sessions_' = sessions_ \cup {s}

-----------------------------------------------------------------------------
(* LoginHandler: queryUserId, ... *)
Login(t, name, cookie) ==
    /\ pc[t] = "idle" /\ Query(t, "queryUserId")
    /\ Keep(t, [NoLocals EXCEPT !.name = name, !.cookie = cookie])
    /\ UNCHANGED <<users, data_, sessions_, expired, onlineUsers_, maxOnline_,
                   proved>>

(* Mutant: the SELECT does not ask for the password. *)
queryUserId_name(t, right) ==
    /\ pc[t] = "queryUserId"
    /\ \/ \E id \in DOMAIN users :
             /\ Use(t, TRUE) /\ users[id] = loc[t].name
             /\ Keep(t, [NoLocals EXCEPT !.cookie = loc[t].cookie, !.id = id,
                                         !.right = right])
       \/ /\ Use(t, FALSE) /\ Keep(t, NoLocals)
    /\ UNCHANGED <<users, data_, sessions_, expired, onlineUsers_, maxOnline_,
                   pc, proved>>

(* ... which finds a row of that name if the password is right, or none    *)
(* (id 0 stands for -1), ...                                               *)
queryUserId(t, right) ==
    /\ pc[t] = "queryUserId"
    /\ \/ \E id \in DOMAIN users :
             /\ Use(t, TRUE) /\ users[id] = loc[t].name /\ right
             /\ Keep(t, [NoLocals EXCEPT !.cookie = loc[t].cookie, !.id = id,
                                         !.right = right])
       \/ /\ ~right \/ \A id \in DOMAIN users : users[id] # loc[t].name
          /\ Use(t, TRUE) /\ Keep(t, NoLocals)
       \/ /\ Use(t, FALSE) /\ Keep(t, NoLocals)
    /\ UNCHANGED <<users, data_, sessions_, expired, onlineUsers_, maxOnline_,
                   pc, proved>>

(* ... and is answered 401 then, ... *)
LoginWrong(t) ==
    /\ At(t, "queryUserId") /\ loc[t].id = 0
    /\ Done(t)
    /\ UNCHANGED <<users, data_, sessions_, expired, onlineUsers_, maxOnline_,
                   proved>>

(* ... getSession, ... *)
LoginSession(t) ==
    /\ At(t, "queryUserId") /\ loc[t].id # 0
    /\ \E s \in Session :
          /\ getSession(loc[t].cookie, s)
          /\ proved' = IF loc[t].right THEN proved \cup {<<loc[t].id, s>>}
                                       ELSE proved
          /\ Keep(t, [NoLocals EXCEPT !.id = loc[t].id, !.session = s])
          /\ Goto(t, "userId")
    /\ UNCHANGED <<users, expired, onlineUsers_, maxOnline_>>

(* ... the values stored in it, one by one, ... *)
LoginStore(t) ==
    /\ \/ /\ At(t, "userId")
          /\ setValue(loc[t].session,
                      [data_[loc[t].session] EXCEPT !.userId = loc[t].id])
          /\ Goto(t, "isLoggedIn")
       \/ /\ At(t, "isLoggedIn")
          /\ setValue(loc[t].session,
                      [data_[loc[t].session] EXCEPT !.isLoggedIn = TRUE])
          /\ Goto(t, "online")
    /\ UNCHANGED <<users, expired, onlineUsers_, maxOnline_, loc, proved>>

(* ... and only then the test that the user is not online: 403, the        *)
(* session staying as it is, or on to onlineUsers_, ...                    *)
LoginOnline(t) ==
    /\ At(t, "online")
    /\ \/ loc[t].id \in onlineUsers_ /\ Done(t)
       \/ loc[t].id \notin onlineUsers_ /\ Goto(t, "mark") /\ UNCHANGED loc
    /\ UNCHANGED <<users, data_, sessions_, expired, onlineUsers_, maxOnline_,
                   proved>>

LoginMark(t) ==
    /\ At(t, "mark")
    /\ onlineUsers_' = onlineUsers_ \cup {loc[t].id}
    /\ Goto(t, "max")
    /\ UNCHANGED <<users, data_, sessions_, expired, maxOnline_, loc, proved>>

(* ... and updateMaxOnline: size and maxOnline_ are read, then the larger  *)
(* is stored.                                                              *)
updateMaxOnline(t) ==
    /\ \/ /\ At(t, "max")
          /\ Keep(t, [NoLocals EXCEPT !.max =
                         Most(maxOnline_, Cardinality(onlineUsers_))])
          /\ Goto(t, "storeMax")
          /\ UNCHANGED maxOnline_
       \/ /\ At(t, "storeMax")
          /\ maxOnline_' = loc[t].max
          /\ Done(t)
    /\ UNCHANGED <<users, data_, sessions_, expired, onlineUsers_, proved>>

-----------------------------------------------------------------------------
(* LogoutHandler: the session and its user; without one stoi throws.       *)
(* Otherwise clear and destroySession, ...                                 *)
Logout(t, cookie) ==
    /\ At(t, "idle")
    /\ \E s \in Session :
          /\ getSession(cookie, s)
          /\ \/ data_'[s].userId = 0 /\ UNCHANGED <<pc, loc>>
             \/ /\ data_'[s].userId # 0
                /\ Keep(t, [NoLocals EXCEPT !.session = s,
                                            !.id = data_'[s].userId])
                /\ Goto(t, "clear")
    /\ UNCHANGED <<users, expired, onlineUsers_, maxOnline_, proved>>

(* ... json::parse, which may throw, ... *)
LogoutClear(t, parses) ==
    /\ At(t, "clear")
    /\ data_' = [data_ EXCEPT ![loc[t].session] = Fresh]
    /\ destroySession(loc[t].session)
    /\ \/ parses /\ Keep(t, [NoLocals EXCEPT !.id = loc[t].id]) /\ Goto(t, "offline")
       \/ ~parses /\ Done(t)
    /\ UNCHANGED <<users, expired, onlineUsers_, maxOnline_, proved>>

(* ... and the user goes offline. *)
LogoutOffline(t) ==
    /\ At(t, "offline")
    /\ onlineUsers_' = onlineUsers_ \ {loc[t].id}
    /\ Done(t)
    /\ UNCHANGED <<users, data_, sessions_, expired, maxOnline_, proved>>

(* MenuHandler, like the handlers of the game, gets the session, and acts  *)
(* for its user when it is logged in.                                      *)
Menu(t, cookie) ==
    /\ At(t, "idle")
    /\ \E s \in Session : getSession(cookie, s) /\ Keep(t, [NoLocals EXCEPT !.session = s])
    /\ Goto(t, "menu")
    /\ UNCHANGED <<users, expired, onlineUsers_, maxOnline_, proved>>

MenuPage(t) ==
    /\ At(t, "menu") /\ Done(t)
    /\ UNCHANGED <<users, data_, sessions_, expired, onlineUsers_, maxOnline_,
                   proved>>

-----------------------------------------------------------------------------
(* RegisterHandler: isUserExist, then INSERT, then SELECT, each with a     *)
(* connection of its own.                                                  *)
Register(t, name) ==
    /\ pc[t] = "idle" /\ Len(users) < MaxRow
    /\ Query(t, "isUserExist")
    /\ Keep(t, [NoLocals EXCEPT !.name = name])
    /\ UNCHANGED <<users, data_, sessions_, expired, onlineUsers_, maxOnline_,
                   proved>>

isUserExist(t) ==
    /\ pc[t] = "isUserExist"
    /\ \E ok \in BOOLEAN : Use(t, ok)
    /\ \/ \E i \in DOMAIN users : users[i] = loc[t].name /\ Keep(t, NoLocals)
       \/ (\A i \in DOMAIN users : users[i] # loc[t].name) /\ UNCHANGED loc
    /\ UNCHANGED <<users, data_, sessions_, expired, onlineUsers_, maxOnline_,
                   pc, proved>>

insertUser(t) ==
    /\ dpc[t] = "none"
    /\ \/ /\ pc[t] = "isUserExist" /\ loc[t].name # ""
          /\ Query(t, "insert") /\ UNCHANGED loc
       \/ /\ pc[t] = "insert"
          /\ Query(t, "select") /\ Keep(t, NoLocals)
       \/ /\ pc[t] = "select" \/ (pc[t] = "isUserExist" /\ loc[t].name = "")
          /\ Done(t) /\ UNCHANGED poolVars
    /\ UNCHANGED <<users, data_, sessions_, expired, onlineUsers_, maxOnline_,
                   proved>>

executeUpdate(t) ==
    /\ pc[t] = "insert"
    /\ \/ Use(t, FALSE) /\ UNCHANGED users
       \/ /\ Use(t, TRUE)
          /\ Len(users) < MaxRow
          /\ users' = Append(users, loc[t].name)
    /\ UNCHANGED <<data_, sessions_, expired, onlineUsers_, maxOnline_, pc,
                   loc, proved>>

(* getBackendData: the counts, then getUserCount. *)
getBackendData(t) ==
    /\ pc[t] = "idle" /\ Query(t, "select")
    /\ UNCHANGED <<users, data_, sessions_, expired, onlineUsers_, maxOnline_,
                   loc, proved>>

executeQuery(t) ==
    /\ pc[t] = "select"
    /\ \E ok \in BOOLEAN : Use(t, ok)
    /\ UNCHANGED <<users, data_, sessions_, expired, onlineUsers_, maxOnline_,
                   pc, loc, proved>>

-----------------------------------------------------------------------------
(* An hour passes without a request of the session. *)
Expire(s) ==
    /\ s \in sessions_ \ expired
    /\ \A t \in Thread : loc[t].session # s
    /\ expired' = expired \cup {s}
    /\ UNCHANGED <<poolVars, users, data_, sessions_, onlineUsers_, maxOnline_,
                   pc, loc, requests, proved>>

Handle(t) ==
    /\ UNCHANGED requests
    /\ \/ \E right \in BOOLEAN : queryUserId(t, right)
       \/ LoginWrong(t) \/ LoginSession(t) \/ LoginStore(t) \/ LoginOnline(t)
       \/ LoginMark(t) \/ updateMaxOnline(t)
       \/ \E parses \in BOOLEAN : LogoutClear(t, parses)
       \/ LogoutOffline(t) \/ MenuPage(t)
       \/ isUserExist(t) \/ insertUser(t) \/ executeUpdate(t) \/ executeQuery(t)
       \/ Fails(t)

Receive(t) ==
    /\ requests < MaxReq /\ requests' = requests + 1
    /\ \/ \E cookie \in 0 .. Len(data_) :
             \/ Logout(t, cookie) \/ Menu(t, cookie)
             \/ \E name \in UserName : Login(t, name, cookie)
       \/ \E name \in UserName : Register(t, name)
       \/ getBackendData(t)

Next ==
    \/ \E t \in Thread : \/ Receive(t) \/ Handle(t)
                         \/ (Borrow(t) \/ SpuriousWakeup(t)) /\ UNCHANGED webVars
    \/ Check /\ UNCHANGED webVars
    \/ \E s \in Session : Expire(s)

(* The threads run; a thread that wants the mutex gets it in the end,      *)
(* however often the checking thread takes it.                             *)
Fairness ==
    /\ \A t \in Thread : /\ WF_vars(Handle(t))
                         /\ SF_vars(Borrow(t) /\ UNCHANGED webVars)
    /\ WF_vars(Check /\ UNCHANGED webVars)

Spec == Init /\ [][Next]_vars /\ Fairness

-----------------------------------------------------------------------------
(* Whatever login, logout and menu requests race on a session, a handler   *)
(* never works on an expired one, and the user of a session is one whose   *)
(* password came with that very session: LoginHandler stores the user only *)
(* after queryUserId, and getSession makes a new session for a cookie that *)
(* is unknown, destroyed or too old.                                       *)
ActsForOwner ==
    /\ \A s \in DOMAIN data_ :
          data_[s].userId # 0 => <<data_[s].userId, s>> \in proved
    /\ \A t \in Thread : loc[t].session \notin expired
=============================================================================
