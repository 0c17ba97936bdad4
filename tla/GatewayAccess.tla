---------------------------- MODULE GatewayAccess ---------------------------
(* Who gets through the gateway: the operator, and the limits on everybody      *)
(* else.                                                                        *)
EXTENDS Integers, Sequences, FiniteSets

-----------------------------------------------------------------------------
(* Who may operate the node: the dashboard PIN, the sessions it opens and the   *)
(* reset by Telegram (setupNodeOS, createAuthToken and requireNodeAuth of       *)
(* src/src/gateway/server.ts, security/setup-token.ts, surface.ts).  The PIN    *)
(* and the sessions are kept by each process, the files are shared: during a    *)
(* reinstallation two processes use them.  A handler runs without interleaving. *)

CONSTANTS GateProcesses, Pins,
          SessionTtl, CodeTtl, \* 24 h and 5 min in the code
          MaxMinutes,          \* bound: the clock
          MaxPinChanges        \* bound: PINs replaced by one process

NoPin == "none"       \* no file, or a variable that is still ''
Emptied == "emptied"  \* a file that was truncated and not written

ASSUME GateAssumption == /\ {NoPin, Emptied} \cap Pins = {}
                         /\ {SessionTtl, CodeTtl, MaxMinutes, MaxPinChanges} \subseteq Nat

VARIABLES hashFile,  \* dashboard_pin.hash
          plainFile, \* dashboard_pin.txt of an older version
          gate,      \* [process -> what its closure holds]
          opened,    \* [process -> its sessions]
          minutes,   \* the clock
          setups     \* history: first PINs that were accepted

gateVars == <<hashFile, plainFile, gate, opened, minutes, setups>>

Off == [up |-> FALSE, pin |-> NoPin, armed |-> FALSE, codeUntil |-> -1, era |-> 0, redeemed |-> 0]
(* era counts the PINs change-pin replaced: a session belongs to one of them.   *)
SessionRecord == [until : 0..MaxMinutes + SessionTtl, era : 0..MaxPinChanges]

GateTypeOK ==
    /\ hashFile \in Pins \cup {NoPin, Emptied} /\ plainFile \in Pins \cup {NoPin}
    /\ gate \in [GateProcesses -> [up : BOOLEAN, pin : Pins \cup {NoPin}, armed : BOOLEAN,
                                   codeUntil : -1..MaxMinutes + CodeTtl, era : 0..MaxPinChanges, redeemed : 0..2]]
    /\ opened \in [GateProcesses -> SUBSET SessionRecord]
    /\ minutes \in 0..MaxMinutes /\ setups \in 0..2

(* A new node, one with a PIN, or one of the version that kept it in the clear. *)
GateInit == /\ hashFile \in Pins \cup {NoPin} /\ plainFile \in Pins \cup {NoPin}
            /\ plainFile # NoPin => hashFile = NoPin
            /\ gate = [p \in GateProcesses |-> Off]
            /\ opened = [p \in GateProcesses |-> {}]
            /\ minutes = 0 /\ setups = 0

(* writeFileSync may fail, before or after it has emptied the file.             *)
Overwritten(pin) == hashFile' \in {pin, hashFile, Emptied}

(* isValidToken and requireNodeAuth                                             *)
Valid(s) == minutes <= s.until
Operator(p) == \E s \in opened[p] : Valid(s)

(* setupTokenFor: a token is there unless a PIN was found.                      *)
Armed(pin) == pin = NoPin

(* createAuthToken: a session for p, and the expired ones are swept.            *)
SignIn(p, era) ==
    opened' = [opened EXCEPT ![p] = {s \in @ : Valid(s)}
                                    \cup {[until |-> minutes + SessionTtl, era |-> era]}]

(* The old file wins over the new one, and is removed when both steps succeed.  *)
StartGate(p) ==
    /\ ~gate[p].up
    /\ LET found == IF plainFile # NoPin THEN plainFile
                    ELSE IF hashFile = Emptied THEN NoPin ELSE hashFile
       IN  gate' = [gate EXCEPT ![p] = [Off EXCEPT !.up = TRUE, !.pin = found, !.armed = Armed(found)]]
    /\ \/ plainFile = NoPin /\ UNCHANGED <<hashFile, plainFile>>
       \/ /\ plainFile # NoPin
          /\ Overwritten(plainFile)
          /\ plainFile' \in IF hashFile' = plainFile THEN {plainFile, NoPin} ELSE {plainFile}
    /\ UNCHANGED <<opened, minutes, setups>>

StopGate(p) == /\ gate[p].up
               /\ gate' = [gate EXCEPT ![p] = Off]
               /\ opened' = [opened EXCEPT ![p] = {}]
               /\ UNCHANGED <<hashFile, plainFile, minutes, setups>>

FirstPinOverwrites(p, pin) ==    \* mutant: without the flag wx
    /\ gate[p].up /\ gate[p].pin = NoPin /\ gate[p].armed
    /\ hashFile' = pin /\ gate' = [gate EXCEPT ![p].pin = pin]
    /\ setups' = setups + 1 /\ SignIn(p, gate[p].era)
    /\ UNCHANGED <<plainFile, minutes>>

(* /api/auth/setup with the setup token.  The flag wx refuses to replace a      *)
(* file, also one that another process or a failed write has left; a write that *)
(* fails then may leave an empty file.                                          *)
FirstPin(p, pin) ==
    /\ gate[p].up /\ gate[p].pin = NoPin /\ gate[p].armed
    /\ hashFile = NoPin
    /\ \/ /\ hashFile' = pin
          /\ gate' = [gate EXCEPT ![p].pin = pin]
          /\ setups' = setups + 1
          /\ SignIn(p, gate[p].era)
       \/ hashFile' = Emptied /\ UNCHANGED <<gate, setups, opened>>
    /\ UNCHANGED <<plainFile, minutes>>

(* /api/auth/login with the PIN; LoginLimiter says whether it is judged.  A     *)
(* legacy digest is saved anew: when that fails the request fails with it.      *)
LogIn(p) == /\ gate[p].up /\ gate[p].pin # NoPin
            /\ \/ UNCHANGED hashFile /\ SignIn(p, gate[p].era)
               \/ hashFile = gate[p].pin /\ Overwritten(gate[p].pin)
                  /\ IF hashFile' = gate[p].pin THEN SignIn(p, gate[p].era) ELSE UNCHANGED opened
            /\ UNCHANGED <<plainFile, gate, minutes, setups>>

(* Any other path that nodeSurface keeps for the operator: an expired session   *)
(* is dropped when it is shown.  /api/auth/logout drops a valid one.            *)
ShowSession(p, s) == /\ s \in opened[p]
                     /\ opened' = [opened EXCEPT ![p] = @ \ {s}]
                     /\ UNCHANGED <<hashFile, plainFile, gate, minutes, setups>>

(* /api/auth/change-pin: it succeeds whether or not the file could be written,  *)
(* and every session of the process ends but the one it answers with.           *)
ChangePin(p, pin) ==
    /\ gate[p].up /\ gate[p].pin # NoPin /\ gate[p].era < MaxPinChanges
    /\ Operator(p)
    /\ gate' = [gate EXCEPT ![p].pin = pin, ![p].era = @ + 1]
    /\ Overwritten(pin)
    /\ opened' = [opened EXCEPT ![p] = {[until |-> minutes + SessionTtl, era |-> gate[p].era + 1]}]
    /\ UNCHANGED <<plainFile, minutes, setups>>

(* /api/auth/reset-pin-request: the code goes to the linked account.  nodeSurface *)
(* keeps both reset paths for the operator.                                     *)
RequestReset(p) == /\ gate[p].up /\ Operator(p)
                   /\ gate' = [gate EXCEPT ![p].codeUntil = minutes + CodeTtl, ![p].redeemed = 0]
                   /\ UNCHANGED <<hashFile, plainFile, opened, minutes, setups>>

(* /api/auth/reset-pin-confirm: the code is used up, the sessions stay open.    *)
ConfirmReset(p, pin) ==
    /\ gate[p].up /\ Operator(p)
    /\ minutes <= gate[p].codeUntil
    /\ gate' = [gate EXCEPT ![p].pin = pin, ![p].codeUntil = -1, ![p].redeemed = @ + 1]
    /\ Overwritten(pin)
    /\ SignIn(p, gate[p].era)
    /\ UNCHANGED <<plainFile, minutes, setups>>

MinutePasses == /\ minutes < MaxMinutes /\ minutes' = minutes + 1
                /\ UNCHANGED <<hashFile, plainFile, gate, opened, setups>>

GateNext == \/ MinutePasses
            \/ \E p \in GateProcesses :
                 \/ StartGate(p) \/ StopGate(p) \/ LogIn(p) \/ RequestReset(p)
                 \/ \E s \in opened[p] : ShowSession(p, s)
                 \/ \E pin \in Pins : FirstPin(p, pin) \/ ChangePin(p, pin) \/ ConfirmReset(p, pin)
-----------------------------------------------------------------------------
(* A session lives no longer than its day and never past a change of the PIN.   *)
SessionsAreCurrent == \A p \in GateProcesses : \A s \in opened[p] :
                          s.era = gate[p].era /\ s.until <= minutes + SessionTtl

(* Whatever fails, restarts or runs at the same time, the setup token names one *)
(* first PIN and never one in the place of a PIN that is on disk; a reset code  *)
(* changes the PIN once.                                                        *)
OperatorOnly == /\ SessionsAreCurrent
                /\ setups <= 1
                /\ \A p \in GateProcesses : gate[p].redeemed <= 1

-----------------------------------------------------------------------------
(* The node's own limits on callers: class SecurityHardening of                 *)
(* src/src/security/hardening.ts, with restarts and a disk that refuses writes. *)
(* Checking a request, recording a login and the cleanup every minute run to    *)
(* their end, in any order.                                                     *)

CONSTANTS Sources,     \* addresses
          Trusted,     \* loopback and private networks
          RateLimit,   \* 120 requests in a window
          LimitWindow, \* 60 s: of the limit and of a block
          MaxLogins,   \* 5
          Lockout,     \* 15 min
          MaxTick,     \* bound: the clock
          MaxSeen      \* bound: requests and logins remembered for a caller

ASSUME HardeningAssumption == {RateLimit, LimitWindow, MaxLogins, Lockout, MaxTick, MaxSeen} \subseteq Nat /\ MaxTick > 0

NoEntry == [count |-> 0, start |-> 0, until |-> 0]

VARIABLES limits,    \* rateLimits: [caller -> entry]; a start of 0: none
          logins,    \* loginAttempts: [caller -> the failures, numbered, with their times]
          banned,    \* bannedIPs
          bansFile,  \* banned_ips.json
          bansSaved, \* the last save worked (not in the code)
          nodeKey,   \* encryptionKey: 1, 2, …
          keyFile,   \* .node_key, 0: none
          sealed,    \* the keys that something was encrypted with while they were on disk
          tick,
          admitted,  \* [stranger -> every admitted request] (not in the code)
          failedAt   \* [stranger -> every failed login] (not in the code)

hardeningVars == <<limits, logins, banned, bansFile, bansSaved, nodeKey, keyFile, sealed, tick, admitted, failedAt>>

(* A list of times, as the set of its entries.                                  *)
Happened == [nr : 1..MaxSeen, at : 1..MaxTick]
Now(list) == [nr |-> Cardinality(list) + 1, at |-> tick]

HardeningTypeOK ==
    /\ limits \in [Sources -> [count : 0..MaxSeen + 1, start : 0..MaxTick, until : 0..MaxTick + LimitWindow]]
    /\ logins \in [Sources -> SUBSET Happened] /\ admitted \in [Sources -> SUBSET Happened]
    /\ failedAt \in [Sources -> SUBSET Happened]
    /\ banned \subseteq Sources /\ bansFile \subseteq Sources /\ bansSaved \in BOOLEAN
    /\ nodeKey \in 1..MaxTick /\ keyFile \in 0..MaxTick /\ sealed \subseteq 1..MaxTick
    /\ tick \in 1..MaxTick

HardeningInit ==
    /\ limits = [c \in Sources |-> NoEntry] /\ logins = [c \in Sources |-> {}]
    /\ banned = {} /\ bansFile = {} /\ bansSaved = TRUE
    /\ nodeKey = 1 /\ keyFile \in {0, 1} /\ sealed = {}
    /\ tick = 1 /\ admitted = [c \in Sources |-> {}] /\ failedAt = [c \in Sources |-> {}]

ofNode == <<banned, bansFile, bansSaved, nodeKey, keyFile, sealed, tick>>

(* checkRateLimit: a window that has passed starts anew and with it a block.    *)
LimitOf(c) == IF limits[c].start = 0 \/ tick - limits[c].start > LimitWindow THEN [NoEntry EXCEPT !.start = tick] ELSE limits[c]
CheckRateLimit(c) ==
    LET e == LimitOf(c) IN
    /\ Cardinality(admitted[c]) < MaxSeen /\ e.count <= MaxSeen
    /\ IF c \in Trusted \cup banned THEN UNCHANGED <<admitted, limits>>
       ELSE IF tick < e.until THEN limits' = [limits EXCEPT ![c] = e] /\ UNCHANGED admitted
       ELSE IF e.count + 1 > RateLimit
            THEN limits' = [limits EXCEPT ![c] = [e EXCEPT !.count = @ + 1, !.until = tick + LimitWindow]] /\ UNCHANGED admitted
            ELSE /\ limits' = [limits EXCEPT ![c] = [e EXCEPT !.count = @ + 1]]
                 /\ admitted' = [admitted EXCEPT ![c] = @ \cup {Now(@)}]
    /\ UNCHANGED <<logins, failedAt>> /\ UNCHANGED ofNode

Recent(list) == {l \in list : tick - l.at < Lockout}
(* recordLoginAttempt of a stranger's login that failed: one that succeeded     *)
(* adds nothing that is counted, and the trusted are never blocked.             *)
RecordFailedLogin(c) ==
    /\ Cardinality(failedAt[c]) < MaxSeen - 1 /\ c \notin Trusted
    /\ logins' = [logins EXCEPT ![c] = Recent(@) \cup {Now(failedAt[c])}]
    /\ failedAt' = [failedAt EXCEPT ![c] = @ \cup {Now(@)}]
    /\ UNCHANGED <<limits, admitted>> /\ UNCHANGED ofNode
IsLoginBlocked(c) == c \notin Trusted /\ Cardinality(Recent(logins[c])) >= MaxLogins

(* banIP, unbanIP: in memory, and on disk unless the write fails.               *)
Bans(now, written) == /\ banned' = now /\ bansSaved' = written
                      /\ bansFile' = IF written THEN now ELSE bansFile
                      /\ UNCHANGED <<limits, logins, nodeKey, keyFile, sealed, tick, admitted, failedAt>>
BanIP(c, written) == Bans(banned \cup {c}, written)
UnbanIP(c, written) == Bans(banned \ {c}, written)

(* encrypt with the key in memory.                                              *)
Encrypt == /\ sealed' = IF keyFile = nodeKey THEN sealed \cup {nodeKey} ELSE sealed
           /\ UNCHANGED <<limits, logins, banned, bansFile, bansSaved, nodeKey, keyFile, tick, admitted, failedAt>>

(* cleanup.                                                                     *)
Cleanup == /\ limits' = [c \in Sources |-> IF tick - limits[c].start > 2 * LimitWindow THEN NoEntry ELSE limits[c]]
           /\ logins' = [c \in Sources |-> Recent(logins[c])]
           /\ UNCHANGED <<admitted, failedAt>> /\ UNCHANGED ofNode

(* The process starts again: the limits are forgotten, the bans and the key are *)
(* read; without a key file a new key is made and written, or not.              *)
Restarts(written) ==
    /\ tick < MaxTick /\ tick' = tick + 1
    /\ limits' = [c \in Sources |-> NoEntry] /\ logins' = [c \in Sources |-> {}]
    /\ admitted' = [c \in Sources |-> {}] /\ failedAt' = [c \in Sources |-> {}]
    /\ banned' = bansFile
    /\ nodeKey' = IF keyFile # 0 THEN keyFile ELSE tick'
    /\ keyFile' = IF keyFile = 0 /\ written THEN tick' ELSE keyFile
    /\ bansSaved' = TRUE /\ UNCHANGED <<bansFile, sealed>>

HardeningTick == tick < MaxTick /\ tick' = tick + 1
                 /\ UNCHANGED <<limits, logins, banned, bansFile, bansSaved, nodeKey, keyFile, sealed, admitted, failedAt>>

HardeningNext ==
    \/ \E c \in Sources : \/ CheckRateLimit(c) \/ RecordFailedLogin(c)
                          \/ \E written \in BOOLEAN : c \notin Trusted /\ (BanIP(c, written) \/ UnbanIP(c, written))
    \/ Encrypt \/ Cleanup \/ HardeningTick
    \/ \E written \in BOOLEAN : Restarts(written)
-----------------------------------------------------------------------------
Within(list, from, to) == Cardinality({l \in list : from <= l.at /\ l.at <= to})

(* A stranger is never admitted more often than twice the limit in one window,  *)
(* whatever the cleanup and renewed windows forget; whoever failed too often    *)
(* within the lockout is blocked, and nobody else; the bans of this process are *)
(* on disk unless the last write failed; and what was encrypted under a key     *)
(* that was saved can be read after any number of restarts.                     *)
StrangersAreBounded ==
    /\ \A c \in Sources \ Trusted : /\ \A t \in 1..tick : Within(admitted[c], t, t + LimitWindow) <= 2 * RateLimit
                                    /\ IsLoginBlocked(c) <=> Cardinality(Recent(failedAt[c])) >= MaxLogins
    /\ bansSaved => bansFile = banned
    /\ sealed \subseteq {nodeKey}
=============================================================================
