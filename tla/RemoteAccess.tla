----------------------------- MODULE RemoteAccess ----------------------------
(* Access from afar: class RemoteAccessManager of src/src/network/remote.ts.    *)
(* The tokens with their file, whose writes may fail or be cut short by the     *)
(* end of the process, and the link to the platform's relay, which a timer      *)
(* opens again.                                                                 *)
EXTENDS Naturals, FiniteSets

CONSTANTS Tokens,  \* tokens there may ever be
          Ageing,  \* those with an expiry
          MaxDrops \* bound: how often the link is lost

ASSUME RemoteAssumption == MaxDrops \in Nat

VARIABLES remoteOn,   \* init was called and the process did not end
          tokens,     \* in memory
          tokensFile, \* access_tokens.json; {"torn"}: cannot be read
          generated,  \* tokens that were ever generated
          aged,       \* tokens past their expiry
          savedOk,    \* the last save reached the disk (not in the code)
          revoked,    \* tokens that were revoked (not in the code)
          revived,    \* revoked tokens that a restart read again (not in the code)
          letIn,      \* what the last request was let in with (not in the code)
          relayLink,  \* relayWs: "none", "opening", "open", "closing"
          rearm,      \* reconnectTimer is set
          drops,
          told        \* stop() was called

remoteVars == <<remoteOn, tokens, tokensFile, generated, aged, savedOk, revoked, revived, letIn, relayLink, rearm, drops, told>>
tokenVars == <<tokens, tokensFile, generated, savedOk, revoked, revived, letIn>>
linkVars == <<relayLink, rearm, drops, told>>

TornTokens == {"torn"}
RemoteTypeOK ==
    /\ remoteOn \in BOOLEAN /\ tokens \subseteq Tokens /\ (tokensFile \subseteq Tokens \/ tokensFile = TornTokens)
    /\ generated \subseteq Tokens /\ aged \subseteq Ageing /\ savedOk \in BOOLEAN /\ revoked \subseteq generated /\ revived \subseteq revoked
    /\ letIn \subseteq Tokens /\ relayLink \in {"none", "opening", "open", "closing"} /\ rearm \in BOOLEAN /\ drops \in 0..MaxDrops /\ told \in BOOLEAN

RemoteInit == /\ remoteOn = FALSE /\ tokens = {} /\ tokensFile = {} /\ generated = {} /\ aged = {} /\ savedOk = TRUE
              /\ revoked = {} /\ revived = {} /\ letIn = {} /\ relayLink = "none" /\ rearm = FALSE /\ drops = 0 /\ told = FALSE

(* saveTokens: a write that fails is not noticed.                               *)
SaveTokens == \/ tokensFile' = tokens' /\ savedOk' = TRUE
              \/ UNCHANGED tokensFile /\ savedOk' = FALSE

(* init: without a token an administrator's is generated; then connectRelay.    *)
LoadTokens == IF tokensFile = TornTokens THEN {} ELSE tokensFile
InitRemote ==
    LET read == LoadTokens IN
    /\ ~remoteOn /\ remoteOn' = TRUE
    /\ IF read # {} THEN tokens' = read /\ UNCHANGED <<generated, tokensFile>> /\ savedOk' = TRUE
       ELSE /\ \E t \in Tokens \ (generated \cup Ageing) : tokens' = {t} /\ generated' = generated \cup {t}
            /\ SaveTokens
    /\ revived' = revoked \cap read
    /\ relayLink' \in {"opening", "none"} /\ rearm' = FALSE /\ told' = FALSE \* a URL that is none: no link, no timer
    /\ UNCHANGED <<aged, revoked, letIn, drops>>

GenerateToken(t) == /\ remoteOn /\ t \notin generated /\ tokens' = tokens \cup {t} /\ generated' = generated \cup {t} /\ SaveTokens
                    /\ UNCHANGED <<remoteOn, aged, revoked, revived, letIn>> /\ UNCHANGED linkVars
RevokeInMemory(t) == tokens \ {t}
RevokeToken(t) == /\ remoteOn /\ t \in tokens /\ tokens' = RevokeInMemory(t) /\ revoked' = revoked \cup {t} /\ SaveTokens
                  /\ revived' = revived \ {t}
                  /\ UNCHANGED <<remoteOn, generated, aged, letIn>> /\ UNCHANGED linkVars

(* validateToken, for a request over HTTP or over the relay; it saves what it   *)
(* was used for.                                                                *)
TokenValid(t) == t \in tokens /\ t \notin aged
ValidateToken(t) == /\ remoteOn /\ t \in generated
                    /\ letIn' = IF TokenValid(t) THEN {t} ELSE {}
                    /\ IF TokenValid(t) THEN tokens' = tokens /\ SaveTokens ELSE UNCHANGED <<tokens, tokensFile, savedOk>>
                    /\ UNCHANGED <<remoteOn, generated, aged, revoked, revived>> /\ UNCHANGED linkVars
Ages(t) == t \in Ageing /\ aged' = aged \cup {t} /\ letIn' = {} /\ UNCHANGED <<remoteOn, tokens, tokensFile, generated, savedOk, revoked, revived>> /\ UNCHANGED linkVars

(* connectRelay and its callbacks.                                              *)
RelayOpens == relayLink = "opening" /\ relayLink' = "open" /\ UNCHANGED <<remoteOn, aged, rearm, drops, told>> /\ UNCHANGED tokenVars
RelayCloses == /\ relayLink \in {"opening", "open", "closing"} /\ relayLink' = "none" /\ rearm' = TRUE
               /\ IF relayLink = "closing" THEN UNCHANGED drops ELSE drops < MaxDrops /\ drops' = drops + 1
               /\ UNCHANGED <<remoteOn, aged, told>> /\ UNCHANGED tokenVars
RetryDue == rearm
Reconnect == RetryDue /\ relayLink = "none" /\ relayLink' = "opening" /\ UNCHANGED <<remoteOn, aged, rearm, drops, told>> /\ UNCHANGED tokenVars
(* stop: the link closes later, and its callback sets the timer again.          *)
StopRemote == /\ remoteOn /\ ~told /\ told' = TRUE /\ rearm' = FALSE
              /\ relayLink' = IF relayLink = "none" THEN "none" ELSE "closing"
              /\ UNCHANGED <<remoteOn, aged, drops>> /\ UNCHANGED tokenVars

(* The process ends, or is killed while it writes the file.                     *)
RemoteEnds == /\ remoteOn /\ remoteOn' = FALSE /\ relayLink' = "none" /\ rearm' = FALSE /\ tokens' = {} /\ letIn' = {} /\ told' = FALSE
              /\ tokensFile' \in {tokensFile, TornTokens}
              /\ UNCHANGED <<generated, aged, savedOk, revoked, revived, drops>>

RemoteNext == \/ InitRemote \/ RelayOpens \/ RelayCloses \/ Reconnect \/ StopRemote \/ RemoteEnds
              \/ \E t \in Tokens : GenerateToken(t) \/ RevokeToken(t) \/ ValidateToken(t) \/ Ages(t)
RemoteFairness == WF_remoteVars(RelayOpens) /\ WF_remoteVars(Reconnect)
-----------------------------------------------------------------------------
(* A revoked token lets nobody in again, unless the revocation never reached    *)
(* the disk and a restart read the older list; an expired one lets nobody in;   *)
(* and what this process knows is what the next will read, if the last save     *)
(* worked and was not cut short.                                                *)
RevokedStayOut ==
    /\ letIn \cap tokens \cap revoked \subseteq revived /\ tokens \cap revoked \subseteq revived
    /\ letIn \cap aged = {}
    /\ remoteOn /\ savedOk => tokensFile = tokens
    /\ tokens \subseteq generated

(* A lost link to the relay is opened again, however often it was lost, unless  *)
(* stop() is called first.                                                      *)
RelayComesBack == (rearm /\ remoteOn) ~> (relayLink = "open" \/ ~remoteOn \/ told)
=============================================================================
