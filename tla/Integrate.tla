------------------------------ MODULE Integrate ------------------------------
(***************************************************************************)
(* The page with the snippets to copy: a key and four endpoints are filled *)
(* into the snippet of the open tab.  What is filled in is memoised, and   *)
(* computed again when one of its dependencies changes.  The text of a     *)
(* snippet is abstracted to the key and the endpoints it holds.            *)
(***************************************************************************)
CONSTANTS
  Key,       \* the keys of the project
  NoKey,     \* no key selected, nothing pasted
  Text       \* what an endpoint field may hold

VARIABLE
  guide      \* the state of the page, see GuideState

Endpoint == {"proxyURL", "ingestURL", "grpcAddr", "upstream"}

ProxySnippets ==
  {"proxy-go", "proxy-python", "proxy-ts", "proxy-laravel", "proxy-headers"}

SdkSnippets ==
  {"inbound-go", "inbound-python", "inbound-python-wsgi", "inbound-ts",
   "inbound-laravel", "sdk-http-json", "sdk-grpc-go"}

\* The endpoints a snippet names.
Uses(s) ==
  CASE s \in ProxySnippets -> {"proxyURL", "upstream"}
    [] s = "sdk-grpc-go"   -> {"grpcAddr"}
    [] OTHER               -> {"ingestURL"}

Sections == [outbound |-> ProxySnippets, inbound |-> SdkSnippets]

FirstOf == [outbound |-> "proxy-go", inbound |-> "inbound-go"]

\* An API key in a snippet: the whole key, or its prefix and a placeholder.
ApiKey == [key : Key \cup {NoKey}, whole : BOOLEAN]

\* keys: the active keys of the project; section, active: the open tabs.
GuideState ==
  [keys : SUBSET Key, keyId : Key \cup {NoKey}, pasteKey : Key \cup {NoKey},
   endpoints : [Endpoint -> Text],
   vars : [apiKey : ApiKey, endpoints : [Endpoint -> Text]],
   section : DOMAIN Sections, active : ProxySnippets \cup SdkSnippets]

Selected(t) == IF t.keyId \in t.keys THEN t.keyId ELSE NoKey

Vars(t) ==
  [apiKey    |-> IF t.pasteKey # NoKey THEN [key |-> t.pasteKey, whole |-> TRUE]
                 ELSE [key |-> Selected(t), whole |-> FALSE],
   endpoints |-> t.endpoints]

\* Mutant of Dependencies: the selected key is left out.
DependenciesWithoutKey(t) == <<t.pasteKey, t.endpoints>>

Dependencies(t) == <<t.pasteKey, Selected(t), t.endpoints>>

\* The page goes over to the state t and is rendered.
Goes(t) ==
  guide' = IF Dependencies(t) = Dependencies(guide) THEN t
           ELSE [t EXCEPT !.vars = Vars(t)]

\* The page as it is for a list of active keys, of which k is the first.
Mounted(active, k, default) ==
  LET t == [keys |-> active, keyId |-> k, pasteKey |-> NoKey,
            endpoints |-> [e \in Endpoint |-> default],
            section |-> "outbound", active |-> FirstOf["outbound"],
            vars |-> [apiKey    |-> [key |-> NoKey, whole |-> FALSE],
                      endpoints |-> [e \in Endpoint |-> default]]]
  IN  [t EXCEPT !.vars = Vars(t)]

SelectKey == \E k \in guide.keys \ {guide.keyId} : Goes([guide EXCEPT !.keyId = k])

\* A key is pasted, or the field is cleared.  Any key: it is not compared.
Paste ==
  \E k \in (Key \cup {NoKey}) \ {guide.pasteKey} :
    Goes([guide EXCEPT !.pasteKey = k])

TypeEndpoint ==
  \E e \in Endpoint, v \in Text :
    /\ v # guide.endpoints[e]
    /\ Goes([guide EXCEPT !.endpoints[e] = v])

\* The tabs of a section that is not open are unmounted, their choice lost.
OpenSection ==
  \E s \in DOMAIN Sections \ {guide.section} :
    Goes([guide EXCEPT !.section = s, !.active = FirstOf[s]])

OpenSnippet ==
  \E s \in Sections[guide.section] \ {guide.active} :
    Goes([guide EXCEPT !.active = s])

\* Without keys the page only says that one has to be created.
Step ==
  /\ guide.keys # {}
  /\ SelectKey \/ Paste \/ TypeEndpoint \/ OpenSection \/ OpenSnippet

\* The note above the snippets that their key is a placeholder.
Warned == guide.pasteKey = NoKey

-----------------------------------------------------------------------------
\* Every field is in its range.
GuideTypeOK == guide \in GuideState

\* The snippet is one of the open section and names what the fields hold: the
\* pasted key or, under a warning, the selected one, and the endpoints.
SnippetIsCurrent ==
  guide.keys # {} =>
    /\ guide.active \in Sections[guide.section]
    /\ \A e \in Uses(guide.active) : guide.vars.endpoints[e] = guide.endpoints[e]
    /\ IF guide.vars.apiKey.whole
       THEN guide.vars.apiKey.key = guide.pasteKey /\ ~Warned
       ELSE guide.vars.apiKey.key = guide.keyId /\ Warned
=============================================================================
