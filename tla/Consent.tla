------------------------------ MODULE Consent ------------------------------
(***************************************************************************)
(* What may leave the device, and the keys it is sent with:                *)
(*                                                                         *)
(*   apps/desktop/src/renderer/App.tsx           (the review of a draft)   *)
(*   apps/desktop/src/main/settings/*.ts         (settings, keys, calls)   *)
(*   apps/desktop/src/main/import/in-memory-import-controller.ts           *)
(*   packages/application/src/import/llm-enrichment.ts                     *)
(*   packages/ai/src/consent/transmission-preview.ts, transport.ts         *)
(*                                                                         *)
(* The review of a draft shows what a model would receive; the user sends  *)
(* it.  Meanwhile another statement is imported, another provider chosen,  *)
(* settings are saved, what was prepared of the PDF expires, and answers   *)
(* of earlier calls come in.                                               *)
(***************************************************************************)
EXTENDS Integers, FiniteSets

CONSTANTS
    Documents,   \* drafts of statements (their candidates have random ids)
    Tokens,      \* what prepareLlmFallback hands out (randomBytes)
    Modes,       \* what is prepared of a PDF
    Setups,      \* endpoint and model of a provider
    Providers,   \* LlmProviderDto
    SecretRefs   \* names of stored keys (randomUUID)

ASSUME ModesAssumption == Modes \subseteq {"original_pdf", "page_images"}
ASSUME ProvidersAssumption ==
    Providers \subseteq {"ollama", "openai", "anthropic", "openai-compatible",
                         "deepseek-responses"}

\* A value that may be missing is a set of at most one element.
VARIABLES
    settings,      \* llm-settings.json: the providers saved, with setup and key
    secrets,       \* llm-secrets.json: the keys that are there
    saving,        \* the running set or delete call
    provider,      \* the renderer's llmProvider
    review,        \* its draft
    fallback,      \* its fallbackSource
    preview,       \* its aiPreview
    call,          \* the AI call under way, with what its closure holds
    capabilities,  \* fallbackCapabilities, by token, while their ten minutes last
    spent,         \* history: the tokens an analysis has succeeded with
    keyed, cut     \* history: providers with a saved key; with one lost by a failed call

consentVars == <<settings, secrets, saving, provider, review, fallback, preview, call,
                 capabilities, spent, keyed, cut>>

screen == <<provider, review, fallback, preview>>
stock == <<settings, secrets, saving, keyed, cut>>
used == <<capabilities, spent>>

NeedsKey(p) == p # "ollama"

\* assertFallbackProvider, assertProviderAttachments
Takes(p, mode) == IF mode = "original_pdf" THEN p = "openai" ELSE p # "deepseek-responses"

Saved(p) == p \in DOMAIN settings

-----------------------------------------------------------------------------
(* Settings and keys; llmBusy lets one call of the renderer run *)

RefOf(p) == IF Saved(p) THEN settings[p].ref ELSE {}

\* The keys the settings name; a new one is named anew.
Named == UNION {settings[p].ref : p \in DOMAIN settings}

\* A bug to check against: a blank key is saved as none.
BlankRef(new) == IF NeedsKey(provider) THEN new ELSE {}

\* A blank key keeps the old one; ollama's settings name none.
NextRef(new) ==
    CASE ~NeedsKey(provider) -> {}
      [] NeedsKey(provider) /\ new = {} -> RefOf(provider)
      [] OTHER -> new

\* set: the new key is to be stored, then the old one removed, then the settings written.
\* The form never asks to clear the key (clearApiKey), and that branch is left out.
BeginSave(setup) ==
    /\ saving = {}
    /\ \E new \in {{}} \cup {{ref} : ref \in SecretRefs \ (secrets \cup Named)} :
          saving' = {[provider |-> provider, stage |-> "store", store |-> new,
                      drop |-> IF new = {} THEN {} ELSE RefOf(provider),
                      next |-> {[setup |-> setup, ref |-> NextRef(new)]}]}
    /\ UNCHANGED <<settings, secrets, keyed, cut, screen, call, used>>

\* delete: the key goes first.
BeginDelete(p) ==
    /\ saving = {}
    /\ saving' = {[provider |-> p, stage |-> "store", store |-> {}, drop |-> RefOf(p),
                   next |-> {}]}
    /\ UNCHANGED <<settings, secrets, keyed, cut, screen, call, used>>

StoreSecret ==
    \E s \in saving :
       /\ s.stage = "store"
       /\ secrets' = secrets \cup s.store
       /\ saving' = {[s EXCEPT !.stage = "drop"]}
       /\ UNCHANGED <<settings, keyed, cut, screen, call, used>>

DropSecret ==
    \E s \in saving :
       /\ s.stage = "drop"
       /\ secrets' = secrets \ s.drop
       /\ saving' = {[s EXCEPT !.stage = "write"]}
       /\ UNCHANGED <<settings, keyed, cut, screen, call, used>>

\* The settings are replaced by a rename.
WriteSettings ==
    \E s \in saving :
       /\ s.stage = "write"
       /\ settings' = [p \in (DOMAIN settings \ {s.provider})
                              \cup {q \in {s.provider} : s.next # {}} |->
                          IF p = s.provider THEN CHOOSE n \in s.next : TRUE ELSE settings[p]]
       /\ keyed' = CASE s.next = {} -> keyed \ {s.provider}
                     [] s.store # {} -> keyed \cup {s.provider}
                     [] OTHER -> keyed
       /\ cut' = IF s.store # {} \/ s.next = {} THEN cut \ {s.provider} ELSE cut
       /\ saving' = {}
       /\ UNCHANGED <<secrets, screen, call, used>>

\* A file operation fails, or the process dies and is started again.
SaveFails ==
    \E s \in saving :
       /\ saving' = {}
       /\ cut' = IF s.stage = "write" /\ s.drop # {} THEN cut \cup {s.provider} ELSE cut
       /\ UNCHANGED <<settings, secrets, keyed, screen, call, used>>

-----------------------------------------------------------------------------
(* The review; aiBusy lets one of its calls run, but not against an import *)

Choose(p) ==
    /\ provider' = p
    /\ UNCHANGED <<stock, review, fallback, preview, call, used>>

\* importStatement comes to its end, with a new draft.
Imported(d) ==
    /\ d \notin review
    /\ review' = {d} /\ fallback' = {} /\ preview' = {}
    /\ UNCHANGED <<stock, provider, call, used>>

\* What a button's handler has of the state when it is pressed
Pressed(kind) ==
    \E d \in review :
       call' = {[kind |-> kind, stage |-> "begun", provider |-> provider, document |-> d,
                 token |-> fallback, reviewed |-> preview, read |-> {}, payload |-> {}]}

PressPrepare ==
    /\ call = {} /\ Pressed("prepare")
    /\ UNCHANGED <<stock, screen, used>>

\* prepareLlmFallback makes a token for the draft it was called for; the renderer shows it.
Prepared(token, mode) ==
    /\ token \notin DOMAIN capabilities \cup spent \cup fallback
    /\ \E c \in call :
          /\ c.kind = "prepare"
          /\ capabilities' = [t \in DOMAIN capabilities \cup {token} |->
                IF t = token THEN [document |-> c.document, mode |-> mode]
                             ELSE capabilities[t]]
    /\ fallback' = {token} /\ preview' = {} /\ call' = {}
    /\ UNCHANGED <<stock, provider, review, spent>>

Expires(token) ==
    /\ token \in DOMAIN capabilities
    /\ capabilities' = [t \in DOMAIN capabilities \ {token} |-> capabilities[t]]
    /\ UNCHANGED <<stock, screen, call, spent>>

\* The button of the preview is there while none is shown, that of sending while one is.
PressPreview ==
    /\ call = {} /\ preview = {} /\ Pressed("preview")
    /\ UNCHANGED <<stock, screen, used>>

PressSend ==
    /\ call = {} /\ preview # {} /\ Pressed("send")
    /\ UNCHANGED <<stock, screen, used>>

\* service.client reads the settings of the provider.
ReadSettings ==
    \E c \in call :
       /\ c.kind \in {"preview", "send"} /\ c.stage = "begun"
       /\ Saved(c.provider)
       /\ call' = {[c EXCEPT !.stage = "read", !.read = {settings[c.provider]}]}
       /\ UNCHANGED <<stock, screen, used>>

\* resolveFallback finds what the token stands for, of this document.
Resolves(c) ==
    \A t \in c.token :
       /\ t \in DOMAIN capabilities
       /\ capabilities[t].document = c.document
       /\ Takes(c.provider, capabilities[t].mode)

\* The payload, as its digest tells it apart
Payload(c) ==
    [provider |-> c.provider, setups |-> {r.setup : r \in c.read}, document |-> c.document,
     attached |-> {capabilities[t] : t \in c.token}]

\* previewImportTransmission, which the renderer shows, whatever draft it has by now.
Previewed ==
    \E c \in call :
       /\ c.kind = "preview" /\ c.stage = "read"
       /\ Resolves(c)
       /\ preview' = {Payload(c)}
       /\ call' = {}
       /\ UNCHANGED <<stock, provider, review, fallback, used>>

\* A bug to check against: the settings of the provider are not compared.
AsReviewedElsewhere(c) ==
    \A p \in c.reviewed :
       p.document = c.document /\ p.attached = {capabilities[t] : t \in c.token}

\* TRANSMISSION_PREVIEW_STALE is thrown unless the payload is the one that was reviewed.
AsReviewed(c) == c.reviewed = {Payload(c)}

\* analyze-import: the approval is that of the preview; the payload is built again.
CheckPayload ==
    \E c \in call :
       /\ c.kind = "send" /\ c.stage = "read"
       /\ Resolves(c) /\ AsReviewed(c)
       /\ call' = {[c EXCEPT !.stage = "checked", !.payload = {Payload(c)}]}
       /\ UNCHANGED <<stock, screen, used>>

\* createLlmClient's analyze reads the key and posts.
Transmit ==
    \E c \in call :
       /\ c.stage = "checked"
       /\ NeedsKey(c.provider) => \E r \in c.read : r.ref # {} /\ r.ref \subseteq secrets
       /\ call' = {[c EXCEPT !.stage = "sent"]}
       /\ UNCHANGED <<stock, screen, used>>

\* A bug to check against: the token stays after its analysis.
AnalyzedKeepingToken ==
    \E c \in call :
       /\ c.stage = "sent"
       /\ spent' = spent \cup c.token
       /\ call' = {}
       /\ UNCHANGED <<stock, screen, capabilities>>

\* The suggestions arrive, and the token is consumed.
Analyzed ==
    \E c \in call :
       /\ c.stage = "sent"
       /\ capabilities' = [t \in DOMAIN capabilities \ c.token |-> capabilities[t]]
       /\ spent' = spent \cup c.token
       /\ call' = {}
       /\ UNCHANGED <<stock, screen>>

\* The call rejects where it stands: a check, the key, the network or the answer.
CallFails ==
    /\ call # {} /\ call' = {}
    /\ UNCHANGED <<stock, screen, used>>

-----------------------------------------------------------------------------

ConsentInit ==
    /\ settings = [p \in {} |-> p] /\ secrets = {} /\ saving = {}
    /\ provider = "ollama"
    /\ review = {} /\ fallback = {} /\ preview = {} /\ call = {}
    /\ capabilities = [t \in {} |-> t] 
    /\ spent = {} /\ keyed = {} /\ cut = {}

ConsentNext ==
    \/ \E setup \in Setups : BeginSave(setup)
    \/ \E p \in Providers : BeginDelete(p) \/ Choose(p)
    \/ StoreSecret \/ DropSecret \/ WriteSettings \/ SaveFails
    \/ \E d \in Documents : Imported(d)
    \/ \E t \in Tokens : Expires(t) \/ \E mode \in Modes : Prepared(t, mode)
    \/ PressPrepare \/ PressPreview \/ PressSend
    \/ ReadSettings \/ Previewed \/ CheckPayload \/ Transmit \/ Analyzed \/ CallFails

ConsentSpec == ConsentInit /\ [][ConsentNext]_consentVars

-----------------------------------------------------------------------------
(* Properties *)

\* What is transmitted, and to whom, is what the user had before him when he sent it:
\* provider, endpoint and model, the candidates of the draft and what is attached, whatever
\* was saved, chosen, imported or prepared since it was shown.
SentIsReviewed == \A c \in call : c.stage = "sent" => c.reviewed = c.payload

\* What was prepared of a PDF goes with the draft it was made from, and never again once an
\* analysis with it has succeeded: a second one needs another preparation and review.
AttachmentsOnce ==
    [][\A c \in call' : c.stage = "sent" =>
          /\ c.token \cap spent = {}
          /\ \A p \in c.payload : \A a \in p.attached : a.document = p.document]_consentVars

\* A saved key is kept by saving with a blank key, and replaced by saving with another
\* (locales/en.json:109): the settings name it and it is there, but for a call that failed
\* between removing the old key and naming the new, and while a call is there.
SavedKeyKept ==
    \A p \in keyed \ cut :
       NeedsKey(p) /\ (\A s \in saving : s.provider = p => s.stage # "write") =>
          Saved(p) /\ RefOf(p) # {} /\ RefOf(p) \subseteq secrets

=============================================================================
