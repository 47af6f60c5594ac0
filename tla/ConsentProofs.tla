--------------------------- MODULE ConsentProofs ---------------------------
(***************************************************************************)
(* Proofs about Consent: what is sent was reviewed, prepared attachments   *)
(* are sent once, and a saved key stays, for every set of documents,       *)
(* tokens, setups, providers and keys.                                     *)
(***************************************************************************)
EXTENDS Consent, TLAPS

Setting == [setup : Setups, ref : SUBSET SecretRefs]
Names == Providers \cup {"ollama"}

Savings == [provider : Names, stage : {"store", "drop", "write"}, store : SUBSET SecretRefs,
            drop : SUBSET SecretRefs, next : SUBSET Setting]

Attachments == [document : Documents, mode : Modes]
Payloads == [provider : Names, setups : SUBSET Setups, document : Documents,
             attached : SUBSET Attachments]
Calls == [kind : {"prepare", "preview", "send"}, stage : {"begun", "read", "checked", "sent"},
          provider : Names, document : Documents, token : SUBSET Tokens,
          reviewed : SUBSET Payloads, read : SUBSET Setting, payload : SUBSET Payloads]

\* The key the settings are to name when the running call ends
KeyAfter(s) ==
    IF ~NeedsKey(s.provider) THEN {} ELSE IF s.store = {} THEN RefOf(s.provider) ELSE s.store

SavingSound(s) ==
    /\ s.store \cap Named = {}
    /\ s.drop \subseteq RefOf(s.provider)
    /\ s.stage # "store" => s.store \subseteq secrets
    /\ s.next = {} => s.store = {}
    /\ s.store = {} /\ s.next # {} => s.drop = {}
    /\ \A n \in s.next : n.ref = KeyAfter(s)

\* The settings name a key of p, and it is there.
KeyThere(p) == Saved(p) /\ RefOf(p) # {} /\ RefOf(p) \subseteq secrets

\* A running call has removed p's key and not yet named another.
Replacing(p) == \E s \in saving : s.provider = p /\ s.stage = "write" /\ s.drop # {}

KeysInv ==
    /\ settings \in [DOMAIN settings -> Setting]
    /\ provider \in Names
    /\ saving \subseteq Savings
    /\ \A s, t \in saving : s = t
    /\ \A p, q \in DOMAIN settings : p # q => settings[p].ref \cap settings[q].ref = {}
    /\ \A s \in saving : SavingSound(s)
    /\ \A p \in keyed \ cut : NeedsKey(p) => KeyThere(p) \/ Replacing(p)

\* What has passed the check is what was reviewed, of one document, with unspent tokens.
CallSound(c) ==
    c.stage \in {"checked", "sent"} =>
       /\ c.reviewed = c.payload
       /\ c.token \cap spent = {}
       /\ \A p \in c.payload : \A a \in p.attached : a.document = p.document

SendInv ==
    /\ review \subseteq Documents /\ preview \subseteq Payloads /\ fallback \subseteq Tokens
    /\ capabilities \in [DOMAIN capabilities -> Attachments] /\ DOMAIN capabilities \subseteq Tokens
    /\ DOMAIN capabilities \cap spent = {}
    /\ call \subseteq Calls
    /\ \A c \in call : CallSound(c)

Inv == KeysInv /\ SendInv

-----------------------------------------------------------------------------
(* Settings and keys *)

LEMMA RefsTyped ==
    ASSUME KeysInv
    PROVE  /\ \A p : RefOf(p) \subseteq SecretRefs /\ RefOf(p) \subseteq Named
           /\ \A p, q : p # q => RefOf(p) \cap RefOf(q) = {}
BY DEF KeysInv, RefOf, Saved, Named, Setting

\* What leaves the settings and the keys alone keeps what is said of them.
LEMMA StockStays ==
    ASSUME KeysInv, UNCHANGED stock, provider' \in Names
    PROVE  KeysInv'
BY DEF KeysInv, stock, Replacing, KeyThere, Saved, RefOf, SavingSound, KeyAfter, Named

\* A call of set or delete begins.
LEMMA BeginKeeps ==
    ASSUME KeysInv, NEW s \in Savings, SavingSound(s), saving = {}, saving' = {s},
           UNCHANGED <<settings, secrets, keyed, cut, provider>>
    PROVE  KeysInv'
<1>1. SavingSound(s)'
    BY DEF SavingSound, KeyAfter, RefOf, Saved, Named
<1>2. \A p \in keyed' \ cut' : NeedsKey(p) => KeyThere(p)'
    BY DEF KeysInv, KeyThere, Replacing, Saved, RefOf
<1> QED BY <1>1, <1>2 DEF KeysInv

LEMMA BeginSaveKeeps ==
    ASSUME KeysInv, NEW setup \in Setups, BeginSave(setup)
    PROVE  KeysInv'
<1>1. PICK new \in {{}} \cup {{ref} : ref \in SecretRefs \ (secrets \cup Named)} :
         saving' = {[provider |-> provider, stage |-> "store", store |-> new,
                     drop |-> IF new = {} THEN {} ELSE RefOf(provider),
                     next |-> {[setup |-> setup, ref |-> NextRef(new)]}]}
    BY DEF BeginSave
<1>2. UNCHANGED <<settings, secrets, keyed, cut, provider>> /\ saving = {}
    BY DEF BeginSave, screen
<1>3. new \subseteq SecretRefs /\ new \cap Named = {}
    BY <1>1
<1>4. PICK s : s = [provider |-> provider, stage |-> "store", store |-> new,
                    drop |-> IF new = {} THEN {} ELSE RefOf(provider),
                    next |-> {[setup |-> setup, ref |-> NextRef(new)]}]
    OBVIOUS
<1>5. NextRef(new) = KeyAfter(s) /\ NextRef(new) \subseteq SecretRefs
    BY <1>3, <1>4, RefsTyped DEF NextRef, KeyAfter
<1>6. s \in Savings
    <2>1. [setup |-> setup, ref |-> NextRef(new)] \in Setting
        BY <1>5 DEF Setting
    <2>2. provider \in Names /\ RefOf(provider) \subseteq SecretRefs
        BY RefsTyped DEF KeysInv
    <2> QED BY <1>3, <1>4, <2>1, <2>2 DEF Savings
<1>7. SavingSound(s)
    <2>1. /\ s.stage = "store" /\ s.store = new
          /\ s.drop = IF new = {} THEN {} ELSE RefOf(s.provider)
          /\ s.next = {[setup |-> setup, ref |-> KeyAfter(s)]}
        BY <1>4, <1>5
    <2>2. s.store \cap Named = {} /\ s.drop \subseteq RefOf(s.provider) /\ s.next # {}
        BY <1>3, <2>1
    <2>3. \A n \in s.next : n.ref = KeyAfter(s)
        BY <2>1
    <2> QED BY <2>1, <2>2, <2>3 DEF SavingSound
<1> QED BY <1>1, <1>2, <1>4, <1>6, <1>7, BeginKeeps

LEMMA BeginDeleteKeeps ==
    ASSUME KeysInv, NEW p \in Providers, BeginDelete(p)
    PROVE  KeysInv'
<1>1. PICK s : s = [provider |-> p, stage |-> "store", store |-> {}, drop |-> RefOf(p),
                    next |-> {}]
    OBVIOUS
<1>2. saving' = {s} /\ saving = {} /\ UNCHANGED <<settings, secrets, keyed, cut, provider>>
    BY <1>1 DEF BeginDelete, screen
<1>3. s \in Savings
    BY <1>1, RefsTyped DEF Savings, Names
<1>4. SavingSound(s)
    BY <1>1 DEF SavingSound
<1> QED BY <1>2, <1>3, <1>4, BeginKeeps

LEMMA StoreSecretKeeps ==
    ASSUME KeysInv, StoreSecret
    PROVE  KeysInv'
<1>1. PICK s \in saving : s.stage = "store" /\ secrets' = secrets \cup s.store
                          /\ saving' = {[s EXCEPT !.stage = "drop"]}
    BY DEF StoreSecret
<1>2. UNCHANGED <<settings, keyed, cut, provider>>
    BY DEF StoreSecret, screen
<1>3. s \in Savings /\ SavingSound(s)
    BY <1>1 DEF KeysInv
<1> DEFINE t == [s EXCEPT !.stage = "drop"]
<1>4. t \in Savings /\ t.provider = s.provider /\ t.store = s.store /\ t.drop = s.drop
      /\ t.next = s.next /\ t.stage = "drop"
    BY <1>3 DEF Savings
<1>5. SavingSound(t)'
    BY <1>1, <1>2, <1>3, <1>4 DEF SavingSound, KeyAfter, RefOf, Saved, Named
<1>6. \A p \in keyed' \ cut' : NeedsKey(p) => KeyThere(p)'
    BY <1>1, <1>2 DEF KeysInv, KeyThere, Replacing, Saved, RefOf
<1> QED BY <1>1, <1>2, <1>4, <1>5, <1>6 DEF KeysInv

LEMMA DropSecretKeeps ==
    ASSUME KeysInv, DropSecret
    PROVE  KeysInv'
<1>1. PICK s \in saving : s.stage = "drop" /\ secrets' = secrets \ s.drop
                          /\ saving' = {[s EXCEPT !.stage = "write"]}
    BY DEF DropSecret
<1>2. UNCHANGED <<settings, keyed, cut, provider>>
    BY DEF DropSecret, screen
<1>3. s \in Savings /\ SavingSound(s)
    BY <1>1 DEF KeysInv
<1> DEFINE t == [s EXCEPT !.stage = "write"]
<1>4. t \in Savings /\ t.provider = s.provider /\ t.store = s.store /\ t.drop = s.drop
      /\ t.next = s.next /\ t.stage = "write"
    BY <1>3 DEF Savings
<1>5. s.store \cap s.drop = {}
    BY <1>3, RefsTyped DEF SavingSound
<1>6. SavingSound(t)'
    BY <1>1, <1>2, <1>3, <1>4, <1>5 DEF SavingSound, KeyAfter, RefOf, Saved, Named
<1>7. ASSUME NEW p \in keyed' \ cut', NeedsKey(p) PROVE (KeyThere(p) \/ Replacing(p))'
    <2>1. KeyThere(p)
        BY <1>1, <1>2, <1>7 DEF KeysInv, Replacing
    <2>2. CASE p = s.provider /\ s.drop # {}
        BY <2>2, <1>1, <1>4 DEF Replacing
    <2>3. CASE p # s.provider \/ s.drop = {}
        <3>1. RefOf(p) \cap s.drop = {}
            BY <2>3, <1>3, RefsTyped DEF SavingSound
        <3> QED BY <3>1, <2>1, <1>1, <1>2 DEF KeyThere, Saved, RefOf
    <2> QED BY <2>2, <2>3
<1> QED BY <1>1, <1>2, <1>4, <1>6, <1>7 DEF KeysInv

LEMMA WriteSettingsKeeps ==
    ASSUME KeysInv, WriteSettings
    PROVE  KeysInv'
<1>1. PICK s \in saving :
         /\ s.stage = "write"
         /\ settings' = [p \in (DOMAIN settings \ {s.provider})
                                \cup {q \in {s.provider} : s.next # {}} |->
                            IF p = s.provider THEN CHOOSE n \in s.next : TRUE ELSE settings[p]]
         /\ keyed' = CASE s.next = {} -> keyed \ {s.provider}
                       [] s.store # {} -> keyed \cup {s.provider}
                       [] OTHER -> keyed
         /\ cut' = IF s.store # {} \/ s.next = {} THEN cut \ {s.provider} ELSE cut
         /\ saving' = {}
    BY DEF WriteSettings
<1>2. UNCHANGED <<secrets, provider>>
    BY DEF WriteSettings, screen
<1>3. s \in Savings /\ SavingSound(s) /\ s.store \subseteq secrets
    BY <1>1 DEF KeysInv, SavingSound
<1> DEFINE n == CHOOSE m \in s.next : TRUE
<1>4. s.next # {} => n \in Setting /\ n.ref = KeyAfter(s)
    BY <1>3 DEF Savings, SavingSound
<1>5. \A p \in DOMAIN settings' :
         /\ p = s.provider => s.next # {} /\ settings'[p] = n
         /\ p # s.provider => p \in DOMAIN settings /\ settings'[p] = settings[p]
    BY <1>1
<1> HIDE DEF n
<1>6. settings' \in [DOMAIN settings' -> Setting]
    <2>1. \A p \in DOMAIN settings' : settings'[p] \in Setting
        BY <1>4, <1>5 DEF KeysInv
    <2> QED BY <2>1, <1>1
<1>7. ASSUME NEW p \in DOMAIN settings', NEW q \in DOMAIN settings', p # q
      PROVE  settings'[p].ref \cap settings'[q].ref = {}
    <2>1. \A r \in DOMAIN settings : r # s.provider => settings[r].ref \cap KeyAfter(s) = {}
        <3>1. \A r \in DOMAIN settings : settings[r].ref = RefOf(r)
            BY DEF RefOf, Saved
        <3> QED BY <3>1, <1>3, RefsTyped DEF KeyAfter, SavingSound
    <2>2. CASE p = s.provider
        BY <2>1, <2>2, <1>4, <1>5, <1>7
    <2>3. CASE q = s.provider
        BY <2>1, <2>3, <1>4, <1>5, <1>7
    <2>4. CASE p # s.provider /\ q # s.provider
        BY <2>4, <1>5, <1>7 DEF KeysInv
    <2> QED BY <2>2, <2>3, <2>4
<1>8. ASSUME NEW p \in keyed' \ cut', NeedsKey(p) PROVE KeyThere(p)'
    <2>1. CASE p = s.provider
        <3>1. s.next # {}
            <4>1. keyed' = CASE s.next = {} -> keyed \ {s.provider}
                             [] s.store # {} -> keyed \cup {s.provider}
                             [] OTHER -> keyed
                BY <1>1
            <4>2. s.next = {} => keyed' = keyed \ {s.provider}
                BY <4>1, <1>3 DEF SavingSound
            <4> QED BY <4>2, <2>1, <1>8
        <3>2. p \in DOMAIN settings' /\ settings'[p].ref = KeyAfter(s)
            BY <3>1, <2>1, <1>1, <1>4, <1>5
        <3>3. KeyAfter(s) # {} /\ KeyAfter(s) \subseteq secrets
            <4>1. CASE s.store # {}
                BY <4>1, <2>1, <1>3, <1>8 DEF KeyAfter
            <4>2. CASE s.store = {}
                <5>1. p \in keyed \ cut /\ s.drop = {}
                    BY <4>2, <3>1, <1>1, <1>3 DEF SavingSound
                <5>2. KeyThere(p)
                    BY <5>1, <2>1, <1>1, <1>8 DEF KeysInv, Replacing
                <5> QED BY <5>2, <4>2, <2>1, <1>8 DEF KeyAfter, KeyThere
            <4> QED BY <4>1, <4>2
        <3> QED BY <3>2, <3>3, <1>2 DEF KeyThere, Saved, RefOf
    <2>2. CASE p # s.provider
        <3>1. p \in keyed \ cut
            BY <2>2, <1>1
        <3>2. KeyThere(p)
            BY <3>1, <2>2, <1>1, <1>8 DEF KeysInv, Replacing
        <3>3. p \in DOMAIN settings' /\ settings'[p] = settings[p]
            BY <3>2, <2>2, <1>1 DEF KeyThere, Saved
        <3> QED BY <3>2, <3>3, <1>2 DEF KeyThere, Saved, RefOf
    <2> QED BY <2>1, <2>2
<1> QED BY <1>1, <1>2, <1>6, <1>7, <1>8 DEF KeysInv

LEMMA SaveFailsKeeps ==
    ASSUME KeysInv, SaveFails
    PROVE  KeysInv'
<1>1. PICK s \in saving :
         cut' = IF s.stage = "write" /\ s.drop # {} THEN cut \cup {s.provider} ELSE cut
    BY DEF SaveFails
<1>2. saving' = {} /\ UNCHANGED <<settings, secrets, keyed, provider>>
    BY DEF SaveFails, screen
<1>3. ASSUME NEW p \in keyed' \ cut', NeedsKey(p) PROVE KeyThere(p)'
    <2>1. p \in keyed \ cut /\ ~Replacing(p)
        BY <1>1, <1>2 DEF KeysInv, Replacing
    <2> QED BY <2>1, <1>2, <1>3 DEF KeysInv, KeyThere, Saved, RefOf
<1> QED BY <1>2, <1>3 DEF KeysInv

-----------------------------------------------------------------------------
(* The review *)

\* A call's handler begins with what the screen shows.
LEMMA PressedKeeps ==
    ASSUME KeysInv, SendInv, NEW kind \in {"prepare", "preview", "send"}, Pressed(kind),
           UNCHANGED <<screen, used>>
    PROVE  SendInv'
<1>1. PICK d \in review :
         call' = {[kind |-> kind, stage |-> "begun", provider |-> provider, document |-> d,
                   token |-> fallback, reviewed |-> preview, read |-> {}, payload |-> {}]}
    BY DEF Pressed
<1>2. call' \subseteq Calls
    BY <1>1 DEF Calls, SendInv, KeysInv
<1>3. \A c \in call' : CallSound(c)'
    BY <1>1 DEF CallSound
<1> QED BY <1>2, <1>3 DEF SendInv, screen, used

\* What a call's attachments are
LEMMA PayloadIsOfDocument ==
    ASSUME SendInv, NEW c \in call, Resolves(c)
    PROVE  /\ Payload(c) \in Payloads
           /\ \A a \in Payload(c).attached : a.document = Payload(c).document
<1>1. c \in Calls
    BY DEF SendInv
<1>2. {r.setup : r \in c.read} \subseteq Setups
    BY <1>1 DEF Calls, Setting
<1>3. \A t \in c.token : capabilities[t] \in Attachments /\ capabilities[t].document = c.document
    BY DEF SendInv, Resolves
<1>4. {capabilities[t] : t \in c.token} \subseteq Attachments
    BY <1>3
<1> QED BY <1>1, <1>2, <1>3, <1>4 DEF Payload, Payloads, Calls

LEMMA PreparedKeeps ==
    ASSUME SendInv, NEW t \in Tokens, NEW mode \in Modes, Prepared(t, mode)
    PROVE  SendInv'
<1>1. PICK c \in call : capabilities' = [u \in DOMAIN capabilities \cup {t} |->
                IF u = t THEN [document |-> c.document, mode |-> mode] ELSE capabilities[u]]
    BY DEF Prepared
<1>2. t \notin spent /\ fallback' = {t} /\ preview' = {} /\ call' = {} /\ UNCHANGED <<review, spent>>
    BY DEF Prepared
<1>3. c.document \in Documents
    BY DEF SendInv, Calls
<1>4. capabilities' \in [DOMAIN capabilities' -> Attachments]
    BY <1>1, <1>3 DEF SendInv, Attachments
<1>5. DOMAIN capabilities' = DOMAIN capabilities \cup {t}
    BY <1>1
<1> QED BY <1>2, <1>4, <1>5 DEF SendInv

LEMMA ExpiresKeeps ==
    ASSUME SendInv, NEW t \in Tokens, Expires(t)
    PROVE  SendInv'
BY DEF SendInv, Expires, screen, CallSound

LEMMA ReadSettingsKeeps ==
    ASSUME KeysInv, SendInv, ReadSettings
    PROVE  SendInv'
<1>1. PICK c \in call : c.stage = "begun" /\ Saved(c.provider)
                        /\ call' = {[c EXCEPT !.stage = "read", !.read = {settings[c.provider]}]}
    BY DEF ReadSettings
<1>2. settings[c.provider] \in Setting /\ c \in Calls
    BY <1>1 DEF KeysInv, SendInv, Saved
<1>3. {settings[c.provider]} \subseteq Setting
    BY <1>2
<1>4. PICK d : d = [c EXCEPT !.stage = "read", !.read = {settings[c.provider]}]
    OBVIOUS
<1>5. d \in Calls /\ d.stage = "read"
    BY <1>2, <1>3, <1>4 DEF Calls
<1> QED BY <1>1, <1>4, <1>5 DEF SendInv, ReadSettings, screen, used, CallSound

LEMMA PreviewedKeeps ==
    ASSUME SendInv, Previewed
    PROVE  SendInv'
<1>1. PICK c \in call : Resolves(c) /\ preview' = {Payload(c)} /\ call' = {}
    BY DEF Previewed
<1>2. Payload(c) \in Payloads
    BY <1>1, PayloadIsOfDocument
<1> QED BY <1>1, <1>2 DEF SendInv, Previewed, used

LEMMA CheckPayloadKeeps ==
    ASSUME SendInv, CheckPayload
    PROVE  SendInv'
<1>1. PICK c \in call : /\ Resolves(c) /\ AsReviewed(c)
                        /\ call' = {[c EXCEPT !.stage = "checked", !.payload = {Payload(c)}]}
    BY DEF CheckPayload
<1>2. UNCHANGED <<screen, used>>
    BY DEF CheckPayload
<1>3. c \in Calls
    BY DEF SendInv
<1>4. PICK d : d = [c EXCEPT !.stage = "checked", !.payload = {Payload(c)}]
    OBVIOUS
<1>5. /\ Payload(c) \in Payloads
      /\ \A a \in Payload(c).attached : a.document = Payload(c).document
    BY <1>1, PayloadIsOfDocument
<1>6. d \in Calls /\ d.reviewed = {Payload(c)} /\ d.payload = {Payload(c)} /\ d.token = c.token
    BY <1>1, <1>3, <1>5, <1>4 DEF Calls, AsReviewed
<1>7. c.token \cap spent = {}
    BY <1>1 DEF Resolves, SendInv
<1>8. CallSound(d)'
    BY <1>2, <1>5, <1>6, <1>7 DEF CallSound, used
<1> QED BY <1>1, <1>2, <1>6, <1>8, <1>4 DEF SendInv, screen, used

LEMMA TransmitKeeps ==
    ASSUME SendInv, Transmit
    PROVE  SendInv'
<1>1. PICK c \in call : c.stage = "checked" /\ call' = {[c EXCEPT !.stage = "sent"]}
    BY DEF Transmit
<1>2. UNCHANGED <<screen, used>>
    BY DEF Transmit
<1>3. c \in Calls /\ CallSound(c)
    BY DEF SendInv
<1>4. PICK d : d = [c EXCEPT !.stage = "sent"]
    OBVIOUS
<1>5. d \in Calls /\ d.reviewed = c.reviewed /\ d.payload = c.payload /\ d.token = c.token
    BY <1>3, <1>4 DEF Calls
<1>6. CallSound(d)'
    BY <1>1, <1>2, <1>3, <1>5 DEF CallSound, used
<1> QED BY <1>1, <1>2, <1>4, <1>5, <1>6 DEF SendInv, screen, used

LEMMA AnalyzedKeeps ==
    ASSUME SendInv, Analyzed
    PROVE  SendInv'
<1>1. PICK c \in call : /\ capabilities' = [t \in DOMAIN capabilities \ c.token |-> capabilities[t]]
                        /\ spent' = spent \cup c.token /\ call' = {}
    BY DEF Analyzed
<1>2. UNCHANGED screen
    BY DEF Analyzed
<1> QED BY <1>1, <1>2 DEF SendInv, screen

-----------------------------------------------------------------------------
(* Theorems *)

LEMMA InitialInv == ConsentInit => Inv
BY DEF ConsentInit, Inv, KeysInv, SendInv, Names, Attachments

LEMMA ConsentStep == Inv /\ [ConsentNext]_consentVars => Inv'
<1> SUFFICES ASSUME Inv, [ConsentNext]_consentVars PROVE Inv'
    OBVIOUS
<1> USE DEF Inv
<1>1. ASSUME UNCHANGED <<screen, call, used>> PROVE SendInv'
    BY <1>1 DEF SendInv, screen, used, CallSound
<1>2. CASE UNCHANGED consentVars
    BY <1>2, <1>1, StockStays DEF consentVars, stock, screen, used, KeysInv
<1>3. CASE \E setup \in Setups : BeginSave(setup)
    BY <1>3, <1>1, BeginSaveKeeps DEF BeginSave
<1>4. CASE \E p \in Providers : BeginDelete(p)
    BY <1>4, <1>1, BeginDeleteKeeps DEF BeginDelete
<1>5. CASE \E p \in Providers : Choose(p)
    BY <1>5, StockStays DEF Choose, SendInv, used, CallSound, Names
<1>6. CASE StoreSecret
    BY <1>6, <1>1, StoreSecretKeeps DEF StoreSecret
<1>7. CASE DropSecret
    BY <1>7, <1>1, DropSecretKeeps DEF DropSecret
<1>8. CASE WriteSettings
    BY <1>8, <1>1, WriteSettingsKeeps DEF WriteSettings
<1>9. CASE SaveFails
    BY <1>9, <1>1, SaveFailsKeeps DEF SaveFails
<1> DEFINE ReviewStep ==
       \/ \E d \in Documents : Imported(d)
       \/ \E t \in Tokens : Expires(t) \/ \E mode \in Modes : Prepared(t, mode)
       \/ PressPrepare \/ PressPreview \/ PressSend
       \/ ReadSettings \/ Previewed \/ CheckPayload \/ Transmit \/ Analyzed \/ CallFails
<1>10. ASSUME ReviewStep PROVE KeysInv'
    <2>1. UNCHANGED <<stock, provider>>
        BY <1>10 DEF Imported, Expires, Prepared, PressPrepare, PressPreview, PressSend,
           ReadSettings, Previewed, CheckPayload, Transmit, Analyzed, CallFails, screen
    <2> QED BY <2>1, StockStays DEF KeysInv
<1>11. CASE \E d \in Documents : Imported(d)
    BY <1>11, <1>10 DEF Imported, SendInv, used, CallSound
<1>12. CASE \E t \in Tokens : Expires(t) \/ \E mode \in Modes : Prepared(t, mode)
    BY <1>12, <1>10, ExpiresKeeps, PreparedKeeps
<1>13. CASE PressPrepare \/ PressPreview \/ PressSend
    BY <1>13, <1>10, PressedKeeps DEF PressPrepare, PressPreview, PressSend
<1>14. CASE ReadSettings \/ Previewed \/ CheckPayload \/ Transmit \/ Analyzed
    BY <1>14, <1>10, ReadSettingsKeeps, PreviewedKeeps, CheckPayloadKeeps, TransmitKeeps,
       AnalyzedKeeps
<1>15. CASE CallFails
    BY <1>15, <1>10 DEF CallFails, SendInv, screen, used
<1> QED BY <1>2, <1>3, <1>4, <1>5, <1>6, <1>7, <1>8, <1>9, <1>11, <1>12, <1>13, <1>14, <1>15
        DEF ConsentNext

\* The invariant that carries the others: a running call that saves or deletes a key, and what
\* a call that sends has checked.
THEOREM ConsentInvariant == ConsentSpec => []Inv
BY InitialInv, ConsentStep, PTL DEF ConsentSpec

\* What is transmitted, and to whom, is what the user had before him when he pressed the
\* button, whatever was saved, chosen, imported or prepared since it was shown.
THEOREM SentAsReviewed == ConsentSpec => []SentIsReviewed
<1>1. Inv => SentIsReviewed
    BY DEF Inv, SendInv, CallSound, SentIsReviewed
<1> QED BY <1>1, ConsentInvariant, PTL

\* No transmission takes a token that an analysis has succeeded with, or one of another draft.
THEOREM PreparedSentOnce == ConsentSpec => AttachmentsOnce
<1>1. Inv /\ Inv' /\ [ConsentNext]_consentVars =>
         [\A c \in call' : c.stage = "sent" =>
            /\ c.token \cap spent = {}
            /\ \A p \in c.payload : \A a \in p.attached : a.document = p.document]_consentVars
    <2> SUFFICES ASSUME Inv', ConsentNext, NEW c \in call', c.stage = "sent"
                 PROVE  /\ c.token \cap spent = {}
                        /\ \A p \in c.payload : \A a \in p.attached : a.document = p.document
        OBVIOUS
    <2>1. spent \subseteq spent'
        BY DEF ConsentNext, BeginSave, BeginDelete, Choose, StoreSecret, DropSecret, WriteSettings,
           SaveFails, Imported, Expires, Prepared, PressPrepare, PressPreview, PressSend,
           ReadSettings, Previewed, CheckPayload, Transmit, Analyzed, CallFails, used
    <2>2. CallSound(c)'
        BY DEF Inv, SendInv
    <2> QED BY <2>1, <2>2 DEF CallSound
<1> QED BY <1>1, ConsentInvariant, ConsentStep, PTL DEF ConsentSpec, AttachmentsOnce

\* A saved key is there under the name that the settings have for it, unless a call that
\* replaces or removes it is under way, or failed between its steps.
THEOREM KeysStay == ConsentSpec => []SavedKeyKept
<1>1. Inv => SavedKeyKept
    BY DEF Inv, KeysInv, KeyThere, Replacing, SavedKeyKept
<1> QED BY <1>1, ConsentInvariant, PTL

=============================================================================
