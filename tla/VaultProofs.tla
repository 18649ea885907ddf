----------------------------- MODULE VaultProofs -----------------------------
(***************************************************************************)
(* The storage over any number of keys, crashes and starts: what is stored *)
(* stays readable unless the key file is lost, the settings a start needs  *)
(* can be read even then, and a start never undoes a choice.               *)
(***************************************************************************)
EXTENDS Vault, TLAPS

Booted == DOMAIN Defaults \cup {"up"}

\* What may be stored under each setting.
Values == [theme |-> {"Cyberpunk"}, search_engine |-> {"Horus"},
           history_enabled |-> {"true", "false"},
           security_level |-> {"Standard", "Strict", "Paranoid"}]

SettingsOK(st) ==
  /\ st \in [Setting -> Ciphertext \cup {None}]
  /\ \A key \in Setting : st[key] # None => st[key].value \in Values[key]

VaultTypeOK ==
  /\ keyFile \in (0 .. MaxKeys) \cup {None}
  /\ salt \in (1 .. MaxCrashes + 1) \cup {None}
  /\ SettingsOK(settings)
  /\ rows \in [Table -> SUBSET Cipher]
  /\ pc \in {"key", "fill", "unlock"} \cup Booted
  /\ keysMade \in 0 .. MaxKeys /\ crashes \in 0 .. MaxCrashes
  /\ lost \in BOOLEAN

\* What each stage of the start-up has behind it.
StageInv ==
  /\ pc = "fill" => keyFile = 0 /\ keysMade < MaxKeys
  /\ pc \in {"unlock"} \cup Booted => keyFile \in 1 .. MaxKeys
  /\ pc \in Booted => salt # None /\ cipher = <<keyFile, salt>>

Empty == (\A key \in Setting : settings[key] = None) /\ (\A t \in Table : rows[t] = {})

\* Nothing is stored before there is a key and a salt.
EmptyInv ==
  /\ salt = None => Empty
  /\ ~lost /\ keyFile \in {None, 0} => Empty

\* The defaults that a stage has set.
Past == [theme |-> {}, search_engine |-> {"theme"},
         history_enabled |-> {"theme", "search_engine"}, up |-> DOMAIN Defaults]

Readable(key) == settings[key] # None /\ settings[key].cipher = cipher

DefaultsInv == pc \in Booted => \A key \in Past[pc] : Readable(key)

\* Whatever is stored was made with the key in the file and the salt.
KeptInv ==
  ~lost =>
    /\ \A key \in Setting : settings[key] # None => settings[key].cipher = <<keyFile, salt>>
    /\ \A t \in Table : rows[t] \subseteq {<<keyFile, salt>>}

\* The inductive invariant.
VaultIInv == VaultTypeOK /\ StageInv /\ EmptyInv /\ DefaultsInv /\ KeptInv

-----------------------------------------------------------------------------
LEMMA CipherIsTyped ==
  ASSUME VaultIInv, pc \in Booted
  PROVE  cipher \in Cipher /\ cipher = <<keyFile, salt>> /\ salt # None /\ keyFile \notin {None, 0}
BY NoneAssumption, MaxKeysAssumption DEF VaultIInv, VaultTypeOK, StageInv, Cipher

\* A readable setting decrypts to one of its values.
LEMMA ReadableDecrypts ==
  ASSUME VaultIInv, NEW key \in Setting, Readable(key)
  PROVE  get_setting(key) \in Values[key]
BY DEF VaultIInv, VaultTypeOK, SettingsOK, Readable, get_setting, decrypt

\* No value is taken for a missing or an unreadable one.
LEMMA ValuesAreValues ==
  ASSUME NEW key \in Setting
  PROVE  /\ None \notin Values[key] /\ Unreadable \notin Values[key]
         /\ Values[key] \subseteq Plaintext
         /\ key \in DOMAIN Defaults => Defaults[key] \in Values[key]
<1>1. Setting = {"theme", "search_engine", "history_enabled", "security_level"}
      /\ DOMAIN Defaults = {"theme", "search_engine", "history_enabled"}
  BY DEF Setting, Defaults
<1>2. None \notin Plaintext
  BY NoneAssumption
<1>3. Values[key] \subseteq Plaintext /\ Unreadable \notin Plaintext
  BY <1>1 DEF Values, Plaintext, Unreadable
<1>4. key \in DOMAIN Defaults => Defaults[key] \in Values[key]
  BY <1>1 DEF Values, Defaults
<1> QED BY <1>2, <1>3, <1>4

\* A value stored by a running browser.
LEMMA SetSettingHolds ==
  ASSUME VaultIInv, pc \in Booted, NEW key \in Setting, NEW v \in Values[key],
         set_setting(key, v)
  PROVE  /\ SettingsOK(settings)'
         /\ settings'[key] # None /\ settings'[key].cipher = cipher
         /\ settings'[key].value = v
         /\ \A k \in Setting : k # key => settings'[k] = settings[k]
<1>1. v \in Plaintext
  BY ValuesAreValues
<1>2. cipher \in Cipher
  BY CipherIsTyped
<1>3. [cipher |-> cipher, value |-> v] \in Ciphertext
  BY <1>1, <1>2 DEF Ciphertext
<1>4. [cipher |-> cipher, value |-> v] # None
  BY <1>3, NoneAssumption
<1>5. settings' = [settings EXCEPT ![key] = [cipher |-> cipher, value |-> v]]
  BY DEF set_setting, encrypt
<1>6. settings \in [Setting -> Ciphertext \cup {None}]
  BY DEF VaultIInv, VaultTypeOK, SettingsOK
<1>7. settings' \in [Setting -> Ciphertext \cup {None}]
  BY <1>3, <1>5, <1>6
<1>8. settings'[key] = [cipher |-> cipher, value |-> v]
      /\ \A k \in Setting : k # key => settings'[k] = settings[k]
  BY <1>5, <1>6
<1>9. \A k \in Setting : settings'[k] # None => settings'[k].value \in Values[k]
  BY <1>8 DEF VaultIInv, VaultTypeOK, SettingsOK
<1> QED BY <1>4, <1>7, <1>8, <1>9 DEF SettingsOK

\* What a page may do to the rows and the settings.
LEMMA PageHolds ==
  ASSUME VaultIInv, pc = "up", UNCHANGED <<keyFile, salt, cipher, pc, keysMade, crashes, lost>>,
         rows' \in [Table -> SUBSET Cipher],
         \A t \in Table : rows'[t] \subseteq rows[t] \cup {cipher},
         SettingsOK(settings)',
         \A key \in Setting : settings'[key] = settings[key] \/
                                (settings'[key] # None /\ settings'[key].cipher = cipher)
  PROVE  VaultIInv'
<1>1. cipher = <<keyFile, salt>> /\ salt # None /\ keyFile \notin {None, 0} /\ pc \in Booted
  BY CipherIsTyped DEF Booted
<1>2. VaultTypeOK'
  BY DEF VaultIInv, VaultTypeOK
<1>3. StageInv' /\ EmptyInv'
  BY <1>1 DEF VaultIInv, StageInv, EmptyInv
<1>4. DefaultsInv'
  <2>1. Past[pc] \subseteq Setting /\ \A key \in Past[pc] : Readable(key)
    BY <1>1 DEF VaultIInv, DefaultsInv, Past, Setting, Defaults
  <2> QED BY <2>1 DEF DefaultsInv, Readable
<1>5. KeptInv'
  BY <1>1 DEF VaultIInv, KeptInv
<1> QED BY <1>2, <1>3, <1>4, <1>5 DEF VaultIInv

LEMMA VaultInitHolds == VaultInit => VaultIInv
<1> SUFFICES ASSUME VaultInit PROVE VaultIInv
  OBVIOUS
<1>1. 0 \in 0 .. MaxKeys /\ 0 \in 0 .. MaxCrashes
  BY MaxKeysAssumption, MaxCrashesAssumption
<1>2. SettingsOK(settings) /\ rows \in [Table -> SUBSET Cipher] /\ Empty
  BY DEF VaultInit, SettingsOK, Empty
<1>3. pc \notin Booted /\ pc \notin {"fill", "unlock"}
  BY DEF VaultInit, Booted, Defaults
<1> QED BY <1>1, <1>2, <1>3
        DEF VaultInit, VaultIInv, VaultTypeOK, StageInv, EmptyInv, DefaultsInv, KeptInv, Empty

\* A step before the storage is unlocked that stores nothing.
LEMMA MakeKeyHolds ==
  ASSUME VaultIInv, MakeKey
  PROVE  VaultIInv'
<1>1. /\ pc = "key" /\ keyFile \in {None, 0} /\ keysMade < MaxKeys /\ keyFile' = 0 /\ pc' = "fill"
      /\ UNCHANGED <<salt, settings, rows, cipher, keysMade, crashes, lost>>
  BY DEF MakeKey
<1>2. "fill" \notin {"unlock"} \cup Booted /\ 0 \in 0 .. MaxKeys
  BY MaxKeysAssumption DEF Booted, Defaults
<1>3. VaultTypeOK' /\ StageInv' /\ DefaultsInv'
  BY <1>1, <1>2 DEF VaultIInv, VaultTypeOK, StageInv, DefaultsInv
<1>4. EmptyInv'
  BY <1>1 DEF VaultIInv, EmptyInv, Empty
<1>5. KeptInv'
  BY <1>1 DEF VaultIInv, EmptyInv, Empty, KeptInv
<1> QED BY <1>3, <1>4, <1>5 DEF VaultIInv

LEMMA FillKeyHolds ==
  ASSUME VaultIInv, FillKey
  PROVE  VaultIInv'
<1>1. /\ pc = "fill" /\ keysMade' = keysMade + 1 /\ keyFile' = keysMade + 1 /\ pc' = "unlock"
      /\ UNCHANGED <<salt, settings, rows, cipher, crashes, lost>>
  BY DEF FillKey
<1>2. keyFile = 0 /\ keysMade < MaxKeys /\ keysMade \in 0 .. MaxKeys
  BY <1>1 DEF VaultIInv, VaultTypeOK, StageInv
<1>3. keyFile' \in 1 .. MaxKeys /\ keysMade' \in 0 .. MaxKeys /\ keyFile' \notin {None, 0}
  BY <1>1, <1>2, MaxKeysAssumption, NoneAssumption
<1>4. "unlock" \notin Booted
  BY DEF Booted, Defaults
<1>5. VaultTypeOK'
  BY <1>1, <1>3 DEF VaultIInv, VaultTypeOK
<1>6. StageInv' /\ DefaultsInv'
  BY <1>1, <1>3, <1>4 DEF StageInv, DefaultsInv
<1>7. EmptyInv' /\ KeptInv'
  BY <1>1, <1>2, <1>3 DEF VaultIInv, EmptyInv, Empty, KeptInv
<1> QED BY <1>5, <1>6, <1>7 DEF VaultIInv

LEMMA LoadKeyHolds ==
  ASSUME VaultIInv, LoadKey
  PROVE  VaultIInv'
<1>1. /\ keyFile \notin {None, 0} /\ pc' = "unlock"
      /\ UNCHANGED <<keyFile, salt, settings, rows, cipher, keysMade, crashes, lost>>
  BY DEF LoadKey, disk
<1>2. keyFile \in 1 .. MaxKeys
  BY <1>1, MaxKeysAssumption DEF VaultIInv, VaultTypeOK
<1>3. "unlock" \notin Booted
  BY DEF Booted, Defaults
<1>4. VaultTypeOK' /\ StageInv' /\ DefaultsInv'
  BY <1>1, <1>2, <1>3 DEF VaultIInv, VaultTypeOK, StageInv, DefaultsInv
<1> QED BY <1>1, <1>4 DEF VaultIInv, EmptyInv, Empty, KeptInv

\* The salt is made once, when nothing is stored yet.
LEMMA UnlockHolds ==
  ASSUME VaultIInv, unlock
  PROVE  VaultIInv'
<1>1. /\ pc = "unlock" /\ salt' = (IF salt = None THEN crashes + 1 ELSE salt)
      /\ cipher' = <<keyFile, salt'>> /\ pc' = "theme"
      /\ UNCHANGED <<keyFile, settings, rows, keysMade, crashes, lost>>
  BY DEF unlock, Salted
<1>2. keyFile \in 1 .. MaxKeys /\ keyFile \notin {None, 0}
  BY <1>1, NoneAssumption, MaxKeysAssumption DEF VaultIInv, StageInv
<1>3. crashes + 1 \in 1 .. MaxCrashes + 1 /\ crashes + 1 # None
  BY NoneAssumption, MaxCrashesAssumption DEF VaultIInv, VaultTypeOK
<1>4. salt' \in 1 .. MaxCrashes + 1 /\ salt' # None
  BY <1>1, <1>3 DEF VaultIInv, VaultTypeOK
<1>5. "theme" \in Booted /\ Past["theme"] = {}
  BY DEF Booted, Defaults, Past
<1>6. VaultTypeOK'
  BY <1>1, <1>4, <1>5 DEF VaultIInv, VaultTypeOK
<1>7. StageInv' /\ DefaultsInv'
  BY <1>1, <1>2, <1>4, <1>5 DEF StageInv, DefaultsInv
<1>8. EmptyInv'
  BY <1>1, <1>2, <1>4 DEF EmptyInv
<1>9. KeptInv'
  BY <1>1 DEF VaultIInv, EmptyInv, Empty, KeptInv
<1> QED BY <1>6, <1>7, <1>8, <1>9 DEF VaultIInv

\* Each default is readable once its stage is over.
LEMMA SetDefaultHolds ==
  ASSUME VaultIInv, SetDefault
  PROVE  VaultIInv'
<1>1. /\ pc \in DOMAIN Defaults /\ pc' = NextStep[pc]
      /\ UNCHANGED <<keyFile, salt, rows, cipher, keysMade, crashes, lost>>
      /\ \/ Lacks(pc) /\ set_setting(pc, Defaults[pc])
         \/ ~Lacks(pc) /\ UNCHANGED settings
  BY DEF SetDefault
<1>2. /\ pc \in Booted /\ pc' \in Booted /\ pc \in Setting /\ pc' # "fill"
      /\ Past[pc'] = Past[pc] \cup {pc} /\ Past[pc'] \subseteq Setting
  BY <1>1 DEF Booted, Defaults, NextStep, Past, Setting
<1>3. cipher = <<keyFile, salt>> /\ salt # None /\ keyFile \notin {None, 0}
  BY <1>2, CipherIsTyped
<1>4. /\ SettingsOK(settings)' /\ settings'[pc] # None /\ settings'[pc].cipher = cipher
      /\ \A k \in Setting : k # pc => settings'[k] = settings[k]
  <2>1. CASE set_setting(pc, Defaults[pc])
    BY <1>1, <1>2, <2>1, ValuesAreValues, SetSettingHolds
  <2>2. CASE ~Lacks(pc) /\ UNCHANGED settings
    <3>1. Readable(pc)
      BY <2>2 DEF Lacks, get_setting, decrypt, Readable
    <3> QED BY <2>2, <3>1 DEF Readable, VaultIInv, VaultTypeOK, SettingsOK
  <2> QED BY <1>1, <2>1, <2>2
<1>5. VaultTypeOK'
  BY <1>1, <1>2, <1>4 DEF VaultIInv, VaultTypeOK
<1>6. StageInv' /\ EmptyInv'
  BY <1>1, <1>2, <1>3 DEF VaultIInv, StageInv, EmptyInv
<1>7. DefaultsInv'
  <2>1. \A k \in Past[pc] : Readable(k)
    BY <1>2 DEF VaultIInv, DefaultsInv
  <2> QED BY <1>1, <1>2, <1>4, <2>1 DEF DefaultsInv, Readable
<1>8. KeptInv'
  BY <1>1, <1>3, <1>4 DEF VaultIInv, KeptInv
<1> QED BY <1>5, <1>6, <1>7, <1>8 DEF VaultIInv

\* A visit stores at most a row of the current cipher.
LEMMA RowsHold ==
  ASSUME VaultIInv, pc = "up", NEW t \in Table
  PROVE  /\ Recorded \in [Table -> SUBSET Cipher]
         /\ WithRow(Recorded, t) \in [Table -> SUBSET Cipher]
         /\ \A u \in Table : /\ Recorded[u] \subseteq rows[u] \cup {cipher}
                             /\ WithRow(Recorded, t)[u] \subseteq rows[u] \cup {cipher}
<1>1. cipher \in Cipher /\ rows \in [Table -> SUBSET Cipher] /\ "history" \in Table
  BY CipherIsTyped DEF Booted, VaultIInv, VaultTypeOK, Table
<1>2. Recorded \in {rows, WithRow(rows, "history")}
  BY DEF Recorded
<1>3. /\ Recorded \in [Table -> SUBSET Cipher]
      /\ \A u \in Table : Recorded[u] \subseteq rows[u] \cup {cipher}
  BY <1>1, <1>2 DEF WithRow
<1> QED BY <1>1, <1>3 DEF WithRow

LEMMA PagesHold ==
  ASSUME VaultIInv, Page
  PROVE  VaultIInv'
<1>1. /\ pc = "up" /\ get_setting("history_enabled") # Unreadable
      /\ UNCHANGED <<keyFile, salt, cipher, pc, keysMade, crashes, lost>>
  BY DEF Page, OpenPage, ClearHistory, AddBookmark, AddDownload, AllowSite, ToggleHistory,
         ToggleSecurity, Visits
<1>2. pc \in Booted /\ {"history", "bookmarks", "downloads"} \subseteq Table
      /\ {"history_enabled", "security_level"} \subseteq Setting
  BY <1>1 DEF Booted, Table, Setting, Defaults
<1>3. SettingsOK(settings) /\ rows \in [Table -> SUBSET Cipher]
  BY DEF VaultIInv, VaultTypeOK
<1>4. CASE OpenPage \/ AllowSite
  BY <1>1, <1>2, <1>3, <1>4, RowsHold, PageHolds DEF OpenPage, AllowSite, SettingsOK
<1>5. CASE ClearHistory
  BY <1>1, <1>2, <1>3, <1>5, PageHolds DEF ClearHistory, SettingsOK
<1>6. CASE AddBookmark \/ AddDownload
  BY <1>1, <1>2, <1>3, <1>6, RowsHold, PageHolds DEF AddBookmark, AddDownload, SettingsOK
<1>7. ASSUME NEW key \in Setting, NEW v \in Values[key], set_setting(key, v), rows' = Recorded
      PROVE  VaultIInv'
  <2>1. /\ SettingsOK(settings)'
        /\ \A k \in Setting : settings'[k] = settings[k] \/
                                (settings'[k] # None /\ settings'[k].cipher = cipher)
    BY <1>2, <1>7, SetSettingHolds
  <2> QED BY <1>1, <1>2, <1>7, <2>1, RowsHold, PageHolds
<1>8. CASE ToggleHistory
  <2>1. {"true", "false"} = Values["history_enabled"]
    BY DEF Values
  <2> QED BY <1>2, <1>7, <1>8, <2>1 DEF ToggleHistory
<1>9. CASE ToggleSecurity
  <2> DEFINE level == SettingOr("security_level", "Standard")
  <2>1. CASE level # Unreadable /\ set_setting("security_level", NextLevel[level])
    <3>1. Values["security_level"] = {"Standard", "Strict", "Paranoid"}
      BY DEF Values
    <3>2. level \in {"Standard", "Strict", "Paranoid"}
      BY <1>2, <1>3, <2>1, <3>1 DEF SettingOr, get_setting, decrypt, SettingsOK
    <3>3. NextLevel[level] \in Values["security_level"]
      BY <3>1, <3>2 DEF NextLevel
    <3> QED BY <1>2, <1>7, <1>9, <2>1, <3>3 DEF ToggleSecurity
  <2>2. CASE UNCHANGED settings
    BY <1>1, <1>2, <1>3, <1>9, <2>2, RowsHold, PageHolds DEF ToggleSecurity, SettingsOK
  <2> QED BY <1>9, <2>1, <2>2 DEF ToggleSecurity
<1> QED BY <1>4, <1>5, <1>6, <1>8, <1>9 DEF Page

\* A crash, or the loss of the key file, happens to what is on the disk alone.
LEMMA AccidentsHold ==
  ASSUME VaultIInv, Crash \/ KeyFileLost
  PROVE  VaultIInv'
<1>1. pc' = "key" /\ "key" \notin {"fill", "unlock"} \cup Booted
  BY DEF Crash, KeyFileLost, Booted, Defaults
<1>2. CASE Crash
  <2>1. /\ crashes' = crashes + 1 /\ crashes < MaxCrashes
        /\ UNCHANGED <<keyFile, salt, settings, rows, keysMade, lost>>
    BY <1>2 DEF Crash, disk
  <2>2. crashes' \in 0 .. MaxCrashes
    BY <2>1, MaxCrashesAssumption DEF VaultIInv, VaultTypeOK
  <2>3. VaultTypeOK'
    BY <1>1, <2>1, <2>2 DEF VaultIInv, VaultTypeOK
  <2> QED BY <1>1, <2>1, <2>3 DEF VaultIInv, StageInv, EmptyInv, Empty, DefaultsInv, KeptInv
<1>3. CASE KeyFileLost
  <2>1. /\ keyFile' \in {None, 0} /\ lost' = TRUE
        /\ UNCHANGED <<salt, settings, rows, cipher, pc, keysMade, crashes>>
    BY <1>3 DEF KeyFileLost
  <2>2. VaultTypeOK'
    BY <2>1, MaxKeysAssumption DEF VaultIInv, VaultTypeOK
  <2> QED BY <1>1, <2>1, <2>2 DEF VaultIInv, StageInv, EmptyInv, Empty, DefaultsInv, KeptInv
<1> QED BY <1>2, <1>3

LEMMA VaultStepHolds == VaultIInv /\ [VaultNext]_vaultVars => VaultIInv'
<1> SUFFICES ASSUME VaultIInv, [VaultNext]_vaultVars PROVE VaultIInv'
  OBVIOUS
<1>1. CASE Boot
  BY <1>1, MakeKeyHolds, FillKeyHolds, LoadKeyHolds, UnlockHolds, SetDefaultHolds DEF Boot
<1>2. CASE Page
  BY <1>2, PagesHold
<1>3. CASE Crash \/ KeyFileLost
  BY <1>3, AccidentsHold
<1>4. CASE UNCHANGED vaultVars
  BY <1>4 DEF vaultVars, disk, VaultIInv, VaultTypeOK, SettingsOK, StageInv, EmptyInv, Empty,
              DefaultsInv, Readable, KeptInv
<1> QED BY <1>1, <1>2, <1>3, <1>4 DEF VaultNext

-----------------------------------------------------------------------------
\* Every state of VaultSpec satisfies the inductive invariant: what each stage of
\* the start-up has behind it, and what made that which is stored.
THEOREM VaultInductive == VaultSpec => []VaultIInv
BY VaultInitHolds, VaultStepHolds, PTL DEF VaultSpec

\* Unless the key file is lost, all that is stored can be decrypted, over crashes
\* at any step.
THEOREM StoredIsReadable == VaultSpec => []ReadableInv
<1>1. VaultIInv => ReadableInv
  BY DEF VaultIInv, StageInv, KeptInv, ReadableInv, Lists, Booted
<1> QED BY <1>1, VaultInductive, PTL

\* Once the browser is up, the settings of every navigation can be read, even
\* after a loss of the key file.
THEOREM StartupSettingsAreReadable == VaultSpec => []StartupSettingsInv
<1>1. VaultIInv => StartupSettingsInv
  <2> SUFFICES ASSUME VaultIInv, pc = "up", NEW key \in DOMAIN Defaults
               PROVE  get_setting(key) \notin {None, Unreadable}
    BY DEF StartupSettingsInv
  <2>1. Readable(key) /\ key \in Setting
    BY DEF VaultIInv, DefaultsInv, Booted, Past, Setting, Defaults
  <2> QED BY <2>1, ReadableDecrypts, ValuesAreValues
<1> QED BY <1>1, VaultInductive, PTL

\* A start-up never undoes a choice that it can read.
THEOREM StartsKeepChoices == VaultSpec => ChoicesSurvive
<1> DEFINE Survives ==
      \A key \in Setting : settings[key] # None /\ ~lost /\ pc # "up"
        => settings'[key] # None /\ settings'[key].value = settings[key].value
<1>1. VaultIInv /\ [VaultNext]_vaultVars => [Survives]_vaultVars
  <2> SUFFICES ASSUME VaultIInv, VaultNext, ~lost, pc # "up", NEW key \in Setting,
                      settings[key] # None
               PROVE  settings'[key] = settings[key]
    OBVIOUS
  <2>1. CASE SetDefault
    <3>1. CASE UNCHANGED settings
      BY <3>1
    <3>2. CASE Lacks(pc) /\ set_setting(pc, Defaults[pc])
      <4>1. pc \in DOMAIN Defaults /\ pc \in Booted /\ pc \in Setting
        BY <2>1 DEF SetDefault, Booted, Setting
      <4>2. settings[pc] = None
        <5> SUFFICES ASSUME settings[pc] # None PROVE FALSE
          OBVIOUS
        <5>1. Readable(pc)
          BY <4>1 DEF VaultIInv, KeptInv, StageInv, Readable
        <5>2. get_setting(pc) \notin {None, Unreadable}
          BY <4>1, <5>1, ReadableDecrypts, ValuesAreValues
        <5> QED BY <3>2, <5>2 DEF Lacks
      <4>3. key # pc
        BY <4>2
      <4>4. Defaults[pc] \in Values[pc]
        BY <4>1, ValuesAreValues
      <4> QED BY <3>2, <4>1, <4>3, <4>4, SetSettingHolds
    <3> QED BY <2>1, <3>1, <3>2 DEF SetDefault
  <2>2. CASE ~SetDefault
    BY <2>2 DEF VaultNext, Boot, MakeKey, FillKey, LoadKey, unlock, Crash, KeyFileLost, Page,
                OpenPage, ClearHistory, AddBookmark, AddDownload, AllowSite, ToggleHistory,
                ToggleSecurity, Visits, disk
  <2> QED BY <2>1, <2>2
<1> QED BY <1>1, VaultInductive, PTL DEF VaultSpec, ChoicesSurvive
=============================================================================
