-------------------------- MODULE UserStoreProofs --------------------------
(***************************************************************************)
(* Proofs that accounts persist across crashes at any point, for any       *)
(* users, as long as files open and are written in full (module            *)
(* UserStore).                                                             *)
(***************************************************************************)
EXTENDS UserStore, TLAPS

(***************************************************************************)
(* The store starts in its invariant: nobody was told anything yet.        *)
(***************************************************************************)
LEMMA InitStoreInv == StoreInit => StoreInv
BY DEF StoreInit, StoreInv, StoreTypeOK, AccountsPersist, FileHasAcked,
       NoRequest, Request, FileContent, Absent, TornFile, Parsed

(***************************************************************************)
(* What a write that does not fall short leaves, and what is read back.    *)
(***************************************************************************)
LEMMA WrittenInFull ==
    ASSUME ~FileMayFail, NEW accounts \in SUBSET User
    PROVE  /\ Written(accounts) = {Whole(accounts)}
           /\ Whole(accounts) \in FileContent
           /\ Whole(accounts) # Absent /\ Whole(accounts) # TornFile
           /\ Parsed(Whole(accounts)) = accounts
BY DEF Written, Whole, FileContent, Absent, TornFile, Parsed

(***************************************************************************)
(* A file that is torn or absent reads as no accounts at all.              *)
(***************************************************************************)
LEMMA NothingToRead ==
    /\ TornFile \in FileContent /\ Parsed(TornFile) = {} /\ TornFile # Absent
    /\ Absent \in FileContent /\ Parsed(Absent) = {}
    /\ \A content \in FileContent : Parsed(content) \in SUBSET User
BY DEF FileContent, TornFile, Absent, Parsed

(***************************************************************************)
(* Every system call, every kill and every request keeps the invariant.    *)
(***************************************************************************)
LEMMA NextStoreInv ==
    ASSUME ~FileMayFail, StoreInv, [StoreNext]_storeVars
    PROVE  StoreInv'
<1> USE DEF StoreInv, AccountsPersist, FileHasAcked
<1>1. CASE Start
  BY <1>1, NothingToRead DEF Start, Proceeds, StoreTypeOK
<1>2. CASE CreateFile
  <2>1. {} \in SUBSET User
    OBVIOUS
  <2>2. file' = file \/ file' = Whole({})
    BY <1>2, <2>1, WrittenInFull DEF CreateFile
  <2>3. file' \in FileContent /\ acked' \subseteq Parsed(file')
    BY <1>2, <2>1, <2>2, WrittenInFull DEF CreateFile, Proceeds, StoreTypeOK
  <2>4. /\ serverPc = "creating" /\ serverPc' = "loading"
        /\ UNCHANGED <<users_, tmp, asked, acked>>
    BY <1>2 DEF CreateFile, Proceeds
  <2> QED
    BY <2>3, <2>4 DEF StoreTypeOK
<1>3. CASE loadFromFile
  BY <1>3, NothingToRead DEF loadFromFile, Proceeds, StoreTypeOK, NoRequest
<1>4. ASSUME NEW u \in User, registerUser(u) PROVE StoreInv'
  BY <1>4 DEF registerUser, Proceeds, StoreTypeOK, Request
<1>5. ASSUME NEW u \in User, updateLastLogin(u) PROVE StoreInv'
  BY <1>5 DEF updateLastLogin, Proceeds, StoreTypeOK, Request
<1>6. CASE OpenTmp
  BY <1>6, NothingToRead DEF OpenTmp, Proceeds, StoreTypeOK
<1>7. CASE WriteTmp
  <2>1. tmp' = Whole(users_) /\ tmp' \in FileContent
    BY <1>7, WrittenInFull DEF WriteTmp, StoreTypeOK
  <2> QED
    BY <1>7, <2>1 DEF WriteTmp, Proceeds, StoreTypeOK,
      Whole
<1>8. CASE RenameTmp
  <2>1. file' = Whole(users_) /\ file' \in FileContent
    BY <1>8, WrittenInFull DEF RenameTmp, Proceeds, StoreTypeOK
  <2>2. acked' \subseteq Parsed(file')
    BY <1>8, <2>1, WrittenInFull DEF RenameTmp, Proceeds, StoreTypeOK
  <2> QED
    BY <1>8, <2>1, <2>2, NothingToRead DEF RenameTmp, Proceeds, StoreTypeOK,
      Whole
<1>9. CASE RenameThrows
  BY <1>9 DEF RenameThrows, Proceeds, StoreTypeOK, Request, NoRequest
<1>10. CASE Reply
  <2>1. acked' \subseteq users_ /\ acked' \subseteq Parsed(file)
    BY <1>10, WrittenInFull DEF Reply, Proceeds, StoreTypeOK
  <2> QED
    BY <1>10, <2>1 DEF Reply, Proceeds, StoreTypeOK, Request, NoRequest
<1>11. CASE ServerKilled
  BY <1>11 DEF ServerKilled, StoreTypeOK, Request, NoRequest
<1>12. CASE UNCHANGED storeVars
  BY <1>12 DEF storeVars, StoreTypeOK, Whole, Parsed
<1> QED
  BY <1>1, <1>2, <1>3, <1>4, <1>5, <1>6, <1>7, <1>8, <1>9, <1>10, <1>11,
     <1>12 DEF StoreNext

(***************************************************************************)
(* UserStore.cpp:48-98 with the handler of server.cpp:144-161: whatever    *)
(* requests and crashes there are, the invariant of the save protocol      *)
(* holds (write a temporary file, rename it, only then answer).            *)
(***************************************************************************)
THEOREM StoreInvHolds ==
    ASSUME ~FileMayFail PROVE StoreSpec => []StoreInv
<1>1. StoreInit => StoreInv
  BY InitStoreInv
<1>2. StoreInv /\ [StoreNext]_storeVars => StoreInv'
  BY NextStoreInv
<1> QED
  BY <1>1, <1>2, PTL DEF StoreSpec

(***************************************************************************)
(* Hence whoever was told that the account exists finds it there whenever  *)
(* the server is up (README.md:129).                                       *)
(***************************************************************************)
THEOREM AccountsAlwaysPersist ==
    ASSUME ~FileMayFail PROVE StoreSpec => []AccountsPersist
<1>1. StoreInv => AccountsPersist
  BY DEF StoreInv
<1> QED
  BY <1>1, StoreInvHolds, PTL
=============================================================================
