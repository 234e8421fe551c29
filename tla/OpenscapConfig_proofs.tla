------------------------ MODULE OpenscapConfig_proofs ------------------------
(***************************************************************************)
(* Theorems about OpenscapConfig, for any options, any content and any     *)
(* number of updates and commands: a scan evaluates the datastream that    *)
(* its tailoring was made with, tailoring files survive scans, and a       *)
(* configuration is refused for a reason and before anything is touched.   *)
(***************************************************************************)
EXTENDS OpenscapConfig, WellFoundedInduction, TLAPS

-----------------------------------------------------------------------------
(* The first and the last of a set of positions. *)

LEMMA First ==
  ASSUME NEW S, S \subseteq Nat, S # {}
  PROVE  \E i \in S : \A j \in S : i <= j
<1>1. PICK i \in S : \A j \in S : <<j, i>> \notin OpToRel(<, Nat)
  BY WFMin, NatLessThanWellFounded
<1>2. \A j \in S : i \in Nat /\ j \in Nat /\ ~ (j < i)
  BY <1>1 DEF OpToRel
<1>3. \A j \in S : i <= j
  BY <1>2
<1> QED BY <1>3

(* Counted from the end, the last position is the first. *)
LEMMA Last ==
  ASSUME NEW n \in Nat, NEW S, S \subseteq 1 .. n, S # {}
  PROVE  \E i \in S : \A j \in S : j <= i
<1> DEFINE T == {n - i : i \in S}
<1>0. \A i \in S : i \in 1 .. n /\ n - i \in Nat
  OBVIOUS
<1>1. T \subseteq Nat /\ T # {}
  BY <1>0
<1>2. PICK k \in T : \A m \in T : k <= m
  BY <1>1, First
<1>3. PICK i \in S : k = n - i
  BY <1>2
<1>4. \A j \in S : n - i <= n - j
  BY <1>2, <1>3
<1>5. \A j \in S : j <= i
  BY <1>0, <1>4
<1> QED BY <1>5

-----------------------------------------------------------------------------
(* The search for a datastream. *)

(* The search finds a path, one only, and finds one if any file matches:   *)
(* the first match is reached, and of those reached there is a last one.   *)
LEMMA SearchFinds ==
  /\ findMatchingDatastream \subseteq Paths
  /\ \A p, q \in findMatchingDatastream : p = q
  /\ findMatchingDatastream = {} => Matching = {}
<1>1. PICK n \in Nat : DOMAIN ContentOrder = 1 .. n
  BY ContentAssumption
<1>2. Matching \subseteq 1 .. n /\ Reached \subseteq Matching
  BY <1>1 DEF Matching, Reached
<1>3. \A i \in 1 .. n : ContentOrder[i] \in Paths
  BY <1>1, ContentAssumption
<1>4. findMatchingDatastream \subseteq Paths
  BY <1>2, <1>3 DEF findMatchingDatastream
<1>5. ASSUME NEW p \in findMatchingDatastream, NEW q \in findMatchingDatastream
      PROVE  p = q
  <2>1. PICK i \in Reached : p = ContentOrder[i] /\ \A k \in Reached : k <= i
    BY <1>5 DEF findMatchingDatastream
  <2>2. PICK j \in Reached : q = ContentOrder[j] /\ \A k \in Reached : k <= j
    BY <1>5 DEF findMatchingDatastream
  <2>3. i <= j /\ j <= i
    BY <2>1, <2>2
  <2>4. i \in Nat /\ j \in Nat
    BY <1>2
  <2>5. i = j
    BY <2>3, <2>4
  <2> QED BY <2>1, <2>2, <2>5
<1>6. ASSUME Matching # {}
      PROVE  findMatchingDatastream # {}
  <2>0. Matching \subseteq Nat
    BY <1>2
  <2>1. PICK i \in Matching : \A j \in Matching : i <= j
    BY <1>6, <2>0, First
  <2>2. i \in Reached
    BY <2>0, <2>1 DEF Reached
  <2>3. PICK k \in Reached : \A j \in Reached : j <= k
    BY <1>2, <2>2, Last
  <2> QED BY <2>3 DEF findMatchingDatastream
<1> QED BY <1>4, <1>5, <1>6

(* What is found depends on the content and the system only. *)
LEMMA SearchStays ==
  ASSUME contents' = contents, system' = system
  PROVE  findMatchingDatastream' = findMatchingDatastream
<1>1. \A p : Fits(p)' = Fits(p)
  BY DEF Fits
<1>2. Matching' = Matching
  BY <1>1 DEF Matching
<1>3. Reached' = Reached
  BY <1>2 DEF Reached
<1> QED BY <1>3 DEF findMatchingDatastream

-----------------------------------------------------------------------------
(* The inductive invariant. *)

(* A search at the current number of updates found what one would find     *)
(* now, and two at the same number found the same.                         *)
Found(option, path, n) ==
  /\ n <= updates
  /\ option # Missing => path = option
  /\ option = Missing /\ n = updates => path \in findMatchingDatastream

Agree(f, g) ==
  files[f].option = Missing /\ files[g].option = Missing /\ files[f].at = files[g].at
  => files[f].datastream = files[g].datastream

TailoringFiles == {f \in DOMAIN files : files[f].kind = "tailoring"}

FilesAgree ==
  \A f \in TailoringFiles :
    /\ Found(files[f].option, files[f].datastream, files[f].at)
    /\ \A g \in TailoringFiles : Agree(f, g)

ProcessAgrees ==
  datastream # Missing =>
    /\ Found(options.datastream, datastream, at)
    /\ \A f \in TailoringFiles :
         options.datastream = Missing /\ files[f].option = Missing /\ files[f].at = at
         => files[f].datastream = datastream

Placed ==
  \A w \in Workspaces, n \in SafeNames :
    /\ files[<<w, "policyDir", n>>] \in Tailoring \cup {NoFile}
    /\ files[<<w, "resultsDir", n>>] \notin Tailoring

Validated == {"checking", "ensuring", "configured", "tailored", "unfixed", "generated",
              "scanning", "scanned"}

Progress ==
  /\ stage = "loading" => datastream = Missing
  /\ stage \in Validated => Complete(options) /\ Sanitized(options) /\ datastream # Missing
  /\ stage \in {"tailored", "unfixed", "generated"} => command = "generate"
  /\ stage \in {"scanning", "scanned"} => command = "scan" /\ PolicyPath \in TailoringFiles

Made ==
  /\ stage \in {"ensuring", "configured", "tailored", "unfixed"} =>
       \A dir \in Directories \ todo : entries[<<Expanded[options.workspace], dir>>] # "absent"
  /\ stage \in {"configured", "tailored", "unfixed"} => todo = {}
  /\ \A w \in remediations : entries[<<w, "remediationDir">>] = "directory"
  /\ stage = "unfixed" => entries[<<options.workspace, "remediationDir">>] # "directory"

Inv == TypeOK /\ FilesAgree /\ ProcessAgrees /\ Placed /\ Progress /\ Made

(* A sanitized configuration names files of policyDir and resultsDir. *)
LEMMA PathsOfFiles ==
  ASSUME TypeOK, Complete(options), Sanitized(options)
  PROVE  /\ options.workspace \in Workspaces /\ Expanded[options.workspace] \in Workspaces
         /\ options.policy \in SafeNames /\ options.results \in SafeNames
         /\ options.arf \in SafeNames
         /\ {PolicyPath, ResultsPath, ARFPath} \subseteq DOMAIN files
         /\ PolicyPath \notin {ResultsPath, ARFPath}
<1>1. options \in Config
  BY OptionsAssumption DEF TypeOK
<1>2. options.workspace \in Workspaces
  BY <1>1 DEF Config, Complete
<1>3. Expanded[options.workspace] \in Workspaces
  BY <1>2, NamesAssumption
<1>4. options.policy \in SafeNames /\ options.results \in SafeNames /\ options.arf \in SafeNames
  BY DEF Sanitized
<1>5. DOMAIN files = Workspaces \X {"policyDir", "resultsDir"} \X SafeNames
  BY DEF TypeOK
<1>6. {PolicyPath, ResultsPath, ARFPath} \subseteq DOMAIN files
  BY <1>3, <1>4, <1>5 DEF PolicyPath, ResultsPath, ARFPath
<1>7. PolicyPath # ResultsPath /\ PolicyPath # ARFPath
  BY DEF PolicyPath, ResultsPath, ARFPath
<1> QED BY <1>2, <1>3, <1>4, <1>6, <1>7

LEMMA InitInv == Init => Inv
<1> SUFFICES ASSUME Init PROVE Inv
  OBVIOUS
<1>1. TypeOK
  BY MaxUpdatesAssumption, SystemAssumption, EntriesAssumption
  DEF Init, TypeOK, File, Ended
<1>2. TailoringFiles = {}
  BY DEF Init, TailoringFiles, NoFile
<1>3. Placed
  BY DEF Init, Placed, NoFile, Tailoring
<1> QED BY <1>1, <1>2, <1>3 DEF Init, Inv, FilesAgree, ProcessAgrees, Progress, Made, Validated

(* A step that leaves files and environment alone keeps what is known of   *)
(* the files.                                                              *)
LEMMA FilesStay ==
  ASSUME Inv, UNCHANGED <<environment, files>>
  PROVE  /\ FilesAgree' /\ Placed'
         /\ TailoringFiles' = TailoringFiles
         /\ contents' \in FileKinds /\ system' \in Systems /\ updates' \in 0 .. MaxUpdates
         /\ files' \in [Workspaces \X {"policyDir", "resultsDir"} \X SafeNames -> File]
         /\ \A o, p, n : Found(o, p, n)' <=> Found(o, p, n)
<1>1. contents' = contents /\ system' = system /\ updates' = updates /\ files' = files
  BY DEF environment
<1>2. \A o, p, n : Found(o, p, n)' <=> Found(o, p, n)
  BY <1>1, SearchStays DEF Found
<1>3. TailoringFiles' = TailoringFiles
  BY <1>1 DEF TailoringFiles
<1>4. FilesAgree'
  BY <1>1, <1>2, <1>3 DEF Inv, FilesAgree, Agree
<1>5. Placed'
  BY <1>1 DEF Inv, Placed, Tailoring, NoFile
<1> QED BY <1>1, <1>2, <1>3, <1>4, <1>5 DEF Inv, TypeOK

(* A command that ends without having determined anything, or forgets it.  *)
LEMMA StepLeave ==
  ASSUME Inv, NEW e \in {"failed", "died"}, Leave(e)
  PROVE  Inv'
<1>1. /\ stage' = e /\ datastream' = Missing /\ todo' = {} /\ entries' = entries
      /\ remediations' = remediations /\ command' = command /\ options' = options /\ at' = at
      /\ UNCHANGED <<environment, files>>
  BY DEF Leave
<1>2. TypeOK'
  BY <1>1, FilesStay DEF Inv, TypeOK, Ended
<1>3. ProcessAgrees' /\ Progress' /\ Made'
  BY <1>1 DEF Inv, Made, ProcessAgrees, Progress, Validated
<1> QED BY <1>1, <1>2, <1>3, FilesStay DEF Inv

LEMMA StepStart == Inv /\ Start => Inv'
<1> SUFFICES ASSUME Inv, Start PROVE Inv'
  OBVIOUS
<1>1. /\ stage' = "loading" /\ datastream' = Missing /\ todo' = {} /\ entries' = entries
      /\ remediations' = remediations /\ command' \in {"generate", "scan"} /\ options' \in Options
      /\ at' = updates /\ UNCHANGED <<environment, files>>
  BY DEF Start
<1>2. TypeOK'
  BY <1>1, FilesStay DEF Inv, TypeOK, Running
<1>3. ProcessAgrees' /\ Progress' /\ Made'
  BY <1>1 DEF Inv, Made, ProcessAgrees, Progress, Validated
<1> QED BY <1>1, <1>2, <1>3, FilesStay DEF Inv

(* What was found at an earlier number of updates is known to be the same. *)
LEMMA StepUpdate == Inv /\ Update => Inv'
<1> SUFFICES ASSUME Inv, Update PROVE Inv'
  OBVIOUS
<1>1. /\ contents' \in Contents /\ system' \in Systems /\ updates' = updates + 1
      /\ updates < MaxUpdates /\ files' = files /\ stage' = stage /\ entries' = entries
      /\ remediations' = remediations /\ command' = command /\ options' = options
      /\ datastream' = datastream /\ at' = at /\ todo' = todo
  BY DEF Update, process
<1>2. updates \in Nat /\ updates' \in 0 .. MaxUpdates
  BY <1>1, MaxUpdatesAssumption DEF Inv, TypeOK
<1>3. TypeOK'
  BY <1>1, <1>2, SystemAssumption DEF Inv, TypeOK
<1>4. TailoringFiles' = TailoringFiles
  BY <1>1 DEF TailoringFiles
<1>5. ASSUME NEW o, NEW p, NEW n \in 0 .. MaxUpdates, Found(o, p, n)
      PROVE  Found(o, p, n)'
  <2>1. n <= updates /\ n <= updates + 1 /\ n # updates + 1
    BY <1>2, <1>5 DEF Found
  <2> QED BY <1>1, <1>5, <2>1 DEF Found
<1>6. \A f \in TailoringFiles : files[f].at \in 0 .. MaxUpdates
  BY DEF Inv, TypeOK, TailoringFiles, File, Tailoring, NoFile, ResultsFile, ArfFile
<1>7. FilesAgree'
  BY <1>1, <1>4, <1>5, <1>6 DEF Inv, FilesAgree, Agree
<1>8. ProcessAgrees'
  BY <1>1, <1>4, <1>5 DEF Inv, TypeOK, ProcessAgrees
<1>9. Placed' /\ Progress' /\ Made'
  BY <1>1, <1>4 DEF Inv, Placed, Progress, Made, Complete, Sanitized, PolicyPath
<1> QED BY <1>3, <1>7, <1>8, <1>9 DEF Inv

(* What is determined is either given or found now; a tailoring file of    *)
(* the same number of updates was made with what is found now, too.        *)
LEMMA StepLoadSettings == Inv /\ LoadSettings => Inv'
<1> SUFFICES ASSUME Inv, LoadSettings PROVE Inv'
  OBVIOUS
<1>1. /\ stage = "loading" /\ datastream = Missing /\ at' = updates /\ entries' = entries
      /\ remediations' = remediations /\ command' = command /\ options' = options /\ todo' = todo
      /\ UNCHANGED <<environment, files>>
  BY DEF LoadSettings, Inv, Progress
<1>2. updates \in 0 .. MaxUpdates /\ updates <= updates
  BY MaxUpdatesAssumption DEF Inv, TypeOK
<1>3. options \in Config
  BY OptionsAssumption DEF Inv, TypeOK
<1>4. CASE stage' = "refused" /\ datastream' = datastream
  <2>1. TypeOK'
    BY <1>1, <1>2, <1>4, FilesStay DEF Inv, TypeOK, Ended
  <2>2. ProcessAgrees' /\ Progress' /\ Made'
    BY <1>1, <1>4 DEF Inv, Made, ProcessAgrees, Progress, Validated
  <2> QED BY <2>1, <2>2, FilesStay, <1>1 DEF Inv
<1>5. CASE /\ Complete(options) /\ Sanitized(options) /\ stage' = "checking"
           /\ \/ options.datastream # Missing /\ datastream' = options.datastream
              \/ options.datastream = Missing /\ datastream' \in findMatchingDatastream
  <2>1. datastream' \in Paths
    BY <1>3, <1>5, SearchFinds DEF Config
  <2>2. TypeOK'
    BY <1>1, <1>2, <1>5, <2>1, FilesStay DEF Inv, TypeOK, Running
  <2>3. datastream' # Missing
    BY <2>1, NamesAssumption
  <2>4. Found(options.datastream, datastream', updates)
    BY <1>2, <1>5 DEF Found
  <2>5. ASSUME NEW f \in TailoringFiles, options.datastream = Missing,
               files[f].option = Missing, files[f].at = updates
        PROVE  files[f].datastream = datastream'
    <3>1. files[f].datastream \in findMatchingDatastream
      BY <2>5 DEF Inv, FilesAgree, Found
    <3> QED BY <1>5, <2>5, <3>1, SearchFinds
  <2>6. contents' = contents /\ system' = system /\ updates' = updates /\ files' = files
        /\ TailoringFiles' = TailoringFiles /\ findMatchingDatastream' = findMatchingDatastream
    BY <1>1, FilesStay, SearchStays DEF environment
  <2>7. ProcessAgrees'
    BY <1>1, <2>4, <2>5, <2>6 DEF ProcessAgrees, Found
  <2>8. Progress' /\ Made'
    BY <1>1, <1>5, <2>3 DEF Inv, Made, Progress, Validated, Complete, Sanitized
  <2> QED BY <1>1, <2>2, <2>7, <2>8, FilesStay DEF Inv
<1> QED BY <1>4, <1>5 DEF LoadSettings

(* A step after the search keeps what it found, and its configuration.     *)
LEMMA ProcessStays ==
  ASSUME Inv, UNCHANGED <<environment, files, options, datastream, at>>
  PROVE  /\ ProcessAgrees'
         /\ Complete(options)' <=> Complete(options)
         /\ Sanitized(options)' <=> Sanitized(options)
         /\ PolicyPath' = PolicyPath
<1>1. ProcessAgrees'
  BY FilesStay DEF Inv, ProcessAgrees
<1> QED BY <1>1 DEF Complete, Sanitized, PolicyPath

LEMMA StepCheckDatastream == Inv /\ CheckDatastream => Inv'
<1> SUFFICES ASSUME Inv, CheckDatastream PROVE Inv'
  OBVIOUS
<1>1. /\ stage = "checking" /\ entries' = entries /\ remediations' = remediations
      /\ command' = command /\ options' = options /\ datastream' = datastream /\ at' = at
      /\ UNCHANGED <<environment, files>>
      /\ \/ stage' = "ensuring" /\ todo' = Directories
         \/ stage' = "refused" /\ todo' = todo
  BY DEF CheckDatastream
<1>2. TypeOK'
  BY <1>1, FilesStay DEF Inv, TypeOK, Ended, Running
<1>3. Progress'
  BY <1>1, ProcessStays DEF Inv, Progress, Validated
<1>4. Made'
  BY <1>1 DEF Inv, Made
<1> QED BY <1>1, <1>2, <1>3, <1>4, FilesStay, ProcessStays DEF Inv

(* Each directory is there once it has been ensured, or is something else. *)
LEMMA StepEnsureDirectory ==
  ASSUME Inv, NEW dir \in Directories, EnsureDirectory(dir)
  PROVE  Inv'
<1> DEFINE root == Expanded[options.workspace]
<1>1. /\ stage = "ensuring" /\ stage' = stage /\ remediations' = remediations
      /\ command' = command /\ options' = options /\ datastream' = datastream /\ at' = at
      /\ UNCHANGED <<environment, files>> /\ todo' = todo \ {dir}
      /\ entries' = [e \in DOMAIN entries |->
           IF e[1] = root /\ e[2] \in {dir} \cup Parents(dir) /\ entries[e] = "absent"
           THEN "directory" ELSE entries[e]]
  BY DEF EnsureDirectory
<1>2. entries \in Entries /\ DOMAIN entries = Workspaces \X Directories
  BY DEF Inv, TypeOK, Entries
<1>3. entries' \in Entries
  BY <1>1, <1>2 DEF Entries
<1>4. TypeOK'
  BY <1>1, <1>3, FilesStay DEF Inv, TypeOK
<1>5. Progress'
  BY <1>1, ProcessStays, FilesStay DEF Inv, Progress, Validated
<1>6. root \in Workspaces
  BY <1>1, PathsOfFiles DEF Inv, Progress, Validated
<1>7. ASSUME NEW d \in Directories \ todo'
      PROVE  entries'[<<root, d>>] # "absent"
  <2>1. <<root, d>> \in DOMAIN entries /\ <<root, d>>[1] = root /\ <<root, d>>[2] = d
    BY <1>2, <1>6
  <2>2. CASE d = dir
    BY <1>1, <2>1, <2>2
  <2>3. CASE d # dir
    <3>1. entries[<<root, d>>] # "absent"
      BY <1>1, <1>7, <2>3 DEF Inv, Made
    <3> QED BY <1>1, <2>1, <3>1
  <2> QED BY <2>2, <2>3
<1>8. ASSUME NEW w \in remediations
      PROVE  entries'[<<w, "remediationDir">>] = "directory"
  <2>1. w \in Workspaces /\ <<w, "remediationDir">> \in DOMAIN entries
    BY <1>2, <1>8 DEF Inv, TypeOK, Directories
  <2>2. entries[<<w, "remediationDir">>] = "directory"
    BY <1>8 DEF Inv, Made
  <2> QED BY <1>1, <2>1, <2>2
<1>9. Made'
  BY <1>1, <1>7, <1>8 DEF Made
<1> QED BY <1>1, <1>4, <1>5, <1>9, FilesStay, ProcessStays DEF Inv

(* Steps that move on without touching anything but remediations.          *)
LEMMA StepMoveOn ==
  ASSUME Inv, UNCHANGED <<environment, entries, files, process>>,
         stage' \in Ended \cup Running, remediations' \subseteq Workspaces,
         Progress', Made'
  PROVE  Inv'
<1>1. UNCHANGED <<environment, files>> /\ UNCHANGED <<options, datastream, at>> /\ entries' = entries
      /\ command' = command /\ todo' = todo /\ options' = options /\ datastream' = datastream /\ at' = at
  BY DEF process
<1>2. TypeOK'
  BY <1>1, FilesStay DEF Inv, TypeOK
<1> QED BY <1>1, <1>2, FilesStay, ProcessStays DEF Inv

LEMMA StepDefineFilesPaths == Inv /\ defineFilesPaths => Inv'
<1> SUFFICES ASSUME Inv, defineFilesPaths PROVE Inv'
  OBVIOUS
<1>1. /\ stage = "ensuring" /\ todo = {} /\ stage' = "configured" /\ remediations' = remediations
      /\ entries' = entries /\ UNCHANGED <<environment, files>> /\ UNCHANGED process
      /\ command' = command /\ options' = options /\ datastream' = datastream /\ todo' = todo /\ at' = at
  BY DEF defineFilesPaths, process
<1>2. Progress'
  BY <1>1, ProcessStays DEF Inv, Progress, Validated
<1>3. Made'
  BY <1>1 DEF Inv, Made
<1> QED BY <1>1, <1>2, <1>3, StepMoveOn DEF Running, Inv, TypeOK

LEMMA StepOscapGenerateFix == Inv /\ OscapGenerateFix => Inv'
<1> SUFFICES ASSUME Inv, OscapGenerateFix PROVE Inv'
  OBVIOUS
<1>1. /\ stage = "tailored" /\ entries' = entries /\ UNCHANGED <<environment, files>>
      /\ UNCHANGED process
      /\ command' = command /\ options' = options /\ datastream' = datastream /\ todo' = todo /\ at' = at
      /\ \/ /\ entries[<<options.workspace, "remediationDir">>] = "directory"
            /\ remediations' = remediations \cup {options.workspace} /\ stage' = "generated"
         \/ /\ entries[<<options.workspace, "remediationDir">>] # "directory"
            /\ remediations' = remediations /\ stage' = "unfixed"
  BY DEF OscapGenerateFix, process, IsDirectory
<1>2. options.workspace \in Workspaces
  BY <1>1, PathsOfFiles DEF Inv, Progress, Validated
<1>3. Progress'
  BY <1>1, ProcessStays DEF Inv, Progress, Validated
<1>4. Made'
  BY <1>1 DEF Inv, Made
<1> QED BY <1>1, <1>2, <1>3, <1>4, StepMoveOn DEF Ended, Inv, TypeOK

LEMMA StepFindTailoring == Inv /\ FindTailoring => Inv'
<1> SUFFICES ASSUME Inv, FindTailoring PROVE Inv'
  OBVIOUS
<1>1. /\ stage = "configured" /\ command = "scan" /\ entries' = entries
      /\ remediations' = remediations /\ UNCHANGED <<environment, files>> /\ UNCHANGED process
      /\ command' = command /\ options' = options /\ datastream' = datastream /\ todo' = todo /\ at' = at
      /\ \/ files[PolicyPath] = NoFile /\ stage' = "failed"
         \/ files[PolicyPath] # NoFile /\ stage' = "scanning"
  BY DEF FindTailoring, process
<1>2. /\ Expanded[options.workspace] \in Workspaces /\ options.policy \in SafeNames
      /\ PolicyPath \in DOMAIN files
  BY <1>1, PathsOfFiles DEF Inv, Progress, Validated
<1>3. files[PolicyPath] \in Tailoring \cup {NoFile}
  BY <1>2 DEF Inv, Placed, PolicyPath
<1>4. files[PolicyPath] # NoFile => PolicyPath \in TailoringFiles
  BY <1>2, <1>3 DEF TailoringFiles, Tailoring
<1>5. Progress'
  BY <1>1, <1>4, ProcessStays, FilesStay DEF Inv, Progress, Validated
<1>6. Made'
  BY <1>1 DEF Inv, Made
<1> QED BY <1>1, <1>5, <1>6, StepMoveOn DEF Ended, Running, Inv, TypeOK

(* The new tailoring file was made with what this process found.           *)
LEMMA StepWriteTailoring == Inv /\ WriteTailoring => Inv'
<1> SUFFICES ASSUME Inv, WriteTailoring PROVE Inv'
  OBVIOUS
<1> DEFINE new == [kind |-> "tailoring", option |-> options.datastream,
                   datastream |-> datastream, at |-> at]
<1>1. /\ stage = "configured" /\ command = "generate" /\ stage' = "tailored"
      /\ entries' = entries /\ remediations' = remediations
      /\ contents' = contents /\ system' = system /\ updates' = updates
      /\ command' = command /\ options' = options /\ datastream' = datastream /\ todo' = todo /\ at' = at
      /\ files' = [files EXCEPT ![PolicyPath] = new]
  BY DEF WriteTailoring, environment, process
<1>2. /\ Complete(options) /\ Sanitized(options) /\ datastream # Missing
      /\ Expanded[options.workspace] \in Workspaces /\ options.policy \in SafeNames
      /\ PolicyPath \in DOMAIN files
  BY <1>1, PathsOfFiles DEF Inv, Progress, Validated
<1>3. options \in Config /\ datastream \in Paths /\ at \in 0 .. MaxUpdates
  BY <1>2, OptionsAssumption DEF Inv, TypeOK
<1>4. new \in Tailoring
  BY <1>3 DEF Tailoring, Config
<1>5. TypeOK'
  BY <1>1, <1>4 DEF Inv, TypeOK, File, Running
<1>6. /\ DOMAIN files' = DOMAIN files /\ files'[PolicyPath] = new
      /\ \A f \in DOMAIN files : f # PolicyPath => files'[f] = files[f]
  BY <1>1, <1>2
<1>7. TailoringFiles' = TailoringFiles \cup {PolicyPath}
  BY <1>2, <1>6 DEF TailoringFiles
<1>8. \A o, p, n : Found(o, p, n)' <=> Found(o, p, n)
  BY <1>1, SearchStays DEF Found
<1>9. Found(options.datastream, datastream, at)
      /\ \A f \in TailoringFiles :
           options.datastream = Missing /\ files[f].option = Missing /\ files[f].at = at
           => files[f].datastream = datastream
  BY <1>2 DEF Inv, ProcessAgrees
<1>10. \A f \in TailoringFiles' :
         \/ f = PolicyPath
         \/ f \in TailoringFiles /\ files'[f] = files[f]
  BY <1>6, <1>7 DEF TailoringFiles
<1>11. ASSUME NEW f \in TailoringFiles'
       PROVE  /\ Found(files'[f].option, files'[f].datastream, files'[f].at)
              /\ options.datastream = Missing /\ files'[f].option = Missing /\ files'[f].at = at
                 => files'[f].datastream = datastream
  BY <1>6, <1>9, <1>10 DEF Inv, FilesAgree
<1>12. ASSUME NEW f \in TailoringFiles', NEW g \in TailoringFiles',
              files'[f].option = Missing, files'[g].option = Missing, files'[f].at = files'[g].at
       PROVE  files'[f].datastream = files'[g].datastream
  <2>1. CASE f = PolicyPath
    BY <1>6, <1>11, <1>12, <2>1
  <2>2. CASE g = PolicyPath
    BY <1>6, <1>11, <1>12, <2>2
  <2>3. CASE f # PolicyPath /\ g # PolicyPath
    BY <1>10, <1>12, <2>3 DEF Inv, FilesAgree, Agree
  <2> QED BY <2>1, <2>2, <2>3
<1>13. FilesAgree'
  BY <1>8, <1>11, <1>12 DEF FilesAgree, Agree
<1>14. ProcessAgrees'
  BY <1>1, <1>8, <1>9, <1>11 DEF ProcessAgrees
<1>15. Placed'
  <2>1. \A w \in Workspaces, n \in SafeNames :
          /\ <<w, "policyDir", n>> \in DOMAIN files /\ <<w, "resultsDir", n>> \in DOMAIN files
          /\ <<w, "resultsDir", n>> # PolicyPath
    BY DEF Inv, TypeOK, PolicyPath
  <2> QED BY <1>4, <1>6, <2>1 DEF Inv, Placed, Tailoring, NoFile
<1>16. Progress'
  BY <1>1, <1>2 DEF Progress, Validated, Complete, Sanitized
<1>17. Made'
  BY <1>1 DEF Inv, Made
<1> QED BY <1>5, <1>13, <1>14, <1>15, <1>16, <1>17 DEF Inv

(* A scan writes into resultsDir only, where there is no tailoring file.   *)
LEMMA ScanWrites ==
  ASSUME Inv, OscapScan
  PROVE  /\ DOMAIN files' = DOMAIN files
         /\ files' \in [Workspaces \X {"policyDir", "resultsDir"} \X SafeNames -> File]
         /\ \A f \in DOMAIN files : \/ files'[f] = files[f]
                                   \/ /\ f \in {ResultsPath, ARFPath} /\ f \notin TailoringFiles
                                      /\ files'[f] \in {ResultsFile, ArfFile}
<1>1. stage = "scanning" /\ Complete(options) /\ Sanitized(options)
  BY DEF OscapScan, Inv, Progress, Validated
<1>2. /\ Expanded[options.workspace] \in Workspaces
      /\ options.results \in SafeNames /\ options.arf \in SafeNames
      /\ ResultsPath \in DOMAIN files /\ ARFPath \in DOMAIN files
  BY <1>1, PathsOfFiles DEF Inv
<1>3. files[ResultsPath] \notin Tailoring /\ files[ARFPath] \notin Tailoring
  BY <1>2 DEF Inv, Placed, ResultsPath, ARFPath
<1>4. files \in [Workspaces \X {"policyDir", "resultsDir"} \X SafeNames -> File]
  BY DEF Inv, TypeOK
<1>5. \A f \in DOMAIN files : files[f] \in File
  BY <1>4
<1>6. ResultsPath \notin TailoringFiles /\ ARFPath \notin TailoringFiles
  BY <1>2, <1>3, <1>5 DEF TailoringFiles, File, NoFile, ResultsFile, ArfFile
<1>7. \/ files' = [files EXCEPT ![ResultsPath] = ResultsFile, ![ARFPath] = ArfFile]
      \/ files' = [files EXCEPT ![ARFPath] = ArfFile, ![ResultsPath] = ResultsFile]
  BY DEF OscapScan
<1>8. ResultsFile \in File /\ ArfFile \in File
  BY DEF File
<1> QED BY <1>2, <1>4, <1>6, <1>7, <1>8

LEMMA StepOscapScan == Inv /\ OscapScan => Inv'
<1> SUFFICES ASSUME Inv, OscapScan PROVE Inv'
  OBVIOUS
<1>1. /\ stage = "scanning" /\ stage' = "scanned"
      /\ entries' = entries /\ remediations' = remediations
      /\ contents' = contents /\ system' = system /\ updates' = updates
      /\ command' = command /\ options' = options /\ datastream' = datastream /\ todo' = todo /\ at' = at
  BY DEF OscapScan, environment, process
<1>2. TypeOK'
  BY <1>1, ScanWrites DEF Inv, TypeOK, Ended
<1>3. \A f \in DOMAIN files : f \in TailoringFiles => files'[f] = files[f]
  BY ScanWrites
<1>4. TailoringFiles' = TailoringFiles
  BY <1>3, ScanWrites DEF TailoringFiles, ResultsFile, ArfFile
<1>5. \A o, p, n : Found(o, p, n)' <=> Found(o, p, n)
  BY <1>1, SearchStays DEF Found
<1>6. \A f \in TailoringFiles : files'[f] = files[f]
  BY <1>3 DEF TailoringFiles
<1>7. FilesAgree' /\ ProcessAgrees'
  BY <1>1, <1>4, <1>5, <1>6 DEF Inv, FilesAgree, ProcessAgrees, Agree
<1>8. Placed'
  <2>1. ASSUME NEW w \in Workspaces, NEW n \in SafeNames
        PROVE  /\ files'[<<w, "policyDir", n>>] = files[<<w, "policyDir", n>>]
               /\ \/ files'[<<w, "resultsDir", n>>] = files[<<w, "resultsDir", n>>]
                  \/ files'[<<w, "resultsDir", n>>] \in {ResultsFile, ArfFile}
    <3>1. <<w, "policyDir", n>> \in DOMAIN files /\ <<w, "resultsDir", n>> \in DOMAIN files
      BY DEF Inv, TypeOK
    <3>2. <<w, "policyDir", n>> \notin {ResultsPath, ARFPath}
      BY DEF ResultsPath, ARFPath
    <3> QED BY <3>1, <3>2, ScanWrites
  <2>2. ResultsFile \notin Tailoring /\ ArfFile \notin Tailoring
    BY DEF Tailoring, ResultsFile, ArfFile
  <2>3. ASSUME NEW w \in Workspaces, NEW n \in SafeNames
        PROVE  /\ files'[<<w, "policyDir", n>>] \in Tailoring \cup {NoFile}
               /\ files'[<<w, "resultsDir", n>>] \notin Tailoring
    BY <2>1, <2>2 DEF Inv, Placed
  <2> QED BY <2>3 DEF Placed, Tailoring, NoFile
<1>9. Progress' /\ Made'
  BY <1>1, <1>4 DEF Inv, Progress, Made, Validated, Complete, Sanitized, PolicyPath
<1> QED BY <1>2, <1>7, <1>8, <1>9 DEF Inv

LEMMA StepStutter == Inv /\ UNCHANGED vars => Inv'
<1> SUFFICES ASSUME Inv, UNCHANGED vars PROVE Inv'
  OBVIOUS
<1>1. /\ stage' = stage /\ entries' = entries /\ remediations' = remediations
      /\ UNCHANGED <<environment, files>> /\ UNCHANGED process
      /\ command' = command /\ options' = options /\ datastream' = datastream /\ todo' = todo /\ at' = at
  BY DEF vars, process
<1>2. Progress'
  BY <1>1, ProcessStays, FilesStay DEF Inv, Progress, Validated
<1>3. Made'
  BY <1>1 DEF Inv, Made
<1> QED BY <1>1, <1>2, <1>3, StepMoveOn DEF Inv, TypeOK

LEMMA NextInv == Inv /\ [Next]_vars => Inv'
<1> SUFFICES ASSUME Inv, [Next]_vars PROVE Inv'
  OBVIOUS
<1>1. CASE Die
  BY <1>1, StepLeave DEF Die
<1>2. CASE \E dir \in Directories : EnsureDirectory(dir)
  BY <1>2, StepEnsureDirectory
<1>3. CASE \E dir \in Directories : CannotEnsure(dir)
  BY <1>3, StepLeave DEF CannotEnsure
<1>4. CASE CannotTailor \/ OscapFails
  BY <1>4, StepLeave DEF CannotTailor, OscapFails
<1> QED BY <1>1, <1>2, <1>3, <1>4, StepUpdate, StepStart, StepLoadSettings, StepCheckDatastream,
           StepDefineFilesPaths, StepWriteTailoring, StepOscapGenerateFix, StepFindTailoring,
           StepOscapScan, StepStutter
        DEF Next, Command

(* The invariant holds whatever commands follow each other. *)
THEOREM Invariance == Spec => []Inv
BY InitInv, NextInv, PTL DEF Spec

-----------------------------------------------------------------------------
(* What follows from the invariant, one theorem per property. *)

(* The plugin's files hold what they should (config.go:219-230).           *)
THEOREM TypeCorrect == Spec => []TypeOK
<1>1. Inv => TypeOK
  BY DEF Inv
<1> QED BY <1>1, Invariance, PTL

LEMMA InvScansWhatWasTailored == Inv => ScansWhatWasTailored
<1> SUFFICES ASSUME Inv, stage \in {"scanning", "scanned"} PROVE
      /\ files[PolicyPath].kind = "tailoring"
      /\ files[PolicyPath].option = options.datastream
         /\ (files[PolicyPath].option # Missing \/ files[PolicyPath].at = at)
         => files[PolicyPath].datastream = datastream
  BY DEF ScansWhatWasTailored
<1>1. PolicyPath \in TailoringFiles /\ datastream # Missing
  BY DEF Inv, Progress, Validated
<1>2. Found(options.datastream, datastream, at)
      /\ (options.datastream = Missing /\ files[PolicyPath].option = Missing /\ files[PolicyPath].at = at
           => files[PolicyPath].datastream = datastream)
  BY <1>1 DEF Inv, ProcessAgrees
<1>3. Found(files[PolicyPath].option, files[PolicyPath].datastream, files[PolicyPath].at)
  BY <1>1 DEF Inv, FilesAgree
<1> QED BY <1>1, <1>2, <1>3 DEF TailoringFiles, Found

(* A scan evaluates the datastream that its tailoring file was made with,  *)
(* if the same was asked for and none was updated in between               *)
(* (config.go:86-92, 298-341; scan.go:33-41).                              *)
THEOREM ScansTailored == Spec => []ScansWhatWasTailored
BY InvScansWhatWasTailored, Invariance, PTL

LEMMA InvRemediations == Inv => RemediationsBesideTailoring
<1> SUFFICES ASSUME Inv, stage = "unfixed", Expanded[options.workspace] = options.workspace
             PROVE  entries[<<options.workspace, "remediationDir">>] = "file"
  BY DEF RemediationsBesideTailoring, Inv, Made
<1>1. options.workspace \in Workspaces
  BY PathsOfFiles DEF Inv, Progress, Validated
<1>2. <<options.workspace, "remediationDir">> \in Workspaces \X Directories
  BY <1>1 DEF Directories
<1>3. entries[<<options.workspace, "remediationDir">>] \in {"absent", "directory", "file"}
  BY <1>2 DEF Inv, TypeOK, Entries
<1>4. entries[<<options.workspace, "remediationDir">>] \notin {"absent", "directory"}
  BY DEF Inv, Made, Directories
<1> QED BY <1>3, <1>4

(* Remediation files are where the tailoring file is, or generate fails    *)
(* (server.go:64-70; config.go:191, 207).                                  *)
THEOREM RemediationsBeside == Spec => []RemediationsBesideTailoring
BY InvRemediations, Invariance, PTL

(* Only generate and scan write files, and scan only files of its own.     *)
LEMMA NextKeepsTailoring ==
  ASSUME Inv, [Next]_vars, command = "scan", NEW f \in DOMAIN files, files[f].kind = "tailoring"
  PROVE  files'[f] = files[f]
<1>1. f \in TailoringFiles
  BY DEF TailoringFiles
<1>2. CASE OscapScan
  BY <1>1, <1>2, ScanWrites
<1>3. CASE WriteTailoring
  BY <1>3 DEF WriteTailoring
<1>4. CASE files' = files
  BY <1>4
<1> QED BY <1>2, <1>3, <1>4
    DEF Next, Command, Update, Die, Leave, Start, LoadSettings, CheckDatastream, EnsureDirectory,
        CannotEnsure, defineFilesPaths, CannotTailor, OscapGenerateFix, FindTailoring, OscapFails, vars

(* A scan leaves every tailoring file as it is (config.go:225-227).        *)
THEOREM TailoringSurvivesScans == Spec => TailoringKept
<1>1. Inv /\ [Next]_vars =>
        [command = "scan" =>
           \A f \in DOMAIN files : files[f].kind = "tailoring" => files'[f] = files[f]]_vars
  BY NextKeepsTailoring
<1> QED BY <1>1, Invariance, PTL DEF Spec, TailoringKept

LEMMA NextTouchesValidated ==
  ASSUME Inv, [Next]_vars,
         <<entries', files', remediations'>> # <<entries, files, remediations>>
  PROVE  Complete(options) /\ Sanitized(options) /\ datastream # Missing
<1>1. stage \in Validated
  BY DEF Next, Command, Update, Die, Leave, Start, LoadSettings, CheckDatastream, EnsureDirectory,
         CannotEnsure, defineFilesPaths, CannotTailor, OscapGenerateFix, FindTailoring, OscapFails,
         WriteTailoring, OscapScan, vars, Validated
<1> QED BY <1>1 DEF Inv, Progress

(* A configuration with a missing or an unexpected value touches nothing   *)
(* (config.go:50-108).                                                     *)
THEOREM RefusedLeavesAlone == Spec => RefusedTouchesNothing
<1>1. Inv /\ [Next]_vars =>
        [<<entries, files, remediations>>' # <<entries, files, remediations>> =>
           Complete(options) /\ Sanitized(options) /\ datastream # Missing]_vars
  BY NextTouchesValidated
<1> QED BY <1>1, Invariance, PTL DEF Spec, RefusedTouchesNothing

LEMMA NextRefuses ==
  ASSUME Inv, [Next]_vars, stage # "refused", stage' = "refused"
  PROVE  \/ ~ Complete(options) \/ ~ Sanitized(options)
         \/ datastream = Missing /\ options.datastream = Missing /\ Matching = {}
         \/ datastream # Missing /\ contents[datastream] # "xml"
<1>1. LoadSettings \/ CheckDatastream
  BY DEF Next, Command, Update, Die, Leave, Start, EnsureDirectory, CannotEnsure, defineFilesPaths,
         CannotTailor, OscapGenerateFix, FindTailoring, OscapFails, WriteTailoring, OscapScan, vars
<1>2. CASE LoadSettings
  BY <1>2, SearchFinds DEF LoadSettings, Inv, Progress
<1>3. CASE CheckDatastream
  BY <1>3 DEF CheckDatastream, Inv, Progress, Validated
<1> QED BY <1>1, <1>2, <1>3

(* A configuration is refused for a reason: the search finds a datastream  *)
(* if there is one for the system (config.go:79-102, 298-341).             *)
THEOREM RefusedWithReason == Spec => RefusedForAReason
<1>1. Inv /\ [Next]_vars =>
        [stage # "refused" /\ stage' = "refused" =>
           \/ ~ Complete(options) \/ ~ Sanitized(options)
           \/ datastream = Missing /\ options.datastream = Missing /\ Matching = {}
           \/ datastream # Missing /\ contents[datastream] # "xml"]_vars
  BY NextRefuses
<1> QED BY <1>1, Invariance, PTL DEF Spec, RefusedForAReason
=============================================================================
