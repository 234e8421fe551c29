--------------------------- MODULE OpenscapConfig ---------------------------
(***************************************************************************)
(* How the openscap plugin configures itself, and what the files are that  *)
(* generate and scan then hand to each other.  Every command starts a new  *)
(* process of the plugin, which is given the options anew, looks for the   *)
(* datastream anew, and makes the directories of the workspace that are    *)
(* missing.                                                                *)
(*                                                                         *)
(* Commands follow each other, with any options, and may die.  The content *)
(* under /usr/share/xml/scap/ssg/content and the version of the system may *)
(* be updated at any time.  What concurrent commands do to each other's    *)
(* files is the subject of Workspace.                                      *)
(*                                                                         *)
(* A path of a datastream or of a workspace is a model value; "~/ws" is    *)
(* another one than the directory that it expands to.  An empty name is    *)
(* one of unexpected characters, and the three remediation files are taken *)
(* together.  Left out: what the files contain besides where they come     *)
(* from, permissions, and the names "." and "..".                          *)
(***************************************************************************)
EXTENDS Integers, Sequences

CONSTANTS
  Workspaces,    \* the values of the option workspace, and what they expand to
  Expanded,      \* per workspace, the directory it stands for after "~"
  Names,         \* file and profile names
  SafeNames,     \* those of the expected characters
  Paths,         \* paths of datastreams, as given or as found
  ContentOrder,  \* those under DatastreamsDir, in the order of the walk
  Above,         \* per such path, the directories that contain it
  DirOf,         \* per such path, its own directory
  IdOf,          \* per such path, the distribution that its name names
  VersionOf,     \* and the version
  NoVersion,     \* a name without a version
  Missing,       \* an option is not given (of datastream, or is empty)
  Options,       \* the configurations considered
  Contents,      \* which datastreams may be there
  Systems,       \* what /etc/os-release may say
  InitialEntries,\* what the workspaces may contain at first
  MaxUpdates     \* bound on the number of updates

Directories == {"workspace", "pluginDir", "policyDir", "resultsDir", "remediationDir"}

Parents(dir) ==
  IF dir = "workspace" THEN {} ELSE IF dir = "pluginDir" THEN {"workspace"}
  ELSE {"workspace", "pluginDir"}

Config ==
  [workspace : Workspaces \cup {Missing}, datastream : Paths \cup {Missing},
   policy : Names \cup {Missing}, results : Names \cup {Missing}, arf : Names \cup {Missing},
   profile : Names \cup {Missing}]

Entries == [Workspaces \X Directories -> {"absent", "directory", "file"}]
FileKinds == [Paths -> {"absent", "directory", "malformed", "xml"}]

(* A tailoring file remembers the datastream it was made with, the option  *)
(* that it was found by, and when it was looked for.                       *)
Tailoring ==
  [kind : {"tailoring"}, option : Paths \cup {Missing}, datastream : Paths, at : 0 .. MaxUpdates]
NoFile == [kind |-> "none"]
ResultsFile == [kind |-> "results"]
ArfFile == [kind |-> "arf"]
File == Tailoring \cup {NoFile, ResultsFile, ArfFile}

ASSUME NamesAssumption ==
  /\ SafeNames \subseteq Names
  /\ Missing \notin Names \cup Paths \cup Workspaces
  /\ Expanded \in [Workspaces -> Workspaces]
ASSUME ContentAssumption ==
  /\ ContentOrder \in Seq(Paths)
  /\ \A i \in DOMAIN ContentOrder : DirOf[ContentOrder[i]] \in Above[ContentOrder[i]]
ASSUME OptionsAssumption == Options \subseteq Config
ASSUME SystemAssumption ==
  /\ Contents \subseteq FileKinds
  /\ \A s \in Systems : DOMAIN s = {"ids", "versions"}
ASSUME EntriesAssumption == InitialEntries \subseteq Entries
ASSUME MaxUpdatesAssumption == MaxUpdates \in Nat

VARIABLES
  contents,      \* per path, what is there
  system,        \* the ids and versions of /etc/os-release
  updates,       \* how often contents and system have been updated
  entries,       \* per workspace and directory, what is there
  files,         \* the files in policyDir and resultsDir
  remediations,  \* the workspaces with remediation files
  stage,         \* where the command stands
  command,       \* "generate" or "scan"
  options,       \* its configuration
  datastream,    \* Files.Datastream, once it is determined
  at,            \* the number of updates when it was
  todo           \* the directories that have yet to be ensured

environment == <<contents, system, updates>>
process == <<command, options, datastream, at, todo>>
vars == <<environment, entries, files, remediations, stage, process>>

Ended == {"idle", "refused", "failed", "unfixed", "generated", "scanned", "died"}
Running == {"loading", "checking", "ensuring", "configured", "tailored", "scanning"}

TypeOK ==
  /\ contents \in FileKinds /\ system \in Systems /\ updates \in 0 .. MaxUpdates
  /\ entries \in Entries
  /\ files \in [Workspaces \X {"policyDir", "resultsDir"} \X SafeNames -> File]
  /\ remediations \subseteq Workspaces
  /\ stage \in Ended \cup Running
  /\ command \in {"generate", "scan"}
  /\ options \in Options
  /\ datastream \in Paths \cup {Missing}
  /\ at \in 0 .. MaxUpdates
  /\ todo \subseteq Directories

-----------------------------------------------------------------------------
(* setConfigStruct and SanitizeInput: only the datastream may be missing.  *)
Complete(o) ==
  Missing \notin {o.workspace, o.results, o.arf, o.policy, o.profile}

Sanitized(o) == {o.policy, o.results, o.arf, o.profile} \subseteq SafeNames

(* The system's own id or one it is like, its major or its full version,   *)
(* or no version at all.                                                   *)
Fits(p) ==
  /\ system.ids # {} /\ system.versions # {}
  /\ IdOf[p] \in system.ids
  /\ VersionOf[p] \in system.versions \cup {NoVersion}

Matching ==
  {i \in DOMAIN ContentOrder : /\ Fits(ContentOrder[i])
                               /\ contents[ContentOrder[i]] \in {"malformed", "xml"}}

(* A match ends the walk of the directory that it is in, with all of its   *)
(* directories that are still to come.                                     *)
Reached ==
  {i \in Matching : \A j \in Matching :
     j < i => DirOf[ContentOrder[j]] \notin Above[ContentOrder[i]]}

(* Mutant: any match will do, as if the directory were read unsorted. *)
findAnyDatastream ==
  {ContentOrder[i] : i \in Matching}

(* Mutant: only files directly in the first directory are looked at. *)
findMatchingDatastreamFlat ==
  {ContentOrder[i] : i \in {j \in Reached : Above[ContentOrder[j]] = {DirOf[ContentOrder[j]]}}}

(* The last match replaces those of other directories; none is the empty   *)
(* set.  The order is that of the file names, not that of the ids.         *)
findMatchingDatastream ==
  {ContentOrder[i] : i \in {j \in Reached : \A k \in Reached : k <= j}}

PolicyPath == <<Expanded[options.workspace], "policyDir", options.policy>>
ResultsPath == <<Expanded[options.workspace], "resultsDir", options.results>>

ARFPath == <<Expanded[options.workspace], "resultsDir", options.arf>>

-----------------------------------------------------------------------------
Init ==
  /\ contents \in Contents
  /\ system \in Systems
  /\ updates = 0
  /\ entries \in InitialEntries
  /\ files = [f \in Workspaces \X {"policyDir", "resultsDir"} \X SafeNames |-> NoFile]
  /\ remediations = {}
  /\ stage = "idle"
  /\ command = "generate"
  /\ options \in Options
  /\ datastream = Missing
  /\ at = 0
  /\ todo = {}

(* The process ends, and what it had determined is gone with it. *)
Leave(ended) ==
  /\ stage' = ended
  /\ datastream' = Missing
  /\ todo' = {}
  /\ UNCHANGED <<environment, entries, files, remediations, command, options, at>>

(* A package or the system is updated. *)
Update ==
  /\ updates < MaxUpdates
  /\ contents' \in Contents
  /\ system' \in Systems
  /\ updates' = updates + 1
  /\ UNCHANGED <<entries, files, remediations, stage, process>>

Start ==
  /\ stage \in Ended
  /\ stage' = "loading"
  /\ command' \in {"generate", "scan"}
  /\ options' \in Options
  /\ datastream' = Missing
  /\ at' = updates
  /\ todo' = {}
  /\ UNCHANGED <<environment, entries, files, remediations>>

Die == stage \in Running /\ Leave("died")

(* Mutant: the directories are made before the configuration is validated. *)
LoadSettingsAndMake ==
  /\ stage = "loading"
  /\ stage' = IF Complete(options) /\ Sanitized(options) THEN "ensuring" ELSE "refused"
  /\ datastream' \in {options.datastream} \cup findMatchingDatastream
  /\ entries' = [e \in DOMAIN entries |->
       IF /\ options.workspace # Missing /\ e[1] = Expanded[options.workspace]
          /\ entries[e] = "absent" THEN "directory" ELSE entries[e]]
  /\ at' = updates
  /\ UNCHANGED <<environment, files, remediations, command, options, todo>>

(* A datastream that is given is taken as it is; "~" in it has been        *)
(* expanded only to see whether it is the current directory.               *)
LoadSettings ==
  /\ stage = "loading"
  /\ at' = updates
  /\ \/ /\ ~ (Complete(options) /\ Sanitized(options))
        /\ stage' = "refused" /\ UNCHANGED datastream
     \/ /\ Complete(options) /\ Sanitized(options)
        /\ options.datastream # Missing
        /\ datastream' = options.datastream /\ stage' = "checking"
     \/ /\ Complete(options) /\ Sanitized(options)
        /\ options.datastream = Missing
        /\ findMatchingDatastream = {}
        /\ stage' = "refused" /\ UNCHANGED datastream
     \/ /\ Complete(options) /\ Sanitized(options)
        /\ options.datastream = Missing
        /\ datastream' \in findMatchingDatastream /\ stage' = "checking"
  /\ UNCHANGED <<environment, entries, files, remediations, command, options, todo>>

(* Mutant: the directory for the remediations is forgotten. *)
CheckDatastreamWithoutRemediations ==
  /\ stage = "checking"
  /\ IF contents[datastream] = "xml"
     THEN stage' = "ensuring" /\ todo' = Directories \ {"remediationDir"}
     ELSE stage' = "refused" /\ UNCHANGED todo
  /\ UNCHANGED <<environment, entries, files, remediations, command, options, datastream, at>>

(* validatePath and IsXMLFile. *)
CheckDatastream ==
  /\ stage = "checking"
  /\ IF contents[datastream] = "xml"
     THEN stage' = "ensuring" /\ todo' = Directories
     ELSE stage' = "refused" /\ UNCHANGED todo
  /\ UNCHANGED <<environment, entries, files, remediations, command, options, datastream, at>>

InTheWay(root, dir) == \E parent \in Parents(dir) : entries[<<root, parent>>] = "file"

(* The directories come in the order of a map.  One that is there is left  *)
(* alone, be it a file.                                                    *)
EnsureDirectory(dir) ==
  LET root == Expanded[options.workspace]
  IN  /\ stage = "ensuring" /\ dir \in todo
      /\ ~ InTheWay(root, dir)
      /\ todo' = todo \ {dir}
      /\ entries' = [e \in DOMAIN entries |->
           IF e[1] = root /\ e[2] \in {dir} \cup Parents(dir) /\ entries[e] = "absent"
           THEN "directory" ELSE entries[e]]
      /\ UNCHANGED <<environment, files, remediations, stage, command, options, datastream, at>>

(* Something else is in the way, or a directory cannot be made. *)
CannotEnsure(dir) ==
  LET root == Expanded[options.workspace]
  IN  /\ stage = "ensuring" /\ dir \in todo
      /\ InTheWay(root, dir) \/ entries[<<root, dir>>] = "absent"
      /\ Leave("failed")

defineFilesPaths ==
  /\ stage = "ensuring" /\ todo = {}
  /\ stage' = "configured"
  /\ UNCHANGED <<environment, entries, files, remediations, process>>

-----------------------------------------------------------------------------
(* What the commands do with the files. *)

IsDirectory(root, dir) == entries[<<root, dir>>] = "directory"

WriteTailoring ==
  /\ stage = "configured" /\ command = "generate"
  /\ IsDirectory(PolicyPath[1], "policyDir")
  /\ files' = [files EXCEPT ![PolicyPath] =
       [kind |-> "tailoring", option |-> options.datastream, datastream |-> datastream, at |-> at]]
  /\ stage' = "tailored"
  /\ UNCHANGED <<environment, entries, remediations, process>>

(* The plan cannot be tailored, or the file not be created. *)
CannotTailor == stage = "configured" /\ command = "generate" /\ Leave("failed")

(* The remediations go to the workspace as it was given, which has not     *)
(* been expanded; oscap does not make directories.                         *)
OscapGenerateFix ==
  /\ stage = "tailored"
  /\ IF IsDirectory(options.workspace, "remediationDir")
     THEN remediations' = remediations \cup {options.workspace} /\ stage' = "generated"
     ELSE stage' = "unfixed" /\ UNCHANGED remediations
  /\ UNCHANGED <<environment, entries, files, process>>

(* validateOpenSCAPFiles *)
FindTailoring ==
  /\ stage = "configured" /\ command = "scan"
  /\ stage' = IF files[PolicyPath] = NoFile THEN "failed" ELSE "scanning"
  /\ UNCHANGED <<environment, entries, files, remediations, process>>

(* Of two files of one name the one that oscap writes last remains. *)
OscapScan ==
  /\ stage = "scanning"
  /\ IsDirectory(ResultsPath[1], "resultsDir")
  /\ files' \in {[files EXCEPT ![ResultsPath] = ResultsFile, ![ARFPath] = ArfFile],
                 [files EXCEPT ![ARFPath] = ArfFile, ![ResultsPath] = ResultsFile]}
  /\ stage' = "scanned"
  /\ UNCHANGED <<environment, entries, remediations, process>>

OscapFails == stage \in {"tailored", "scanning"} /\ Leave("failed")

Command ==
  \/ Start
  \/ LoadSettings
  \/ CheckDatastream
  \/ \E dir \in Directories : EnsureDirectory(dir) \/ CannotEnsure(dir)
  \/ defineFilesPaths
  \/ WriteTailoring
  \/ CannotTailor
  \/ OscapGenerateFix
  \/ FindTailoring
  \/ OscapScan
  \/ OscapFails

Next == Update \/ Die \/ Command

Spec == Init /\ [][Next]_vars

-----------------------------------------------------------------------------
(* A scan evaluates the datastream that its tailoring file was made with,  *)
(* provided that the same one was asked for and, if none was, that nothing *)
(* was updated in between: looking twice finds the same one                *)
(* (config.go:86-92, 298-341; scan.go:33-41).                              *)
ScansWhatWasTailored ==
  stage \in {"scanning", "scanned"} =>
    LET t == files[PolicyPath]
    IN  /\ t.kind = "tailoring"
        /\ t.option = options.datastream /\ (t.option # Missing \/ t.at = at)
           => t.datastream = datastream

(* Remediation files are only where the tailoring files are, too: in a     *)
(* workspace that stands for itself; and a generate that finds no          *)
(* directory for them has left its tailoring file in another workspace, or *)
(* found something else in the directory's place                           *)
(* (server.go:64-70; config.go:191, 207).                                  *)
RemediationsBesideTailoring ==
  /\ \A w \in remediations : entries[<<w, "remediationDir">>] = "directory"
  /\ stage = "unfixed" =>
       \/ Expanded[options.workspace] # options.workspace
       \/ entries[<<options.workspace, "remediationDir">>] = "file"

(* A scan leaves every tailoring file as it is, even where the names of    *)
(* the three files are the same, so that it can be repeated                *)
(* (config.go:225-227).                                                    *)
TailoringKept ==
  [][command = "scan" =>
       \A f \in DOMAIN files : files[f].kind = "tailoring" => files'[f] = files[f]]_vars

(* A configuration with a missing or an unexpected value touches neither   *)
(* the workspace nor the files in it, whatever else it asks for            *)
(* (config.go:50-108).                                                     *)
RefusedTouchesNothing ==
  [][<<entries, files, remediations>>' # <<entries, files, remediations>> =>
       /\ Complete(options) /\ Sanitized(options)
       /\ datastream # Missing]_vars

(* A configuration is refused only for a missing or an unexpected value, a *)
(* datastream that is no XML file, or a system for which no datastream is  *)
(* installed: the search finds one if there is one (config.go:79-102,      *)
(* 298-341).                                                               *)
RefusedForAReason ==
  [][stage # "refused" /\ stage' = "refused" =>
       \/ ~ Complete(options) \/ ~ Sanitized(options)
       \/ datastream = Missing /\ options.datastream = Missing /\ Matching = {}
       \/ datastream # Missing /\ contents[datastream] # "xml"]_vars
=============================================================================
