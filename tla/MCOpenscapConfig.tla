-------------------------- MODULE MCOpenscapConfig --------------------------
(***************************************************************************)
(* The instance of OpenscapConfig for TLC: a system of id rhel, like       *)
(* fedora, in version 9 or 10; content for both in the first directory,    *)
(* and an older and a newer one in directories before and after them; a    *)
(* datastream of the user's own; one workspace, and one that "~" expands   *)
(* to another.                                                             *)
(***************************************************************************)
EXTENDS OpenscapConfig

CONSTANTS ws, tilde, home, n1, n2, bad, old9, fedora, rhel9, zz10, own, homeless,
          top, oldDir, zzDir

MCExpanded == [w \in {ws, tilde, home} |-> IF w = tilde THEN home ELSE w]

MCContentOrder == <<old9, fedora, rhel9, zz10>>
MCDirOf == [p \in {old9, fedora, rhel9, zz10} |->
  IF p = old9 THEN oldDir ELSE IF p = zz10 THEN zzDir ELSE top]
MCAbove == [p \in {old9, fedora, rhel9, zz10} |-> {top, MCDirOf[p]}]
MCIdOf == [p \in {old9, fedora, rhel9, zz10} |-> IF p = fedora THEN "fedora" ELSE "rhel"]
MCVersionOf == [p \in {old9, fedora, rhel9, zz10} |->
  IF p = fedora THEN NoVersion ELSE IF p = zz10 THEN "10" ELSE "9"]

There(S) == [p \in Paths |->
  IF p \in S \cup {own} THEN "xml" ELSE IF p = rhel9 /\ S = {} THEN "malformed" ELSE "absent"]
MCContents == {There({}), There({old9, fedora, zz10})}

MCSystems == {[ids |-> {"rhel", "fedora"}, versions |-> {"9", "95"}],
              [ids |-> {"rhel"}, versions |-> {"10", "101"}]}

Usual == [workspace |-> ws, datastream |-> Missing,
          policy |-> n1, results |-> n2, arf |-> n1, profile |-> n1]
MCOptions ==
  {Usual, [Usual EXCEPT !.datastream = own, !.arf = n2], [Usual EXCEPT !.workspace = tilde],
   [Usual EXCEPT !.datastream = homeless, !.profile = n2],
   [Usual EXCEPT !.results = bad], [Usual EXCEPT !.profile = Missing]}

Fresh == [e \in Workspaces \X Directories |-> "absent"]
MCInitialEntries ==
  {Fresh, [Fresh EXCEPT ![<<ws, "workspace">>] = "file"],
   [Fresh EXCEPT ![<<ws, "workspace">>] = "directory", ![<<ws, "pluginDir">>] = "directory",
                 ![<<ws, "remediationDir">>] = "file"]}
=============================================================================
