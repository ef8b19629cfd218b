---------------------------- MODULE MCDeviceReads ----------------------------
(* A small instance of DeviceReads for TLC. *)
EXTENDS DeviceReads

\* One character of two bytes, and none; outputs of up to three bytes.
MCOutput == {<<>>, <<"char", "char">>, <<"char", "lead", "trail">>}

\* The rule of the repository, and one that lists cat too.
MCRules == {ALLOWED_PKEXEC_PATHS, ALLOWED_PKEXEC_PATHS \cup {"/usr/bin/cat"}}
MCRepositoryRule == {ALLOWED_PKEXEC_PATHS}

MCSizes == {9999, 10000}
MCTemperatures == {-1, 45}
MCOffsets == {0, 1}
MCFeature == <<"ssh", "vnc">>
MCShifts == {-1, 0, 1}
=============================================================================
