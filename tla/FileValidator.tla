---------------------------- MODULE FileValidator ----------------------------
(***************************************************************************)
(* src/src/utils/file_validator.py as a predicate on an uploaded file.  Of *)
(* its name only what the checks look at is kept: whether it is empty, has *)
(* separators or "..", or a null byte, and its suffix, which pathlib takes *)
(* to be empty for a name that only begins with a dot.                     *)
(***************************************************************************)
EXTENDS Naturals

CONSTANT MaxFileSize   \* settings.signing.max_file_size_bytes

ASSUME SizeAssumption == MaxFileSize \in Nat

Allowed == {".vba", ".bas", ".cls", ".frm", ".vbs"}

\* suffix.lower(), for the suffixes that are told apart.
LowerSuffix(s) == IF s = ".VBA" THEN ".vba" ELSE s

_validate_filename(f) == ~f.unnamed /\ ~f.traversal /\ ~f.null
_validate_extension(f) == LowerSuffix(f.suffix) \in Allowed
_validate_size(f) == f.size <= MaxFileSize
_validate_not_empty(f) == f.size # 0

\* _scan_content only collects warnings: it refuses nothing.
Accepts(f) ==
    /\ _validate_filename(f)
    /\ _validate_extension(f)
    /\ _validate_size(f)
    /\ _validate_not_empty(f)
=============================================================================
