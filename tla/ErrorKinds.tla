----------------------------- MODULE ErrorKinds -----------------------------
(***************************************************************************)
(* The errors of the two crates, as their kind() tells them apart.  One    *)
(* that CoreBluetooth reports keeps its NSError, whose domain says what    *)
(* its code means; one that the crates make is a kind alone.               *)
(***************************************************************************)

Bluetooth(code) == [kind |-> "Bluetooth", code |-> code]
ATT(code) == [kind |-> "ATT", code |-> code]
Other == [kind |-> "Other", code |-> 0]
Canceled == [kind |-> "Canceled", code |-> 0]

(* ErrorKind of corebluetooth; CBError and CBATTError are their codes. *)
ErrorKinds == {Other} \union [kind : {"Bluetooth", "ATT"}, code : {5, 10}]

(* ErrorKind of corebluetooth-async, but for Lagged. *)
AsyncErrorKinds == ErrorKinds \union {Canceled}

(* Codes of CBError.  5 means something else in each domain. *)
OperationCancelled == 5
ConnectionFailed == 10

NSErrors == [domain : {"CBErrorDomain", "CBATTErrorDomain", "NSPOSIXErrorDomain"}, code : {5}]

Os(error) == [data |-> "Os", error |-> error]
Simple(kind) == [data |-> "Simple", kind |-> kind]

-----------------------------------------------------------------------------
(* corebluetooth.                                                          *)

(* Error::from_nserror_or_kind, of no NSError or one. *)
FromNSErrorOrKind(error, kind) ==
  IF error = {} THEN Simple(kind) ELSE Os(CHOOSE e \in NSErrors : error = {e})

(* From<&NSError> for ErrorKind. *)
FromNSError(e) ==
  CASE e.domain = "CBErrorDomain" -> Bluetooth(e.code)
    [] e.domain = "CBATTErrorDomain" -> ATT(e.code)
    [] OTHER -> Other

(* Error::kind. *)
Kind(error) == IF error.data = "Os" THEN FromNSError(error.error) ELSE error.kind

-----------------------------------------------------------------------------
(* corebluetooth-async, whose Os(..) keeps an Error of corebluetooth.      *)

(* Mutant of FromErrorKind: two codes that look alike are taken for one.  *)
FromErrorKindConfusing(kind) ==
  IF kind.code = OperationCancelled THEN Canceled ELSE kind

(* From<corebluetooth::error::ErrorKind>: each kind stays what it is. *)
FromErrorKind(kind) == kind

(* From<corebluetooth::Error>. *)
FromError(error) == Os(error)

(* From<oneshot::Canceled>. *)
FromCanceled == Simple(Canceled)

(* Error::kind. *)
AsyncKind(error) == IF error.data = "Os" THEN FromErrorKind(Kind(error.error)) ELSE error.kind
=============================================================================
