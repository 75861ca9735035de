------------------------------ MODULE TypeTable ------------------------------
(***************************************************************************)
(* get_type_id(const llvm::Type &) of Converter::Impl                     *)
(* (src/dxil_converter.cpp): the SPIR-V type the builder interns for an    *)
(* LLVM type.  An LLVM type is a record tagged by tid; a SPIR-V type is a *)
(* record tagged by op, whose equality stands for the builder's interning *)
(* of equal types under one id.  NoType stands for the id 0 returned for  *)
(* the type kinds the switch does not list.                                *)
(***************************************************************************)
EXTENDS Naturals

(* LLVM types.                                                             *)
LHalf          == [tid |-> "half"]
LFloat         == [tid |-> "float"]
LDouble        == [tid |-> "double"]
LInt(w)        == [tid |-> "int", width |-> w]
LPtr(t)        == [tid |-> "ptr", elem |-> t]
LArr(t, n)     == [tid |-> "arr", elem |-> t, n |-> n]
LStruct(ms)    == [tid |-> "struct", members |-> ms]
LVoid          == [tid |-> "void"]

(* SPIR-V types, as builder.make*Type builds them.                         *)
NoType             == [op |-> "None"]
TypeFloat(w)       == [op |-> "TypeFloat", width |-> w]
TypeBool           == [op |-> "TypeBool"]
TypeInt(w, signed) == [op |-> "TypeInt", width |-> w, signed |-> signed]
TypePointer(sc, t) == [op |-> "TypePointer", sc |-> sc, elem |-> t]
(* makeArrayType's length is the id of makeUintConstant(n): interned, so   *)
(* the value n stands for it.                                              *)
TypeArray(t, n)    == [op |-> "TypeArray", elem |-> t, length |-> n]
TypeVector(t, n)   == [op |-> "TypeVector", comp |-> t, n |-> n]

(* Faulty variant: an i1 gets an unsigned 1-bit integer, not a bool.       *)
RECURSIVE get_type_id_no_bool(_)
get_type_id_no_bool(t) ==
  CASE t.tid = "half"   -> TypeFloat(16)
    [] t.tid = "float"  -> TypeFloat(32)
    [] t.tid = "double" -> TypeFloat(64)
    [] t.tid = "int"    -> TypeInt(t.width, FALSE)
    [] t.tid = "ptr"    -> TypePointer("Function", get_type_id_no_bool(t.elem))
    [] t.tid = "arr"    -> TypeArray(get_type_id_no_bool(t.elem), t.n)
    [] OTHER            -> NoType

(***************************************************************************)
(* The switch on getTypeID(): floats by width, i1 a bool, other integers   *)
(* unsigned of their width, a pointer always in the Function storage class *)
(* to its element's type, an array of its element's type; every other kind *)
(* (struct, vector, void, ...) yields 0.                                   *)
(***************************************************************************)
RECURSIVE get_type_id(_)
get_type_id(t) ==
  CASE t.tid = "half"   -> TypeFloat(16)
    [] t.tid = "float"  -> TypeFloat(32)
    [] t.tid = "double" -> TypeFloat(64)
    [] t.tid = "int"    -> IF t.width = 1 THEN TypeBool ELSE TypeInt(t.width, FALSE)
    [] t.tid = "ptr"    -> TypePointer("Function", get_type_id(t.elem))
    [] t.tid = "arr"    -> TypeArray(get_type_id(t.elem), t.n)
    [] OTHER            -> NoType
=============================================================================
