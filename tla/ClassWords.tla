------------------------------ MODULE ClassWords ------------------------------
(***************************************************************************)
(* The numbers and the words the class file format fixes.                   *)
(*                                                                         *)
(* Each word (an attribute's name, <init>, java/lang/Object,                *)
(* java/lang/String) stands for one ASCII character, so a file is its real  *)
(* bytes with shorter words.  A u4 is the pair of its halves; flags are a   *)
(* number.                                                                  *)
(***************************************************************************)
EXTENDS Mutf8

Tag == [Utf8 |-> 1, Integer |-> 3, Float |-> 4, Long |-> 5, Double |-> 6, Class |-> 7, String |-> 8,
        Fieldref |-> 9, Methodref |-> 10, InterfaceMethodref |-> 11, NameAndType |-> 12,
        MethodHandle |-> 15, MethodType |-> 16, Dynamic |-> 17, InvokeDynamic |-> 18,
        Module |-> 19, Package |-> 20]
Wide == {Tag.Long, Tag.Double}

Java == [v1_0 |-> 45, v5 |-> 49, v6 |-> 50, v7 |-> 51, v8 |-> 52, v9 |-> 53, v11 |-> 55,
         v16 |-> 60, v17 |-> 61, v25 |-> 69, v26 |-> 70]
PreviewMinor   == 65535
PreviewRelease == Java.v25
Magic          == <<51966, 47806>>

Acc == [Public |-> 1, Static |-> 8, Final |-> 16, Super |-> 32, Native |-> 256, Interface |-> 512,
        Abstract |-> 1024, Module |-> 32768]
Has(f, bit) == (f \div bit) % 2 = 1

AttrNames == <<
  "ConstantValue", "Code", "StackMapTable", "Exceptions", "InnerClasses", "EnclosingMethod",
  "Synthetic", "Signature", "SourceFile", "SourceDebugExtension", "LineNumberTable",
  "LocalVariableTable", "LocalVariableTypeTable", "Deprecated", "RuntimeVisibleAnnotations",
  "RuntimeInvisibleAnnotations", "RuntimeVisibleParameterAnnotations",
  "RuntimeInvisibleParameterAnnotations", "RuntimeVisibleTypeAnnotations",
  "RuntimeInvisibleTypeAnnotations", "AnnotationDefault", "BootstrapMethods", "MethodParameters",
  "Module", "ModulePackages", "ModuleMainClass", "NestHost", "NestMembers", "Record",
  "PermittedSubclasses">>
Word(n)     == <<CHOOSE i \in DOMAIN AttrNames : AttrNames[i] = n>>
AttrOf(s)   == IF Len(s) = 1 /\ s[1] \in DOMAIN AttrNames THEN AttrNames[s[1]] ELSE "unknown"
Object      == <<36>>
JavaString  == <<37>>
Init_       == <<60>>
Clinit      == <<62>>

u1(v) == <<v>>
u2(v) == <<(v \div 256) % 256, v % 256>>
u4(v) == u2(v[1]) \o u2(v[2])
halves(n) == <<n \div 65536, n % 65536>>
=============================================================================
