----------------------------- MODULE MC_Replay -----------------------------
(* Songs for TLC.  In those of Ordering a short pattern, in which two voices *)
(* give up to three commands of order and time, is followed by an empty one, *)
(* and one of up to two such commands by one of up to two loops; those of    *)
(* Sounding are long slides of one voice, with the code's table of periods.  *)
EXTENDS Replay, FiniteSets, TLC

(* mt_PeriodTable (replay.c:114-150).                                        *)
Periods ==
  <<
  856, 808, 762, 720, 678, 640, 604, 570, 538, 508, 480, 453, 428, 404, 381, 360, 339, 320, 302,
  285, 269, 254, 240, 226, 214, 202, 190, 180, 170, 160, 151, 143, 135, 127, 120, 113, 0,
  850, 802, 757, 715, 674, 637, 601, 567, 535, 505, 477, 450, 425, 401, 379, 357, 337, 318, 300,
  284, 268, 253, 239, 225, 213, 201, 189, 179, 169, 159, 150, 142, 134, 126, 119, 113, 0,
  844, 796, 752, 709, 670, 632, 597, 563, 532, 502, 474, 447, 422, 398, 376, 355, 335, 316, 298,
  282, 266, 251, 237, 224, 211, 199, 188, 177, 167, 158, 149, 141, 133, 125, 118, 112, 0,
  838, 791, 746, 704, 665, 628, 592, 559, 528, 498, 470, 444, 419, 395, 373, 352, 332, 314, 296,
  280, 264, 249, 235, 222, 209, 198, 187, 176, 166, 157, 148, 140, 132, 125, 118, 111, 0,
  832, 785, 741, 699, 660, 623, 588, 555, 524, 495, 467, 441, 416, 392, 370, 350, 330, 312, 294,
  278, 262, 247, 233, 220, 208, 196, 185, 175, 165, 156, 147, 139, 131, 124, 117, 110, 0,
  826, 779, 736, 694, 655, 619, 584, 551, 520, 491, 463, 437, 413, 390, 368, 347, 328, 309, 292,
  276, 260, 245, 232, 219, 206, 195, 184, 174, 164, 155, 146, 138, 130, 123, 116, 109, 0,
  820, 774, 730, 689, 651, 614, 580, 547, 516, 487, 460, 434, 410, 387, 365, 345, 325, 307, 290,
  274, 258, 244, 230, 217, 205, 193, 183, 172, 163, 154, 145, 137, 129, 122, 115, 109, 0,
  814, 768, 725, 684, 646, 610, 575, 543, 513, 484, 457, 431, 407, 384, 363, 342, 323, 305, 288,
  272, 256, 242, 228, 216, 204, 192, 181, 171, 161, 152, 144, 136, 128, 121, 114, 108, 0,
  907, 856, 808, 762, 720, 678, 640, 604, 570, 538, 508, 480, 453, 428, 404, 381, 360, 339, 320,
  302, 285, 269, 254, 240, 226, 214, 202, 190, 180, 170, 160, 151, 143, 135, 127, 120, 0,
  900, 850, 802, 757, 715, 675, 636, 601, 567, 535, 505, 477, 450, 425, 401, 379, 357, 337, 318,
  300, 284, 268, 253, 238, 225, 212, 200, 189, 179, 169, 159, 150, 142, 134, 126, 119, 0,
  894, 844, 796, 752, 709, 670, 632, 597, 563, 532, 502, 474, 447, 422, 398, 376, 355, 335, 316,
  298, 282, 266, 251, 237, 223, 211, 199, 188, 177, 167, 158, 149, 141, 133, 125, 118, 0,
  887, 838, 791, 746, 704, 665, 628, 592, 559, 528, 498, 470, 444, 419, 395, 373, 352, 332, 314,
  296, 280, 264, 249, 235, 222, 209, 198, 187, 176, 166, 157, 148, 140, 132, 125, 118, 0,
  881, 832, 785, 741, 699, 660, 623, 588, 555, 524, 494, 467, 441, 416, 392, 370, 350, 330, 312,
  294, 278, 262, 247, 233, 220, 208, 196, 185, 175, 165, 156, 147, 139, 131, 123, 117, 0,
  875, 826, 779, 736, 694, 655, 619, 584, 551, 520, 491, 463, 437, 413, 390, 368, 347, 328, 309,
  292, 276, 260, 245, 232, 219, 206, 195, 184, 174, 164, 155, 146, 138, 130, 123, 116, 0,
  868, 820, 774, 730, 689, 651, 614, 580, 547, 516, 487, 460, 434, 410, 387, 365, 345, 325, 307,
  290, 274, 258, 244, 230, 217, 205, 193, 183, 172, 163, 154, 145, 137, 129, 122, 115, 0,
  862, 814, 768, 725, 684, 646, 610, 575, 543, 513, 484, 457, 431, 407, 384, 363, 342, 323, 305,
  288, 272, 256, 242, 228, 216, 203, 192, 181, 171, 161, 152, 144, 136, 128, 121, 114, 0,
  0, 0, 0, 0, 0, 0, 0, 0, 0, 0, 0, 0, 0, 0
  >>
(* Behind the table, entries too large for any note, then numbers of any     *)
(* size and sign.                                                            *)
MC_PeriodTable ==
  [i \in 0..(255 * 37 + 37) |->
     IF i <= 605 THEN Periods[i + 1] ELSE IF i <= 2000 THEN 70000 ELSE ((i * 131) % 1500) - 200]

Nothing == [note |-> 0, sample |-> 0, cmd |-> 0, lo |-> 0]
Command(c, lo) == [Nothing EXCEPT !.cmd = c, !.lo = lo]
NoSamples == [i \in SampleNumbers |-> [finetune |-> 0, volume |-> 64]]

(* E60, E61, E62: a loop; EE0, EE1: a delay; D01; B00, B01; F01.             *)
Orders == {Command(14, 96), Command(14, 97), Command(14, 98), Command(14, 224),
           Command(14, 225), Command(13, 1), Command(11, 0), Command(11, 1),
           Command(15, 1)}

Places == (0..(Rows - 1)) \X {1, 3}
Scripts(places, orders, n) ==
  UNION {[s -> orders] : s \in {s \in SUBSET places : Cardinality(s) <= n}}

Pattern(script) ==
  [r \in 0..(Rows - 1) |-> [v \in Voices |->
     IF <<r, v>> \in DOMAIN script THEN script[<<r, v>>] ELSE Nothing]]

(* A loop of the first pattern may be broken off, and its count is left to   *)
(* the second.                                                               *)
Loops == Scripts(Places \ {<<0, 1>>, <<0, 3>>}, {Command(14, 97)}, 2)

Ordering ==
  [length : {2}, order : {[p \in 0..(Positions - 1) |-> p % 2]}, samples : {NoSamples},
   pattern : {0 :> Pattern(s[1]) @@ 1 :> Pattern(s[2]) :
                s \in {t \in Scripts(Places, Orders, 3) \X Loops :
                       DOMAIN t[2] = {} \/ Cardinality(DOMAIN t[1]) <= 2}}]

(* One voice: a note of some sample, then two commands: slides up and down,  *)
(* plain and fine, towards a note with and without a volume slide, volumes,  *)
(* and a finetune.                                                           *)
Tunings == [i \in SampleNumbers |-> [finetune |-> CASE i = 1 -> 7 [] i = 2 -> 15 [] OTHER -> 0,
                                      volume |-> 40]]
(* Bytes that no tracker writes, and those found for a 32nd sample.          *)
RawTunings == [i \in SampleNumbers |-> [finetune |-> CASE i = 1 -> 20 [] i = 32 -> 255 [] OTHER -> 0,
                                         volume |-> IF i = 32 THEN 65 ELSE 255]]
Struck(samples) == {[Nothing EXCEPT !.note = n, !.sample = i] : n \in {113, 428}, i \in samples}
Slides ==
  {Command(c[1], c[2]) : c \in {<<1, 1>>, <<1, 240>>, <<2, 240>>, <<14, 31>>, <<14, 47>>,
                                <<5, 15>>, <<6, 240>>, <<10, 48>>, <<12, 255>>,
                                <<14, 90>>, <<14, 175>>, <<14, 191>>, <<14, 193>>}}
  \cup {[Command(3, lo) EXCEPT !.note = n] : lo \in {0, 200}, n \in {113, 856}}

Sounding(samples, struck) ==
  [length : {1}, order : {[p \in 0..(Positions - 1) |-> 0]}, samples : {samples},
   pattern : {0 :> Pattern(<<0, 1>> :> a @@ <<1, 1>> :> b @@ <<2, 1>> :> c) :
                a \in Struck(struck), b \in Slides, c \in Slides}]

MC_Songs == Ordering \cup Sounding(Tunings, 1..3) \cup Sounding(RawTunings, {1, 32, 33})
=============================================================================
