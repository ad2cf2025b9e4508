------------------------------- MODULE BoardLine -------------------------------
(***************************************************************************)
(* What libnfc makes of a board before the first command, as functions:    *)
(* the registers that set the line of a CH34x on a cable (otg.c), the      *)
(* terminal settings of a serial port (serial.c), and the endpoints found  *)
(* among the descriptors of a device (usb_device_added, usbhost.c).        *)
(***************************************************************************)
EXTENDS Integers, Sequences, FiniteSetsExt

Line(baud, bits, stop, parity) ==
  [baud |-> baud, bits |-> bits, stop |-> stop, parity |-> parity]

-----------------------------------------------------------------------------
(* A board on a cable                                                      *)

\* Speed, indexLow and indexHigh.
OTG_SPEEDS ==
  { <<50, 0, 22>>, <<75, 0, 100>>, <<110, 0, 150>>, <<135, 0, 169>>,
    <<150, 0, 178>>, <<300, 0, 217>>, <<600, 1, 100>>, <<1200, 1, 178>>,
    <<1800, 1, 204>>, <<2400, 1, 217>>, <<4800, 2, 100>>, <<9600, 2, 178>>,
    <<19200, 2, 217>>, <<38400, 3, 100>>, <<57600, 3, 152>>,
    <<115200, 3, 204>>, <<230400, 3, 230>>, <<460800, 3, 243>>,
    <<500000, 3, 244>>, <<921600, 7, 243>>, <<1000000, 3, 250>>,
    <<2000000, 3, 253>>, <<3000000, 3, 254>> }
KnownOTG == {row[1] : row \in OTG_SPEEDS}

\* The upper byte of value: stop bits and data bits below a parity of 0 to 4;
\* anything else means none, and eight data bits.
LineControl(databits, stopbits, parity) ==
  LET par  == CASE parity = 1 -> 8 [] parity = 2 -> 24
                [] parity = 3 -> 40 [] parity = 4 -> 56 [] OTHER -> 0
      stop == IF stopbits = 2 THEN 4 ELSE 0
      bits == IF databits \in 5..7 THEN databits - 5 ELSE 3
  IN 192 + par + stop + bits

\* Mutation: char has a sign, and the lower byte fills the upper one with ones.
Registers_Signed(speed, databits, stopbits, parity) ==
  LET row == CHOOSE r \in OTG_SPEEDS : r[1] = IF speed \in KnownOTG THEN speed ELSE 9600
  IN [value |-> 255 * 256 + 156, index |-> row[3] * 256 + 136 + row[2]]

\* Value and index of the request that sets the line.  char has no sign on the
\* processors that Application.mk builds for, and the bytes do not overlap.
Registers(speed, databits, stopbits, parity) ==
  LET row == CHOOSE r \in OTG_SPEEDS : r[1] = IF speed \in KnownOTG THEN speed ELSE 9600
  IN [value |-> LineControl(databits, stopbits, parity) * 256 + 156,
      index |-> row[3] * 256 + 136 + row[2]]

\* The powers of two from the first to the twelfth.
PowerOf2 == <<2, 4, 8, 16, 32, 64, 128, 256, 512, 1024, 2048, 4096>>

\* What the chip makes of them (external): a clock of 48 MHz, divided.
ChipLine(r) ==
  LET lcr    == r.value \div 256
      scale  == 12 - 3 * (r.index % 4) - ((r.index \div 4) % 2)
      parity == (lcr \div 8) % 8
  IN Line(48000000 \div (PowerOf2[scale] * (256 - r.index \div 256)),
          (lcr % 4) + 5,
          IF (lcr \div 4) % 2 = 1 THEN 2 ELSE 1,
          CASE parity = 0 -> "none" [] parity = 1 -> "odd" [] parity = 3 -> "even"
            [] parity = 5 -> "mark" [] parity = 7 -> "space" [] OTHER -> "off")

-----------------------------------------------------------------------------
(* A board on a serial port                                                *)

KnownPort == {300, 600, 1200, 2400, 4800, 9600, 19200, 38400, 57600, 115200, 230400,
              460800, 500000, 576000, 921600, 1000000, 1152000}

\* 38400 and 57600 become 19200.  The parity is a letter: o or e in either case.
SettingPort(speed, databits, stopbits, parity) ==
  Line(IF speed \in {38400, 57600} THEN 19200
         ELSE IF speed \in KnownPort THEN speed ELSE 9600,
       IF databits \in 5..8 THEN databits ELSE 8,
       IF stopbits = 2 THEN 2 ELSE 1,
       CASE parity \in {79, 111} -> "odd" [] parity \in {69, 101} -> "even"
         [] OTHER -> "none")

-----------------------------------------------------------------------------
(* Endpoints                                                               *)

Desc(type, number) == [type |-> type, number |-> number]

\* The loop over the descriptors ends when it has an interface and two
\* endpoints, or at the last.
Looked(descs) ==
  LET Endpoints(p) == {i \in 1..p : descs[i].type \in {"in", "out"}}
      Enough(p) == /\ \E i \in 1..p : descs[i].type = "interface"
                   /\ \E i, j \in Endpoints(p) : i # j
  IN Min({p \in 1..Len(descs) : Enough(p)} \cup {Len(descs)})

\* The interface that is claimed is the last one seen; the first endpoint is
\* read if it is an input, and the last one seen otherwise.
EndpointsOf(descs) ==
  LET seen == 1..Looked(descs)
      eps  == {i \in seen : descs[i].type \in {"in", "out"}}
      ep1  == descs[Min(eps)]
      ep2  == descs[Max(eps)]
  IN [interface |-> descs[Max({i \in seen : descs[i].type = "interface"})].number,
      rd |-> IF ep1.type = "in" THEN ep1 ELSE ep2,
      wr |-> IF ep1.type = "in" THEN ep2 ELSE ep1]
=============================================================================
