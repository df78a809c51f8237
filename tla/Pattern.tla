------------------------------- MODULE Pattern -------------------------------
(***************************************************************************)
(* The framebuffer routines and draw_pattern() of ch32v0/ssd1315_i2c       *)
(* (lines 331-391 and 480-500), on the real geometry of 128 x 64 pixels.   *)
(*                                                                         *)
(* framebuffer[] is the set of its bits that are set: <<n, b>> is bit b of *)
(* framebuffer[n].  The loops of fb_hline() and the others visit distinct  *)
(* pixels and only switch them all on or all off, so that a loop is one    *)
(* operation on a set of pixels.                                           *)
(***************************************************************************)
EXTENDS Integers, FiniteSets

CONSTANT Phases      \* the values of the uint8_t phase that are drawn

WIDTH == 128
HEIGHT == 64
PAGE_SIZE == 8
FB_SIZE == WIDTH * (HEIGHT \div PAGE_SIZE)

ASSUME PatternAssumption == Phases \subseteq 0..255

U16(n) == n % 65536

VARIABLES
    phase,       \* main(): the uint8_t frame counter
    framebuffer  \* after draw_pattern(phase)

vars == <<phase, framebuffer>>

-----------------------------------------------------------------------------
(* fb_pixel() for every pixel <<x, y>> of a set, on or off.                *)

Visible(p) == p[1] < WIDTH /\ p[2] < HEIGHT

BitOf_ByColumn(p) ==
    <<p[1] * (HEIGHT \div PAGE_SIZE) + p[2] \div PAGE_SIZE, p[2] % PAGE_SIZE>>
BitOf(p) == <<U16(p[1] + U16(p[2] \div PAGE_SIZE) * WIDTH), p[2] % PAGE_SIZE>>

fb_pixels(fb, pixels, on) ==
    LET bits == {BitOf(p) : p \in {q \in pixels : Visible(q)}}
    IN  IF on THEN fb \cup bits ELSE fb \ bits

hline(x, y, width) == {<<U16(x + i), y>> : i \in 0..width - 1}
vline(x, y, height) == {<<x, U16(y + i)>> : i \in 0..height - 1}

fb_rect(fb, x, y, width, height, on) ==
    fb_pixels(fb, hline(x, y, width) \cup hline(x, U16(y + height - 1), width)
                  \cup vline(x, y, height)
                  \cup vline(U16(x + width - 1), y, height), on)

fb_fill_rect(fb, x, y, width, height, on) ==
    fb_pixels(fb, UNION {hline(x, U16(y + row), width) : row \in 0..height - 1},
              on)

-----------------------------------------------------------------------------
(* draw_pattern().                                                         *)

box_x_TooWide(ph) == 16 + ((ph * 3) % (WIDTH - 16))
box_x(ph) == 16 + ((ph * 3) % (WIDTH - 32 - 16 + 1))

diagonal_NoMask(ph) == {<<x, U16(x + ph)>> : x \in 1..WIDTH - 2}
diagonal(ph) == {<<x, U16(x + ph) % HEIGHT>> : x \in 1..WIDTH - 2}

\* fb_clear() first: the old framebuffer does not matter.
draw_pattern(ph, fb) ==
    LET border == fb_rect({}, 0, 0, WIDTH, HEIGHT, TRUE)
        line   == fb_pixels(border, diagonal(ph), TRUE)
    IN  fb_fill_rect(line, box_x(ph), 24, 16, 16, TRUE)

Init ==
    /\ phase \in Phases
    /\ framebuffer = draw_pattern(phase, {})

NextPhase_NoWrap == phase + 1
NextPhase == (phase + 1) % 256

\* One turn of the loop of main(): phase is a uint8_t.
Frame ==
    /\ phase' = NextPhase
    /\ framebuffer' = draw_pattern(phase', framebuffer)

Spec == Init /\ [][Frame]_vars

-----------------------------------------------------------------------------
(* Properties.                                                             *)

TypeOK ==
    /\ phase \in 0..255
    /\ framebuffer \subseteq (0..FB_SIZE - 1) \X (0..PAGE_SIZE - 1)

\* The pixels that are lit on the panel, from what the controller does with
\* the bytes of a refresh (horizontal addressing, least significant bit on
\* top).
Lit == {<<b[1] % WIDTH, (b[1] \div WIDTH) * PAGE_SIZE + b[2]>> :
          b \in framebuffer}

Screen == (0..WIDTH - 1) \X (0..HEIGHT - 1)
OnBorder(p) == p[1] \in {0, WIDTH - 1} \/ p[2] \in {0, HEIGHT - 1}
OnDiagonal(p) == (p[1] + phase) % HEIGHT = p[2]
InBox(p) == /\ p[2] \in 24..39
            /\ p[1] - box_x(phase) \in 0..15

\* The panel shows the border, the diagonal (row x + phase, modulo the height)
\* and a box of 16 by 16 that keeps the margins, and no other pixel: no routine
\* clips, wraps or aliases a pixel into another, at any phase of the uint8_t.
ShowsPattern ==
    /\ box_x(phase) \in 16..WIDTH - 32
    /\ Lit = {p \in Screen : OnBorder(p) \/ OnDiagonal(p) \/ InBox(p)}

\* "A rectangle bouncing left and right": from one frame to the next its left
\* edge moves by at most the three pixels of a step.
BoxBounces == [][box_x(phase') - box_x(phase) \in -3..3]_vars

=============================================================================
