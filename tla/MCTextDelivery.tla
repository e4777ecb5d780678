-------------------------- MODULE MCTextDelivery --------------------------
\* Deliveries in turn on each platform, beside a person who copies, and beside the
\* observation that learns from corrections.
EXTENDS TextDelivery
===========================================================================
