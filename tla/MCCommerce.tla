------------------------------ MODULE MCCommerce ------------------------------
EXTENDS Commerce
=============================================================================
